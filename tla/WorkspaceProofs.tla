--------------------------- MODULE WorkspaceProofs ---------------------------
(***************************************************************************)
(* What the page keeps, for any tapes, intervals, limits of the ledger and *)
(* numbers of clicks and faults.                                           *)
(*                                                                         *)
(* A task of the page is a list of stores, each saved if the write is not  *)
(* refused. So the proof asks of every store of the list what it asks of   *)
(* the last: that it is one of Stores, and that its shadow ledger follows  *)
(* from the one before by what the shadow engine does (Moves; LiveStep,    *)
(* and QuoteStep for a quote). What the engine does to one record, to a    *)
(* ledger, and with the candidates of a scan is stated first, free of the  *)
(* page; that a pattern confirmed on a whole chart is never taken back,    *)
(* last. The properties of steps and of kills follow from these.           *)
(***************************************************************************)
EXTENDS Workspace, FoldLemmas

------------------------------------------------------------------------------
(* One record of the shadow ledger                                          *)

Statuses == {"waiting", "open", "trailing", "closed", "expired"}

RecordSet ==
  [id : Ids, level : Int, confirmed : Int, registered : Int, label : Labels \cup {"none"},
   status : Statuses, filled : SUBSET (1..NDepths), returned : Int,
   armed : BOOLEAN, top : Int, stop : Int, exit : Int]

\* What RecordOK says of a record at time t.
RecordAt(r, t) ==
  /\ r \in RecordSet
  /\ r.confirmed <= r.registered /\ r.registered <= t
  /\ r.status \in {"waiting", "expired"} => r.filled = {}
  /\ r.status = "open" => ~r.armed
  /\ r.status = "trailing" => r.armed
  /\ r.armed => r.filled # {} /\ r.stop >= r.level /\ r.top >= r.stop
  /\ Followed(r) => r.exit = Never
  /\ r.exit = Never => Followed(r)
  /\ r.returned # Never => r.returned >= r.registered

LEMMA RecordLater ==
  ASSUME NEW r, NEW t \in Int, NEW u \in Int, t <= u, RecordAt(r, t) PROVE RecordAt(r, u)
BY DEF RecordAt, RecordSet

LEMMA RecordIsOK == ASSUME NEW r, RecordAt(r, now) PROVE RecordOK(r)
BY DEF RecordAt, RecordOK, RecordSet, Statuses

\* A quote changes a record in these ways only.
SameButRun(r, q) ==
  /\ q \in RecordSet
  /\ <<q.id, q.level, q.confirmed, q.registered, q.label>>
       = <<r.id, r.level, r.confirmed, r.registered, r.label>>

LEMMA FilledRecord ==
  ASSUME NEW r, NEW t \in Int, RecordAt(r, t), Followed(r), NEW ask \in Int
  PROVE  /\ RecordAt(Filled(r, ask), t) /\ Followed(Filled(r, ask))
         /\ SameButRun(r, Filled(r, ask))
         /\ r.filled \subseteq Filled(r, ask).filled
         /\ Filled(r, ask).filled = r.filled => Filled(r, ask) = r
         /\ r.armed => Filled(r, ask) = r
         /\ Filled(r, ask).returned = r.returned /\ Filled(r, ask).exit = r.exit
<1> DEFINE hit == {i \in 1..NDepths \ r.filled : ask <= r.level - i}
           q   == [r EXCEPT !.filled = @ \cup hit, !.status = "open"]
<1>1. CASE r.armed \/ hit = {}
  <2>1. Filled(r, ask) = r
    BY <1>1 DEF Filled
  <2> QED
    BY <2>1 DEF SameButRun, RecordAt
<1>2. CASE ~(r.armed \/ hit = {})
  <2>1. Filled(r, ask) = q
    BY <1>2 DEF Filled
  <2>2. hit \in SUBSET (1..NDepths) /\ hit \cap r.filled = {} /\ hit # {} /\ ~r.armed
    BY <1>2
  <2> HIDE DEF hit
  <2>3. /\ q.filled = r.filled \cup hit /\ q.status = "open"
        /\ q.id = r.id /\ q.level = r.level /\ q.confirmed = r.confirmed
        /\ q.registered = r.registered /\ q.label = r.label /\ q.returned = r.returned
        /\ q.armed = r.armed /\ q.top = r.top /\ q.stop = r.stop /\ q.exit = r.exit
    BY DEF RecordAt, RecordSet
  <2>4. q \in RecordSet
    BY <2>2 DEF RecordAt, RecordSet, Statuses
  <2> HIDE DEF q
  <2>5. RecordAt(q, t)
    BY <2>2, <2>3, <2>4 DEF RecordAt, Followed
  <2> QED
    BY <2>1, <2>2, <2>3, <2>4, <2>5 DEF SameButRun, Followed
<1> QED
  BY <1>1, <1>2

LEMMA ReturnedRecord ==
  ASSUME NEW r, NEW t \in Nat, RecordAt(r, t), NEW bid \in Int
  PROVE  /\ RecordAt(Returned(r, bid, t), t)
         /\ SameButRun(r, Returned(r, bid, t))
         /\ Returned(r, bid, t) = [r EXCEPT !.returned = Returned(r, bid, t).returned]
         /\ Returned(r, bid, t).returned = r.returned => Returned(r, bid, t) = r
         /\ r.returned # Never => Returned(r, bid, t) = r
<1> DEFINE q == [r EXCEPT !.returned = t]
<1>1. CASE ~(r.returned = Never /\ bid >= r.level)
  <2>1. Returned(r, bid, t) = r
    BY <1>1 DEF Returned
  <2>2. r = [r EXCEPT !.returned = r.returned]
    BY DEF RecordAt, RecordSet
  <2> QED
    BY <2>1, <2>2 DEF SameButRun, RecordAt
<1>2. CASE r.returned = Never /\ bid >= r.level
  <2>1. Returned(r, bid, t) = q
    BY <1>2 DEF Returned
  <2>2. /\ q.returned = t /\ q.filled = r.filled /\ q.status = r.status
        /\ q.id = r.id /\ q.level = r.level /\ q.confirmed = r.confirmed
        /\ q.registered = r.registered /\ q.label = r.label
        /\ q.armed = r.armed /\ q.top = r.top /\ q.stop = r.stop /\ q.exit = r.exit
    BY DEF RecordAt, RecordSet
  <2>3. q \in RecordSet
    BY DEF RecordAt, RecordSet
  <2>4. q = [r EXCEPT !.returned = q.returned]
    BY <2>2
  <2>5. q.returned # r.returned
    BY <1>2, <2>2 DEF Never
  <2> HIDE DEF q
  <2>6. RecordAt(q, t)
    BY <2>2, <2>3 DEF RecordAt, Followed
  <2> QED
    BY <1>2, <2>1, <2>2, <2>3, <2>4, <2>5, <2>6 DEF SameButRun
<1> QED
  BY <1>1, <1>2

LEMMA ArmedRecord ==
  ASSUME NEW r, NEW t \in Nat, RecordAt(r, t), Followed(r), r.filled # {}, NEW bid \in Int
  PROVE  /\ RecordAt(Armed(r, bid), t) /\ Followed(Armed(r, bid))
         /\ SameButRun(r, Armed(r, bid))
         /\ Unarmed(Armed(r, bid)) = Unarmed(r)
         /\ r.armed => Armed(r, bid) = r
         /\ Armed(r, bid).filled = r.filled /\ Armed(r, bid).returned = r.returned
         /\ Armed(r, bid).exit = r.exit
<1> DEFINE q == [r EXCEPT !.armed = TRUE, !.status = "trailing", !.top = bid, !.stop = r.level]
<1>1. CASE ~(~r.armed /\ bid >= r.level + ReclaimBuffer)
  <2>1. Armed(r, bid) = r
    BY <1>1 DEF Armed
  <2> QED
    BY <2>1 DEF SameButRun, RecordAt
<1>2. CASE ~r.armed /\ bid >= r.level + ReclaimBuffer
  <2>1. Armed(r, bid) = q
    BY <1>2 DEF Armed
  <2>2. /\ q.returned = r.returned /\ q.filled = r.filled /\ q.status = "trailing"
        /\ q.id = r.id /\ q.level = r.level /\ q.confirmed = r.confirmed
        /\ q.registered = r.registered /\ q.label = r.label
        /\ q.armed = TRUE /\ q.top = bid /\ q.stop = r.level /\ q.exit = r.exit
    BY DEF RecordAt, RecordSet
  <2>3. q \in RecordSet
    BY DEF RecordAt, RecordSet, Statuses
  <2>4. r.status = "open"
    BY <1>2 DEF RecordAt, Followed
  <2>5. Unarmed(q) = Unarmed(r)
    <3>1. Unarmed(q) = [r EXCEPT !.armed = FALSE, !.top = Never, !.stop = Never, !.status = "open"]
      BY <2>3 DEF Unarmed, RecordAt, RecordSet
    <3>2. Unarmed(r) = [r EXCEPT !.armed = FALSE, !.top = Never, !.stop = Never, !.status = "open"]
      BY <2>4 DEF Unarmed, RecordAt, RecordSet
    <3> QED
      BY <3>1, <3>2
  <2> HIDE DEF q
  <2>6. r.level \in Int /\ bid >= r.level
    BY <1>2, ShadowEngineAssumption DEF RecordAt, RecordSet
  <2>7. RecordAt(q, t)
    BY <2>2, <2>3, <2>6 DEF RecordAt, Followed
  <2> QED
    BY <1>2, <2>1, <2>2, <2>3, <2>5, <2>7 DEF SameButRun, Followed
<1> QED
  BY <1>1, <1>2

LEMMA RaisedRecord ==
  ASSUME NEW r, NEW t \in Nat, RecordAt(r, t), Followed(r), NEW bid \in Int
  PROVE  /\ RecordAt(Raised(r, bid), t) /\ Followed(Raised(r, bid))
         /\ SameButRun(r, Raised(r, bid))
         /\ Unarmed(Raised(r, bid)) = Unarmed(r)
         /\ r.armed => Raised(r, bid).armed /\ Raised(r, bid).stop >= r.stop
         /\ Raised(r, bid).filled = r.filled /\ Raised(r, bid).returned = r.returned
         /\ Raised(r, bid).exit = r.exit
<1> DEFINE top  == Max({r.top, bid})
           stop == Max({r.stop, r.level, top - TrailDistance})
           q    == [r EXCEPT !.top = top, !.stop = stop]
<1>1. CASE ~r.armed
  <2>1. Raised(r, bid) = r
    BY <1>1 DEF Raised
  <2> QED
    BY <1>1, <2>1 DEF SameButRun, RecordAt
<1>2. CASE r.armed
  <2>0. r.top \in Int /\ r.stop \in Int /\ r.level \in Int /\ TrailDistance \in Nat
        /\ r.top >= r.stop /\ r.stop >= r.level
    BY <1>2, ShadowEngineAssumption DEF RecordAt, RecordSet
  <2>1. Raised(r, bid) = q
    BY <1>2 DEF Raised, RecordAt, RecordSet
  <2>2. top \in Int /\ top >= r.top
    BY <2>0, MaxOfTwo
  <2> HIDE DEF top
  <2>3. top - TrailDistance \in Int
    BY <2>0, <2>2
  <2>4. /\ stop \in {r.stop, r.level, top - TrailDistance} /\ stop \in Int
        /\ stop >= r.stop /\ stop >= r.level
    BY <2>0, <2>3, MaxOfThree
  <2> HIDE DEF stop
  <2>5. top >= stop
    BY <2>0, <2>2, <2>4
  <2>6. /\ q.returned = r.returned /\ q.filled = r.filled /\ q.status = r.status
        /\ q.id = r.id /\ q.level = r.level /\ q.confirmed = r.confirmed
        /\ q.registered = r.registered /\ q.label = r.label
        /\ q.armed = r.armed /\ q.top = top /\ q.stop = stop /\ q.exit = r.exit
    BY DEF RecordAt, RecordSet
  <2>7. q \in RecordSet
    BY <2>2, <2>4 DEF RecordAt, RecordSet
  <2>8. Unarmed(q) = Unarmed(r)
    BY <2>7 DEF Unarmed, RecordAt, RecordSet
  <2> HIDE DEF q
  <2>9. RecordAt(q, t)
    BY <2>0, <2>4, <2>5, <2>6, <2>7 DEF RecordAt, Followed
  <2> QED
    BY <1>2, <2>1, <2>4, <2>6, <2>7, <2>8, <2>9 DEF SameButRun, Followed
<1> QED
  BY <1>1, <1>2

LEMMA ClosedRecord ==
  ASSUME NEW r, NEW t \in Nat, RecordAt(r, t), r.filled # {}
  PROVE  /\ RecordAt(closeRecord(r, t), t)
         /\ SameButRun(r, closeRecord(r, t))
         /\ closeRecord(r, t).armed = r.armed /\ closeRecord(r, t).stop = r.stop
         /\ closeRecord(r, t).filled = r.filled /\ closeRecord(r, t).returned = r.returned
         /\ closeRecord(r, t).exit # Never
<1> DEFINE q == [r EXCEPT !.status = "closed", !.exit = t]
<1>1. closeRecord(r, t) = q
  BY DEF closeRecord
<1>2. /\ q.returned = r.returned /\ q.filled = r.filled /\ q.status = "closed"
      /\ q.id = r.id /\ q.level = r.level /\ q.confirmed = r.confirmed
      /\ q.registered = r.registered /\ q.label = r.label
      /\ q.armed = r.armed /\ q.top = r.top /\ q.stop = r.stop /\ q.exit = t
  BY DEF RecordAt, RecordSet
<1>3. q \in RecordSet
  <2>1. r \in RecordSet /\ t \in Int /\ "closed" \in Statuses
    BY DEF RecordAt, Statuses
  <2> QED
    BY <2>1 DEF RecordSet
<1>4. q.exit # Never
  BY <1>2 DEF Never
<1> HIDE DEF q
<1>5. RecordAt(q, t)
  BY <1>2, <1>3, <1>4 DEF RecordAt, Followed
<1> QED
  BY <1>1, <1>2, <1>3, <1>4, <1>5 DEF SameButRun

LEMMA StoppedRecord ==
  ASSUME NEW r, NEW t \in Nat, RecordAt(r, t), r.filled # {}, NEW bid \in Int
  PROVE  /\ RecordAt(Stopped(r, bid, t), t)
         /\ SameButRun(r, Stopped(r, bid, t))
         /\ Stopped(r, bid, t).armed = r.armed /\ Stopped(r, bid, t).stop = r.stop
         /\ Stopped(r, bid, t).filled = r.filled /\ Stopped(r, bid, t).returned = r.returned
         /\ Stopped(r, bid, t) # r => Stopped(r, bid, t).exit # Never
<1>1. CASE r.armed /\ bid <= r.stop
  BY <1>1, ClosedRecord DEF Stopped
<1>2. CASE ~(r.armed /\ bid <= r.stop)
  <2>1. Stopped(r, bid, t) = r
    BY <1>2 DEF Stopped
  <2> QED
    BY <2>1 DEF SameButRun, RecordAt
<1> QED
  BY <1>1, <1>2

LEMMA ExpireRecord ==
  ASSUME NEW r, NEW t \in Nat, RecordAt(r, t), Followed(r)
  PROVE  /\ RecordAt(Expire(r, t), t)
         /\ SameButRun(r, Expire(r, t))
         /\ Expire(r, t).armed = r.armed /\ Expire(r, t).stop = r.stop
         /\ Expire(r, t).filled = r.filled /\ Expire(r, t).returned = r.returned
         /\ Expire(r, t).exit # Never
<1>1. CASE r.filled # {}
  BY <1>1, ClosedRecord DEF Expire
<1>2. CASE r.filled = {}
  <2> DEFINE q == [r EXCEPT !.status = "expired", !.exit = t]
  <2>1. Expire(r, t) = q
    BY <1>2 DEF Expire
  <2>2. /\ q.returned = r.returned /\ q.filled = r.filled /\ q.status = "expired"
        /\ q.id = r.id /\ q.level = r.level /\ q.confirmed = r.confirmed
        /\ q.registered = r.registered /\ q.label = r.label
        /\ q.armed = r.armed /\ q.top = r.top /\ q.stop = r.stop /\ q.exit = t
    BY DEF RecordAt, RecordSet
  <2>3. q \in RecordSet
    <3>1. r \in RecordSet /\ t \in Int /\ "expired" \in Statuses
      BY DEF RecordAt, Statuses
    <3> QED
      BY <3>1 DEF RecordSet
  <2>4. q.exit # Never
    BY <2>2 DEF Never
  <2> HIDE DEF q
  <2>5. RecordAt(q, t)
    BY <1>2, <2>2, <2>3, <2>4 DEF RecordAt, Followed
  <2> QED
    BY <2>1, <2>2, <2>3, <2>4, <2>5 DEF SameButRun
<1> QED
  BY <1>1, <1>2

\* What one quote may do to a record that is followed.
LEMMA ManagedRecord ==
  ASSUME NEW r, NEW t \in Nat, RecordAt(r, t), Followed(r), NEW bid \in Int,
         NEW q, q = Managed(r, bid, t)
  PROVE  /\ RecordAt(q, t) /\ SameButRun(r, q) /\ q.filled = r.filled
         /\ r.returned # Never => q.returned = r.returned
         /\ r.armed => q.armed /\ q.stop >= r.stop
         /\ ~Event(r, q) => Unarmed(q) = Unarmed(r)
<1>1. CASE r.filled = {}
  <2>1. q = r
    BY <1>1 DEF Managed
  <2> QED
    BY <2>1 DEF SameButRun, RecordAt, RecordSet
<1>2. CASE r.filled # {}
  <2> DEFINE a == Returned(r, bid, t)
             b == Armed(a, bid)
             d == Raised(b, bid)
  <2>0. q = Stopped(d, bid, t)
    BY <1>2 DEF Managed
  <2>1. /\ RecordAt(a, t) /\ SameButRun(r, a)
        /\ a = [r EXCEPT !.returned = a.returned]
        /\ a.returned = r.returned => a = r
        /\ r.returned # Never => a = r
    BY ReturnedRecord
  <2>2. /\ a.filled = r.filled /\ a.status = r.status /\ a.armed = r.armed /\ a.stop = r.stop
        /\ a.exit = r.exit
    BY <2>1 DEF RecordAt, RecordSet
  <2> HIDE DEF a
  <2>3. Followed(a) /\ a.filled # {}
    BY <1>2, <2>2 DEF Followed
  <2>4. /\ RecordAt(b, t) /\ Followed(b) /\ SameButRun(a, b) /\ Unarmed(b) = Unarmed(a)
        /\ a.armed => b = a
        /\ b.filled = a.filled /\ b.returned = a.returned /\ b.exit = a.exit
    BY <2>1, <2>3, ArmedRecord
  <2> HIDE DEF b
  <2>5. /\ RecordAt(d, t) /\ Followed(d) /\ SameButRun(b, d) /\ Unarmed(d) = Unarmed(b)
        /\ b.armed => d.armed /\ d.stop >= b.stop
        /\ d.filled = b.filled /\ d.returned = b.returned /\ d.exit = b.exit
    BY <2>4, RaisedRecord
  <2> HIDE DEF d
  <2>6. d.filled # {}
    BY <2>3, <2>4, <2>5
  <2>7. /\ RecordAt(q, t) /\ SameButRun(d, q)
        /\ q.armed = d.armed /\ q.stop = d.stop
        /\ q.filled = d.filled /\ q.returned = d.returned
        /\ q # d => q.exit # Never
    BY <2>0, <2>5, <2>6, StoppedRecord
  <2>8. SameButRun(r, q)
    BY <2>1, <2>4, <2>5, <2>7 DEF SameButRun
  <2>9. ASSUME r.armed PROVE q.armed /\ q.stop >= r.stop
    <3>1. a.armed /\ b = a
      BY <2>2, <2>4, <2>9
    <3>2. d.armed /\ d.stop >= b.stop
      BY <2>5, <3>1
    <3> QED
      BY <2>2, <2>7, <3>1, <3>2
  <2>10. ASSUME ~Event(r, q) PROVE Unarmed(q) = Unarmed(r)
    <3>1. q.returned = r.returned /\ q.exit = r.exit
      BY <2>10 DEF Event
    <3>2. a = r
      BY <2>1, <2>4, <2>5, <2>7, <3>1
    <3>3. r.exit = Never
      BY DEF RecordAt
    <3>4. q = d
      BY <2>7, <3>1, <3>3
    <3> QED
      BY <2>4, <2>5, <3>2, <3>4
  <2>11. r.returned # Never => q.returned = r.returned
    BY <2>1, <2>4, <2>5, <2>7
  <2> QED
    BY <2>2, <2>4, <2>5, <2>7, <2>8, <2>9, <2>10, <2>11
<1> QED
  BY <1>1, <1>2

LEMMA QuotedRecord ==
  ASSUME NEW r, NEW t \in Nat, RecordAt(r, t), NEW bid \in Int, NEW ask \in Int,
         NEW q, q = processShadowQuote(r, bid, ask, t)
  PROVE  /\ RecordAt(q, t) /\ SameButRun(r, q) /\ Advanced(r, q)
         /\ ~Event(r, q) => Unarmed(q) = Unarmed(r)
<1>1. CASE ~Followed(r)
  <2>1. q = r
    BY <1>1 DEF processShadowQuote
  <2>2. SameButRun(r, q)
    BY <2>1 DEF SameButRun, RecordAt
  <2>3. Advanced(r, q)
    BY <2>1 DEF Advanced, RecordAt, RecordSet
  <2> QED
    BY <2>1, <2>2, <2>3
<1>2. CASE Followed(r) /\ Expired(r, t)
  <2>1. q = Expire(r, t)
    BY <1>2 DEF processShadowQuote
  <2>2. /\ RecordAt(q, t) /\ SameButRun(r, q)
        /\ q.armed = r.armed /\ q.stop = r.stop
        /\ q.filled = r.filled /\ q.returned = r.returned /\ q.exit # Never
    BY <1>2, <2>1, ExpireRecord
  <2>3. r.exit = Never /\ r.stop \in Int
    BY <1>2 DEF RecordAt, RecordSet
  <2>4. Advanced(r, q)
    BY <2>2, <2>3 DEF Advanced, SameButRun
  <2> QED
    BY <2>2, <2>3, <2>4 DEF Event
<1>3. CASE Followed(r) /\ ~Expired(r, t)
  <2> DEFINE f == Filled(r, ask)
  <2>1. q = Managed(f, bid, t)
    BY <1>3 DEF processShadowQuote
  <2>2. /\ RecordAt(f, t) /\ Followed(f) /\ SameButRun(r, f)
        /\ r.filled \subseteq f.filled
        /\ f.filled = r.filled => f = r
        /\ r.armed => f = r
        /\ f.returned = r.returned /\ f.exit = r.exit
    BY <1>3, FilledRecord
  <2> HIDE DEF f
  <2>3. /\ RecordAt(q, t) /\ SameButRun(f, q) /\ q.filled = f.filled
        /\ f.returned # Never => q.returned = f.returned
        /\ f.armed => q.armed /\ q.stop >= f.stop
        /\ ~Event(f, q) => Unarmed(q) = Unarmed(f)
    BY <2>1, <2>2, ManagedRecord
  <2>4. SameButRun(r, q)
    BY <2>2, <2>3 DEF SameButRun
  <2>5. r.exit = Never
    BY <1>3 DEF RecordAt
  <2>6. Advanced(r, q)
    BY <2>2, <2>3, <2>4, <2>5 DEF Advanced, SameButRun
  <2>7. ASSUME ~Event(r, q) PROVE Unarmed(q) = Unarmed(r)
    <3>1. f = r
      BY <2>2, <2>3, <2>7 DEF Event
    <3> QED
      BY <2>3, <2>7, <3>1
  <2> QED
    BY <2>3, <2>4, <2>6, <2>7
<1> QED
  BY <1>1, <1>2, <1>3

------------------------------------------------------------------------------
(* A ledger of records                                                      *)

ShadowSet == [enabled : BOOLEAN, startedAt : Int, records : Seq(RecordSet)]

LedgerAt(sh, t) ==
  /\ sh \in ShadowSet
  /\ Len(sh.records) <= MaxRecords
  /\ \A i, j \in DOMAIN sh.records : sh.records[i].id = sh.records[j].id => i = j
  /\ \A i \in DOMAIN sh.records : RecordAt(sh.records[i], t)
  /\ sh.enabled => sh.startedAt \in 0..t

\* What RecordsOnlyAdvance says of the records before and after.
Went(a, b, t) ==
  \E gone \in 0..Len(a) :
    /\ gone > 0 => Len(b) = MaxRecords
    /\ Len(b) >= Len(a) - gone
    /\ \A i \in (gone + 1)..Len(a) : Advanced(a[i], b[i - gone])
    /\ \A j \in (Len(a) - gone + 1)..Len(b) : b[j].registered = t /\ b[j].status = "waiting"

LEMMA RecordsSeq ==
  ASSUME NEW sh \in ShadowSet
  PROVE  /\ sh.records \in Seq(RecordSet) /\ Len(sh.records) \in Nat
         /\ DOMAIN sh.records = 1..Len(sh.records)
         /\ \A i \in 1..Len(sh.records) : sh.records[i] \in RecordSet
BY LenProperties, ElementOfSeq DEF ShadowSet

LEMMA LedgerLater ==
  ASSUME NEW sh, NEW t \in Int, NEW u \in Int, t <= u, LedgerAt(sh, t) PROVE LedgerAt(sh, u)
BY RecordLater DEF LedgerAt

\* The newest of a sequence are its end.
LEMMA NewestIs ==
  ASSUME NEW S, NEW s \in Seq(S)
  PROVE  /\ Newest(s) \in Seq(S) /\ Len(Newest(s)) <= MaxRecords
         /\ Len(s) <= MaxRecords => Newest(s) = s
         /\ Len(s) > MaxRecords =>
              /\ Len(Newest(s)) = MaxRecords
              /\ \A i \in 1..MaxRecords : Newest(s)[i] = s[i + (Len(s) - MaxRecords)]
<1> DEFINE n == Len(s)
           m == Max({1, n - MaxRecords + 1})
<1>0. n \in Nat /\ MaxRecords \in Nat \ {0} /\ DOMAIN s = 1..n
  BY LenProperties, ShadowEngineAssumption
<1>1. m \in {1, n - MaxRecords + 1} /\ m >= 1 /\ m >= n - MaxRecords + 1 /\ m \in Int
  <2>1. n - MaxRecords + 1 \in Int
    BY <1>0
  <2> DEFINE k == n - MaxRecords + 1
  <2> HIDE DEF k
  <2>2. k \in Int
    BY <2>1 DEF k
  <2>3. \E x \in {1, k} : \A y \in {1, k} : x >= y
    BY <2>2
  <2>4. Max({1, k}) \in {1, k} /\ \A y \in {1, k} : Max({1, k}) >= y
    BY <2>3, Zenon DEF Max
  <2> QED
    BY <2>2, <2>4 DEF k
<1>2. Newest(s) = SubSeq(s, m, n)
  BY DEF Newest
<1> HIDE DEF m
<1>3. \A i \in m..n : s[i] \in S
  BY <1>0, <1>1, ElementOfSeq
<1>4. /\ SubSeq(s, m, n) \in Seq(S)
      /\ Len(SubSeq(s, m, n)) = IF m <= n THEN n - m + 1 ELSE 0
      /\ \A i \in 1..(n - m + 1) : SubSeq(s, m, n)[i] = s[m + i - 1]
  BY <1>0, <1>1, <1>3, SubSeqProperties
<1>5. CASE n <= MaxRecords
  <2>1. m = 1
    BY <1>0, <1>1, <1>5
  <2>2. Newest(s) = s
    BY <1>2, <2>1, SubSeqFull
  <2>3. Newest(s) \in Seq(S) /\ Len(Newest(s)) <= MaxRecords
    BY <1>5, <2>2
  <2>4. ~(Len(s) > MaxRecords)
    BY <1>0, <1>5
  <2> QED
    BY <2>2, <2>3, <2>4
<1>6. CASE n > MaxRecords
  <2>1. m = n - MaxRecords + 1
    BY <1>0, <1>1, <1>6
  <2>2. Len(Newest(s)) = MaxRecords
    BY <1>0, <1>2, <1>4, <1>6, <2>1
  <2>3. \A i \in 1..MaxRecords : Newest(s)[i] = s[i + (Len(s) - MaxRecords)]
    <3> TAKE i \in 1..MaxRecords
    <3>1. i \in 1..(n - m + 1) /\ m + i - 1 = i + (n - MaxRecords)
      BY <1>0, <2>1
    <3> QED
      BY <1>2, <1>4, <3>1
  <2>4. Newest(s) \in Seq(S) /\ Len(Newest(s)) <= MaxRecords
    BY <1>0, <1>2, <1>4, <2>2
  <2>5. ~(Len(s) <= MaxRecords)
    BY <1>0, <1>6
  <2> QED
    BY <2>2, <2>3, <2>4, <2>5
<1> QED
  BY <1>0, <1>5, <1>6

\* Reading a ledger again changes none that is within its limit.
LEMMA NormalLedger ==
  ASSUME NEW sh, NEW t, LedgerAt(sh, t) PROVE normalizeShadowState(sh) = sh
<1>1. sh.records \in Seq(RecordSet) /\ Len(sh.records) <= MaxRecords
  BY DEF LedgerAt, ShadowSet
<1>2. Newest(sh.records) = sh.records
  BY <1>1, NewestIs
<1> QED
  BY <1>2 DEF normalizeShadowState, LedgerAt, ShadowSet

LEMMA WentSelf ==
  ASSUME NEW sh, NEW t, NEW u, LedgerAt(sh, t) PROVE Went(sh.records, sh.records, u)
<1> DEFINE a == sh.records
<1>0. Len(a) \in Nat /\ DOMAIN a = 1..Len(a) /\ \A i \in 1..Len(a) : a[i] \in RecordSet
  BY RecordsSeq DEF LedgerAt
<1> HIDE DEF a
<1>1. ASSUME NEW r \in RecordSet PROVE Advanced(r, r)
  BY DEF Advanced, RecordSet
<1>2. \A i \in (0 + 1)..Len(a) : Advanced(a[i], a[i - 0])
  BY <1>0, <1>1
<1>3. 0 \in 0..Len(a) /\ Len(a) >= Len(a) - 0 /\ (Len(a) - 0 + 1)..Len(a) = {}
  BY <1>0
<1>4. Went(a, a, u)
  BY <1>2, <1>3 DEF Went
<1> QED
  BY <1>4 DEF a

\* Candidates, and what the registration of one may make of a ledger: the same one, or one
\* with a record more, the oldest one gone if there was no room.
CandidateSet == [id : Ids, level : Int, typed : BOOLEAN, confirmed : Int]

Pattern(x) == <<x.id, x.level, x.confirmed>>

\* The patterns the chart on the screen shows as confirmed.
ShownNow == {Pattern(c) : c \in Typed}

CandidatesBy(t) == {c \in CandidateSet : c.confirmed <= t /\ Pattern(c) \in ShownNow}

OneRecordMore(a, b, r) ==
  \/ /\ Len(a) < MaxRecords /\ Len(b) = Len(a) + 1
     /\ \A i \in 1..Len(a) : b[i] = a[i]
     /\ b[Len(b)] = r
  \/ /\ Len(a) = MaxRecords /\ Len(b) = MaxRecords
     /\ \A i \in 1..(MaxRecords - 1) : b[i] = a[i + 1]
     /\ b[MaxRecords] = r

LEMMA NewRecord ==
  ASSUME NEW t \in Nat, NEW c \in CandidatesBy(t),
         NEW label \in Labels \cup {"none"}
  PROVE  /\ RecordAt(Record(c, label, t), t)
         /\ Pattern(Record(c, label, t)) = Pattern(c)
         /\ Record(c, label, t).id = c.id /\ Record(c, label, t).confirmed = c.confirmed
         /\ Record(c, label, t).registered = t /\ Record(c, label, t).status = "waiting"
<1>a. c \in CandidateSet /\ c.confirmed <= t
  BY DEF CandidatesBy
<1> DEFINE r == Record(c, label, t)
<1>0. c.id \in Ids /\ c.level \in Int /\ c.confirmed \in Int /\ t \in Int /\ Never \in Int
  BY <1>a DEF CandidateSet, Never
<1>1. /\ r.id = c.id /\ r.confirmed = c.confirmed /\ r.level = c.level /\ r.registered = t
      /\ r.label = label
      /\ r.status = "waiting" /\ r.filled = {} /\ r.returned = Never /\ r.armed = FALSE
      /\ r.top = Never /\ r.stop = Never /\ r.exit = Never
  BY DEF Record
<1>2. r \in RecordSet
  BY <1>0 DEF Record, RecordSet, Statuses
<1> HIDE DEF r
<1>3. RecordAt(r, t) /\ Pattern(r) = Pattern(c)
  BY <1>a, <1>1, <1>2 DEF RecordAt, Followed, Pattern
<1> QED
  BY <1>1, <1>3 DEF r

LEMMA AppendedRecord ==
  ASSUME NEW a \in Seq(RecordSet), Len(a) <= MaxRecords, NEW r \in RecordSet
  PROVE  Newest(Append(a, r)) \in Seq(RecordSet) /\ OneRecordMore(a, Newest(Append(a, r)), r)
<1> DEFINE s == Append(a, r)
<1>0. Len(a) \in Nat /\ MaxRecords \in Nat \ {0}
  BY LenProperties, ShadowEngineAssumption
<1>1. /\ s \in Seq(RecordSet) /\ Len(s) = Len(a) + 1 /\ s[Len(a) + 1] = r
      /\ \A i \in 1..Len(a) : s[i] = a[i]
  BY AppendProperties
<1> HIDE DEF s
<1>2. /\ Newest(s) \in Seq(RecordSet)
      /\ Len(s) <= MaxRecords => Newest(s) = s
      /\ Len(s) > MaxRecords =>
           /\ Len(Newest(s)) = MaxRecords
           /\ \A i \in 1..MaxRecords : Newest(s)[i] = s[i + (Len(s) - MaxRecords)]
  BY <1>1, NewestIs
<1>3. CASE Len(a) < MaxRecords
  <2>1. Newest(s) = s
    BY <1>0, <1>1, <1>2, <1>3
  <2> QED
    BY <1>1, <1>2, <1>3, <2>1 DEF OneRecordMore, s
<1>4. CASE Len(a) = MaxRecords
  <2> DEFINE b == Newest(s)
  <2>1. Len(s) > MaxRecords /\ Len(s) - MaxRecords = 1
    BY <1>0, <1>1, <1>4
  <2>2. Len(b) = MaxRecords /\ \A i \in 1..MaxRecords : b[i] = s[i + 1]
    BY <1>2, <2>1
  <2> HIDE DEF b
  <2>3. \A i \in 1..(MaxRecords - 1) : b[i] = a[i + 1]
    <3> TAKE i \in 1..(MaxRecords - 1)
    <3>1. i \in 1..MaxRecords /\ i + 1 \in 1..Len(a)
      BY <1>0, <1>4
    <3>2. b[i] = s[i + 1] /\ s[i + 1] = a[i + 1]
      BY <1>1, <2>2, <3>1
    <3> QED
      BY <3>2
  <2>4. b[MaxRecords] = r
    <3>1. MaxRecords \in 1..MaxRecords
      BY <1>0
    <3> QED
      BY <1>1, <1>4, <2>2, <3>1
  <2>5. OneRecordMore(a, b, r)
    BY <1>4, <2>2, <2>3, <2>4 DEF OneRecordMore
  <2> QED
    BY <1>2, <2>5 DEF b, s
<1> QED
  BY <1>0, <1>3, <1>4

LEMMA NotLast ==
  ASSUME NEW n \in Nat, NEW i \in 1..n, i # n PROVE i \in 1..(n - 1) /\ i + 1 \in 1..n
OBVIOUS

\* A ledger with a record more is a ledger.
LEMMA MoreIsLedger ==
  ASSUME NEW sh, NEW t \in Nat, LedgerAt(sh, t), NEW b \in Seq(RecordSet),
         NEW r, RecordAt(r, t), ~Known(sh, r.id), OneRecordMore(sh.records, b, r)
  PROVE  LedgerAt([sh EXCEPT !.records = b], t)
<1> DEFINE a == sh.records
<1>0. /\ Len(a) \in Nat /\ DOMAIN a = 1..Len(a) /\ Len(a) <= MaxRecords /\ sh \in ShadowSet
      /\ MaxRecords \in Nat \ {0} /\ Len(b) \in Nat /\ DOMAIN b = 1..Len(b)
      /\ \A i \in 1..Len(a) : RecordAt(a[i], t) /\ a[i].id # r.id
      /\ \A i, j \in 1..Len(a) : a[i].id = a[j].id => i = j
      /\ sh.enabled => sh.startedAt \in 0..t
      /\ OneRecordMore(a, b, r)
  BY RecordsSeq, LenProperties, ShadowEngineAssumption, SMTT(60) DEF LedgerAt, Known
<1> HIDE DEF a
<1>1. /\ Len(b) <= MaxRecords
      /\ \E k \in {0, 1} :
           /\ \A i \in 1..(Len(b) - 1) : i + k \in 1..Len(a) /\ b[i] = a[i + k]
           /\ Len(b) >= 1 /\ b[Len(b)] = r
  <2>1. CASE Len(a) < MaxRecords /\ Len(b) = Len(a) + 1 /\ (\A i \in 1..Len(a) : b[i] = a[i])
             /\ b[Len(b)] = r
    <3>1. \A i \in 1..(Len(b) - 1) : i + 0 \in 1..Len(a) /\ b[i] = a[i + 0]
      BY <1>0, <2>1
    <3> QED
      BY <1>0, <2>1, <3>1
  <2>2. CASE Len(a) = MaxRecords /\ Len(b) = MaxRecords
             /\ (\A i \in 1..(MaxRecords - 1) : b[i] = a[i + 1]) /\ b[MaxRecords] = r
    <3>1. \A i \in 1..(Len(b) - 1) : i + 1 \in 1..Len(a) /\ b[i] = a[i + 1]
      BY <1>0, <2>2
    <3> QED
      BY <1>0, <2>2, <3>1
  <2> QED
    BY <1>0, <2>1, <2>2 DEF OneRecordMore
<1>2. PICK k \in {0, 1} :
        /\ \A i \in 1..(Len(b) - 1) : i + k \in 1..Len(a) /\ b[i] = a[i + k]
        /\ Len(b) >= 1 /\ b[Len(b)] = r
  BY <1>1
<1>3. ASSUME NEW i \in 1..Len(b)
      PROVE  RecordAt(b[i], t) /\ (i # Len(b) => b[i].id # r.id)
  <2>1. CASE i = Len(b)
    BY <1>2, <2>1
  <2>2. CASE i # Len(b)
    <3>1. i \in 1..(Len(b) - 1)
      BY <1>0, <2>2, NotLast
    <3>2. i + k \in 1..Len(a) /\ b[i] = a[i + k]
      BY <1>2, <3>1
    <3> QED
      BY <1>0, <3>2, SMTT(60)
  <2> QED
    BY <2>1, <2>2
<1>4. ASSUME NEW i \in 1..Len(b), NEW j \in 1..Len(b), b[i].id = b[j].id PROVE i = j
  <2>1. CASE i = Len(b) \/ j = Len(b)
    BY <1>2, <1>3, <1>4, <2>1
  <2>2. CASE i # Len(b) /\ j # Len(b)
    <3>1. i \in 1..(Len(b) - 1) /\ j \in 1..(Len(b) - 1)
      BY <1>0, <2>2, NotLast
    <3>2. i + k \in 1..Len(a) /\ b[i] = a[i + k] /\ j + k \in 1..Len(a) /\ b[j] = a[j + k]
      BY <1>2, <3>1
    <3>3. i + k = j + k
      BY <1>0, <1>4, <3>2
    <3> QED
      BY <3>3, SMTT(60)
  <2> QED
    BY <2>1, <2>2
<1> DEFINE q == [sh EXCEPT !.records = b]
<1>5. q \in ShadowSet /\ q.records = b /\ q.enabled = sh.enabled /\ q.startedAt = sh.startedAt
  BY <1>0, SMTT(60) DEF ShadowSet
<1> HIDE DEF q
<1>6. LedgerAt(q, t)
  BY <1>0, <1>1, <1>3, <1>4, <1>5 DEF LedgerAt
<1> QED
  BY <1>6 DEF q

LEMMA WentMore ==
  ASSUME NEW a \in Seq(RecordSet), NEW b \in Seq(RecordSet), NEW d \in Seq(RecordSet),
         NEW r, NEW t, Len(a) <= MaxRecords, Went(a, b, t), OneRecordMore(b, d, r),
         r.registered = t, r.status = "waiting"
  PROVE  Went(a, d, t)
<1>0. /\ Len(a) \in Nat /\ Len(b) \in Nat /\ Len(d) \in Nat /\ MaxRecords \in Nat \ {0}
  BY LenProperties, ShadowEngineAssumption
<1>1. PICK gone \in 0..Len(a) :
        /\ gone > 0 => Len(b) = MaxRecords
        /\ Len(b) >= Len(a) - gone
        /\ \A i \in (gone + 1)..Len(a) : Advanced(a[i], b[i - gone])
        /\ \A j \in (Len(a) - gone + 1)..Len(b) : b[j].registered = t /\ b[j].status = "waiting"
  BY DEF Went
<1>2. CASE Len(b) < MaxRecords /\ Len(d) = Len(b) + 1 /\ (\A i \in 1..Len(b) : d[i] = b[i])
           /\ d[Len(d)] = r
  <2>1. gone = 0
    BY <1>0, <1>1, <1>2
  <2>2. ASSUME NEW i \in (0 + 1)..Len(a) PROVE Advanced(a[i], d[i - 0])
    <3>1. i \in 1..Len(b) /\ i - gone = i /\ i - 0 = i /\ i \in (gone + 1)..Len(a)
      BY <1>0, <1>1, <2>1
    <3>2. Advanced(a[i], b[i]) /\ d[i] = b[i]
      BY <1>1, <1>2, <3>1
    <3> QED
      BY <3>1, <3>2
  <2>3. ASSUME NEW j \in (Len(a) - 0 + 1)..Len(d)
        PROVE  d[j].registered = t /\ d[j].status = "waiting"
    <3>1. CASE j = Len(d)
      BY <1>2, <3>1
    <3>2. CASE j # Len(d)
      <4>1. j \in (Len(a) - gone + 1)..Len(b) /\ j \in 1..Len(b)
        BY <1>0, <1>2, <2>1, <3>2
      <4> QED
        BY <1>1, <1>2, <4>1
    <3> QED
      BY <3>1, <3>2
  <2>4. Len(d) >= Len(a) - 0 /\ 0 \in 0..Len(a)
    BY <1>0, <1>1, <1>2, <2>1
  <2> QED
    BY <2>2, <2>3, <2>4 DEF Went
<1>3. CASE Len(b) = MaxRecords /\ Len(d) = MaxRecords
           /\ (\A i \in 1..(MaxRecords - 1) : d[i] = b[i + 1]) /\ d[MaxRecords] = r
  <2> DEFINE g == IF gone < Len(a) THEN gone + 1 ELSE gone
  <2>1. /\ g \in 0..Len(a) /\ Len(d) >= Len(a) - g
        /\ g = gone + 1 \/ (g = gone /\ gone = Len(a))
    BY <1>0, <1>1, <1>3
  <2> HIDE DEF g
  <2>2. ASSUME NEW i \in (g + 1)..Len(a) PROVE Advanced(a[i], d[i - g])
    <3>1. g = gone + 1
      BY <1>0, <2>1
    <3>2. i \in (gone + 1)..Len(a) /\ i - g \in 1..(MaxRecords - 1) /\ (i - g) + 1 = i - gone
      BY <1>0, <1>1, <1>3, <3>1
    <3>3. Advanced(a[i], b[i - gone]) /\ d[i - g] = b[(i - g) + 1]
      BY <1>1, <1>3, <3>2
    <3> QED
      BY <3>2, <3>3
  <2>3. ASSUME NEW j \in (Len(a) - g + 1)..Len(d)
        PROVE  d[j].registered = t /\ d[j].status = "waiting"
    <3>1. CASE j = MaxRecords
      BY <1>3, <3>1
    <3>2. CASE j # MaxRecords
      <4>1. /\ j \in 1..(MaxRecords - 1)
            /\ j + 1 \in (Len(a) - gone + 1)..Len(b)
        BY <1>0, <1>1, <1>3, <2>1, <3>2
      <4>2. d[j] = b[j + 1]
        BY <1>3, <4>1
      <4>3. b[j + 1].registered = t /\ b[j + 1].status = "waiting"
        BY <1>1, <4>1
      <4> QED
        BY <4>2, <4>3
    <3> QED
      BY <3>1, <3>2
  <2> QED
    BY <1>3, <2>1, <2>2, <2>3 DEF Went
<1> QED
  BY <1>2, <1>3 DEF OneRecordMore

\* What a scan may make of a ledger, whatever it finds.
ScannedFrom(sh, t) ==
  {x \in ShadowSet :
     /\ LedgerAt(x, t) /\ x.enabled = sh.enabled /\ x.startedAt = sh.startedAt
     /\ Went(sh.records, x.records, t)
     /\ \A i \in DOMAIN x.records :
          \/ Known(sh, x.records[i].id)
          \/ /\ sh.enabled /\ x.records[i].confirmed >= sh.startedAt
             /\ Pattern(x.records[i]) \in ShownNow}

LEMMA ScannedStart ==
  ASSUME NEW sh, NEW t \in Nat, LedgerAt(sh, t) PROVE sh \in ScannedFrom(sh, t)
BY WentSelf DEF ScannedFrom, LedgerAt, Known

LEMMA ScannedMore ==
  ASSUME NEW sh, NEW t \in Nat, LedgerAt(sh, t), NEW x \in ScannedFrom(sh, t),
         NEW c \in CandidatesBy(t), NEW label \in Labels \cup {"none"}
  PROVE  registerShadowCandidate(x, c, label, t) \in ScannedFrom(sh, t)
<1> DEFINE r == Record(c, label, t)
           b == Newest(Append(x.records, r))
           q == [x EXCEPT !.records = b]
<1>0. /\ x \in ShadowSet /\ LedgerAt(x, t) /\ x.enabled = sh.enabled /\ x.startedAt = sh.startedAt
      /\ Went(sh.records, x.records, t)
      /\ \A i \in DOMAIN x.records :
           \/ Known(sh, x.records[i].id)
           \/ /\ sh.enabled /\ x.records[i].confirmed >= sh.startedAt
              /\ Pattern(x.records[i]) \in ShownNow
  BY DEF ScannedFrom
<1>1. CASE ~Registers(x, c)
  BY <1>1 DEF registerShadowCandidate
<1>2. CASE Registers(x, c)
  <2>1. registerShadowCandidate(x, c, label, t) = q
    BY <1>2 DEF registerShadowCandidate
  <2>2. /\ RecordAt(r, t) /\ r.id = c.id /\ r.confirmed = c.confirmed
        /\ r.registered = t /\ r.status = "waiting" /\ Pattern(r) \in ShownNow
    BY NewRecord DEF CandidatesBy
  <2>3. r \in RecordSet
    BY <2>2 DEF RecordAt
  <2> HIDE DEF r
  <2>4. /\ x.records \in Seq(RecordSet) /\ Len(x.records) <= MaxRecords
        /\ sh.records \in Seq(RecordSet) /\ Len(sh.records) <= MaxRecords
    BY <1>0 DEF LedgerAt, ShadowSet
  <2>5. b \in Seq(RecordSet) /\ OneRecordMore(x.records, b, r)
    BY <2>3, <2>4, AppendedRecord
  <2> HIDE DEF b
  <2>6. ~Known(x, r.id) /\ sh.enabled /\ r.confirmed >= sh.startedAt
    BY <1>0, <1>2, <2>2 DEF Registers
  <2>7. LedgerAt(q, t)
    BY <1>0, <2>2, <2>5, <2>6, MoreIsLedger
  <2>8. Went(sh.records, b, t)
    BY <1>0, <2>2, <2>4, <2>5, WentMore
  <2>9. q \in ShadowSet /\ q.records = b /\ q.enabled = x.enabled /\ q.startedAt = x.startedAt
    BY <1>0, <2>5 DEF ShadowSet
  <2> HIDE DEF q
  <2>10. /\ DOMAIN b = 1..Len(b) /\ DOMAIN x.records = 1..Len(x.records)
         /\ Len(b) \in Nat /\ Len(x.records) \in Nat /\ MaxRecords \in Nat \ {0}
    BY <2>4, <2>5, LenProperties, ShadowEngineAssumption
  <2>11. ASSUME NEW i \in DOMAIN b
         PROVE  \/ Known(sh, b[i].id)
                \/ /\ sh.enabled /\ b[i].confirmed >= sh.startedAt
                   /\ Pattern(b[i]) \in ShownNow
    <3>1. b[i] = r \/ \E j \in DOMAIN x.records : b[i] = x.records[j]
      <4>1. i \in 1..Len(b)
        BY <2>10
      <4>2. CASE i = Len(b)
        BY <2>5, <4>2 DEF OneRecordMore
      <4>3. CASE i # Len(b) /\ Len(x.records) < MaxRecords
        <5>0. i \in 1..(Len(b) - 1)
          BY <2>10, <4>1, <4>3, NotLast
        <5>a. Len(x.records) # MaxRecords
          BY <2>10, <4>3
        <5>1. Len(b) = Len(x.records) + 1 /\ \A k \in 1..Len(x.records) : b[k] = x.records[k]
          BY <2>5, <5>a, Zenon DEF OneRecordMore
        <5>2. i \in 1..Len(x.records)
          BY <2>10, <5>0, <5>1
        <5>3. b[i] = x.records[i]
          BY <5>1, <5>2
        <5> QED
          BY <2>10, <5>2, <5>3
      <4>4. CASE i # Len(b) /\ ~(Len(x.records) < MaxRecords)
        <5>0. i \in 1..(Len(b) - 1) /\ i + 1 \in 1..Len(b)
          BY <2>10, <4>1, <4>4, NotLast, SMTT(60)
        <5>1. /\ Len(b) = MaxRecords /\ Len(x.records) = MaxRecords
              /\ \A k \in 1..(MaxRecords - 1) : b[k] = x.records[k + 1]
          BY <2>5, <2>10, <4>4 DEF OneRecordMore
        <5>2. i + 1 \in 1..Len(x.records) /\ b[i] = x.records[i + 1]
          BY <5>0, <5>1
        <5> QED
          BY <2>10, <5>2
      <4> QED
        BY <4>2, <4>3, <4>4
    <3> QED
      BY <1>0, <2>2, <2>6, <3>1
  <2>12. q \in ScannedFrom(sh, t)
    BY <1>0, <2>7, <2>8, <2>9, <2>11 DEF ScannedFrom
  <2> QED
    BY <2>1, <2>12
<1> QED
  BY <1>1, <1>2

------------------------------------------------------------------------------
(* Charts                                                                   *)

LEMMA DivisionRest ==
  ASSUME NEW a \in Nat, NEW b \in Nat \ {0} PROVE (a \div b) \in Nat /\ (a \div b) * b <= a
OBVIOUS

LEMMA ProductGrows ==
  ASSUME NEW x \in Int, NEW y \in Int, NEW b \in Nat, x <= y
  PROVE  x * b \in Int /\ y * b \in Int /\ x * b <= y * b
OBVIOUS

LEMMA TapePrice ==
  ASSUME NEW mk \in Tapes, NEW t \in Int, -Past <= t, t <= Horizon PROVE PriceAt(mk, t) \in Int
<1>1. t + Past + 1 \in 1..(Past + Horizon + 1) /\ mk \in [1..(Past + Horizon + 1) -> Int]
  BY RadarAssumption, WorkspaceAssumption
<1> QED
  BY <1>1 DEF PriceAt

LEMMA LeastOfTwo ==
  ASSUME NEW x \in Int, NEW y \in Int
  PROVE  Min({x, y}) \in Int /\ Min({x, y}) = IF x <= y THEN x ELSE y
<1>1. \E a \in {x, y} : \A b \in {x, y} : a =< b
  OBVIOUS
<1>2. Min({x, y}) \in {x, y} /\ \A b \in {x, y} : Min({x, y}) =< b
  BY <1>1, Zenon DEF Min
<1> QED
  BY <1>2

\* The n-th number of a set is one of its numbers.
LEMMA NthIs ==
  ASSUME NEW S \in SUBSET Int, IsFiniteSet(S), NEW n \in 1..Cardinality(S)
  PROVE  nth(S, n) \in S /\ Cardinality({j \in S : j <= nth(S, n)}) = n
<1> DEFINE upTo(k) == {j \in S : j <= k}
           T == {k \in S : Cardinality(upTo(k)) >= n}
<1>1. \A k \in S : IsFiniteSet(upTo(k)) /\ Cardinality(upTo(k)) \in Nat
  BY FS_Subset, FS_CardinalityType
<1>2. S # {} /\ Cardinality(S) \in Nat /\ n \in Nat
  BY FS_EmptySet, FS_CardinalityType
<1>3. Max(S) \in S /\ \A k \in S : Max(S) >= k
  BY <1>2, MinMaxOfFinite
<1>4. upTo(Max(S)) = S
  BY <1>3
<1>5. Max(S) \in T
  BY <1>2, <1>3, <1>4
<1>6. T \in SUBSET Int /\ IsFiniteSet(T) /\ T # {}
  BY <1>5, FS_Subset
<1> DEFINE m == Min(T)
<1>7. m \in T /\ \A k \in T : m =< k
  BY <1>6, MinMaxOfFinite
<1>8. m \in S /\ m \in Int /\ Cardinality(upTo(m)) >= n
  BY <1>7
<1> HIDE DEF m
<1>9. Cardinality(upTo(m)) = n
  <2> DEFINE L == {j \in S : j < m}
  <2>1. upTo(m) = L \cup {m} /\ m \notin L
    <3>1. \A j \in S : j <= m <=> j < m \/ j = m
      BY <1>8
    <3>2. m \notin L
      BY <1>8
    <3> QED
      BY <1>8, <3>1, <3>2
  <2>2. IsFiniteSet(L) /\ L \in SUBSET Int
    BY FS_Subset
  <2>3. Cardinality(L) \in Nat /\ Cardinality(upTo(m)) = Cardinality(L) + 1
    BY <2>1, <2>2, FS_AddElement, FS_CardinalityType
  <2>4. Cardinality(L) < n
    <3>1. CASE L = {}
      BY <1>2, <3>1, FS_EmptySet
    <3>2. CASE L # {}
      <4> DEFINE p == Max(L)
      <4>1. p \in L /\ \A k \in L : p >= k
        BY <2>2, <3>2, MinMaxOfFinite
      <4> HIDE DEF p
      <4>2. p \in S /\ p \in Int /\ p < m
        BY <4>1
      <4>3. upTo(p) = L
        <5>1. \A j \in S : j <= p <=> j < m
          BY <1>8, <4>1, <4>2
        <5> QED
          BY <5>1
      <4>4. p \notin T
        BY <1>7, <1>8, <4>2
      <4>5. ~(Cardinality(upTo(p)) >= n)
        BY <4>2, <4>4
      <4> QED
        BY <1>2, <2>3, <4>3, <4>5
    <3> QED
      BY <3>1, <3>2
  <2> QED
    BY <1>2, <1>8, <2>3, <2>4
<1>10. \E k \in S : Cardinality({j \in S : j <= k}) = n
  BY <1>8, <1>9
<1> QED
  BY <1>10, Zenon DEF nth

\* Nothing is missing among the first ones.
LEMMA NthOfAll ==
  ASSUME NEW p \in Nat, NEW n \in 1..p PROVE nth(1..p, n) = n
<1>1. IsFiniteSet(1..p) /\ Cardinality(1..p) = p
  BY FS_Interval
<1> DEFINE k == nth(1..p, n)
<1>0. 1..p \in SUBSET Int /\ n \in 1..Cardinality(1..p)
  BY <1>1
<1>2. k \in 1..p /\ Cardinality({j \in 1..p : j <= k}) = n
  BY <1>0, <1>1, NthIs, Zenon
<1> HIDE DEF k
<1>3. {j \in 1..p : j <= k} = 1..k
  BY <1>2
<1>4. Cardinality(1..k) = k
  BY <1>2, FS_Interval
<1> QED
  BY <1>2, <1>3, <1>4 DEF k

\* A candle of times within the tape.
LEMMA CandleIs ==
  ASSUME NEW mk \in Tapes, NEW len \in Nat \ {0}, NEW open \in Int, NEW t \in Int,
         -Past <= open, open <= t, t <= Horizon
  PROVE  Candle(mk, len, open, t) \in [time : {open}, high : Int, low : Int, close : Int]
<1> DEFINE end    == Min({t, open + len - 1})
           ticks  == open..end
           prices == {PriceAt(mk, k) : k \in ticks}
<1>1. end \in Int /\ open <= end /\ end <= t
  BY LeastOfTwo
<1> HIDE DEF end
<1>2. ticks \subseteq Int /\ IsFiniteSet(ticks) /\ ticks # {}
  <2>1. open \in ticks
    BY <1>1
  <2>2. IsFiniteSet(ticks)
    BY <1>1, FS_Interval
  <2> QED
    BY <2>1, <2>2
<1>3. \A k \in ticks : -Past <= k /\ k <= Horizon
  BY <1>1, RadarAssumption, WorkspaceAssumption
<1>4. \A k \in ticks : PriceAt(mk, k) \in Int
  BY <1>2, <1>3, TapePrice
<1> HIDE DEF ticks
<1>5. prices \in SUBSET Int /\ IsFiniteSet(prices) /\ prices # {}
  <2> DEFINE f == [k \in ticks |-> PriceAt(mk, k)]
  <2>1. f = [k \in ticks |-> f[k]]
    OBVIOUS
  <2>2. prices = {f[k] : k \in ticks}
    OBVIOUS
  <2> HIDE DEF f
  <2>3. IsFiniteSet(prices)
    BY <1>2, <2>1, <2>2, FiniteImage
  <2> QED
    BY <1>2, <1>4, <2>3
<1> HIDE DEF prices
<1>6. Max(prices) \in Int /\ Min(prices) \in Int
  BY <1>5, MinMaxOfFinite
<1>7. Max(ticks) \in ticks
  BY <1>2, MinMaxOfFinite
<1>8. PriceAt(mk, Max(ticks)) \in Int
  BY <1>4, <1>7
<1>9. Candle(mk, len, open, t)
        = [time |-> open, high |-> Max(prices), low |-> Min(prices), close |-> PriceAt(mk, Max(ticks))]
  BY DEF Candle, prices, ticks, end
<1> QED
  BY <1>6, <1>8, <1>9

CandleSet == [time : Int, high : Int, low : Int, close : Int]

\* The candles of which a chart got an update, and how many there are of them at most.
Shown(len, t, lost) == {k \in 1..((t + Past) \div len + 1) : Updates(len, k, t, lost) # {}}

LEMMA UpdatesAre ==
  ASSUME NEW len \in Nat \ {0}, NEW t \in Int, NEW k \in Int, NEW lost, Updates(len, k, t, lost) # {}
  PROVE  /\ (k - 1) * len - Past \in Int
         /\ Max(Updates(len, k, t, lost)) \in Updates(len, k, t, lost)
         /\ Max(Updates(len, k, t, lost)) \in Int
         /\ (k - 1) * len - Past <= Max(Updates(len, k, t, lost)) /\ Max(Updates(len, k, t, lost)) <= t
<1> DEFINE o == (k - 1) * len - Past
           e == Min({t, k * len - Past - 1})
           U == Updates(len, k, t, lost)
<1>1. o \in Int /\ k * len - Past - 1 \in Int
  BY RadarAssumption
<1>2. e \in Int /\ e <= t
  BY <1>1, LeastOfTwo
<1>3. U = (o..e) \ lost
  BY DEF Updates
<1> HIDE DEF o, e, U
<1>4. U \in SUBSET (o..e) /\ IsFiniteSet(o..e) /\ U # {}
  BY <1>1, <1>2, <1>3, FS_Interval DEF U
<1>5. U \in SUBSET Int /\ IsFiniteSet(U)
  <2>1. IsFiniteSet(U)
    BY <1>4, FS_Subset, Zenon
  <2> QED
    BY <1>1, <1>2, <1>4, <2>1
<1>6. Max(U) \in U
  BY <1>4, <1>5, MinMaxOfFinite
<1>7. Max(U) \in o..e
  BY <1>4, <1>6
<1>8. Max(U) \in Int /\ o <= Max(U) /\ Max(U) <= t
  BY <1>1, <1>2, <1>7
<1> QED
  BY <1>1, <1>6, <1>8 DEF o, U

LEMMA ChartIs ==
  ASSUME NEW mk \in Tapes, NEW len \in Nat \ {0}, NEW t \in 0..Horizon, NEW lost
  PROVE  /\ Len(chartRows(mk, len, t, lost)) \in Nat
         /\ Len(chartRows(mk, len, t, lost)) = Cardinality(Shown(len, t, lost))
         /\ DOMAIN chartRows(mk, len, t, lost) = 1..Len(chartRows(mk, len, t, lost))
         /\ \A n \in 1..Len(chartRows(mk, len, t, lost)) :
              /\ chartRows(mk, len, t, lost)[n] =
                   LET k == nth(Shown(len, t, lost), n)
                   IN  Candle(mk, len, (k - 1) * len - Past, Max(Updates(len, k, t, lost)))
              /\ chartRows(mk, len, t, lost)[n].time \in -Past..t
              /\ chartRows(mk, len, t, lost)[n] \in CandleSet
<1> DEFINE rows == chartRows(mk, len, t, lost)
           S == Shown(len, t, lost)
           c == Cardinality(S)
           row(n) == LET k == nth(S, n)
                     IN  Candle(mk, len, (k - 1) * len - Past, Max(Updates(len, k, t, lost)))
           upto == (t + Past) \div len + 1
<1>0. t \in Nat /\ Past \in Nat /\ t + Past \in Nat /\ len \in Nat /\ t <= Horizon
  BY RadarAssumption, WorkspaceAssumption
<1>1. upto \in Nat
  BY <1>0, DivisionRest
<1>2. S \in SUBSET (1..upto) /\ \A k \in S : Updates(len, k, t, lost) # {}
  BY DEF Shown
<1> HIDE DEF upto
<1>3. S \in SUBSET Int /\ IsFiniteSet(S) /\ c \in Nat
  <2>1. IsFiniteSet(1..upto) /\ 1..upto \in SUBSET Int
    BY <1>1, FS_Interval
  <2>2. IsFiniteSet(S)
    BY <1>2, <2>1, FS_Subset, Zenon
  <2>3. Cardinality(S) \in Nat
    BY <2>2, FS_CardinalityType
  <2> QED
    BY <1>2, <2>1, <2>2, <2>3
<1>4. rows = [n \in 1..c |-> row(n)]
  BY DEF chartRows, Shown
<1>5. DOMAIN rows = 1..c
  BY <1>4
<1>6. ASSUME NEW n \in 1..c
      PROVE  rows[n] = row(n) /\ rows[n].time \in -Past..t /\ rows[n] \in CandleSet
  <2> DEFINE k == nth(S, n)
             o == (k - 1) * len - Past
             u == Max(Updates(len, k, t, lost))
  <2>1. k \in S
    BY <1>3, NthIs
  <2> HIDE DEF k, S
  <2>2. k \in Int /\ k >= 1 /\ Updates(len, k, t, lost) # {}
    BY <1>2, <2>1
  <2>3. o \in Int /\ u \in Int /\ o <= u /\ u <= t
    BY <2>2, UpdatesAre
  <2>4. -Past <= o
    <3>1. 0 * len <= (k - 1) * len /\ 0 * len = 0
      BY <1>0, <2>2, ProductGrows
    <3> QED
      BY <1>0, <2>2, <3>1
  <2>5. rows[n] = Candle(mk, len, o, u)
    BY <1>4 DEF k
  <2> HIDE DEF o, u
  <2>a. u <= Horizon /\ Horizon \in Int
    BY <1>0, <2>3, WorkspaceAssumption
  <2> HIDE DEF rows
  <2>6. rows[n] \in [time : {o}, high : Int, low : Int, close : Int]
    <3>1. Candle(mk, len, o, u) \in [time : {o}, high : Int, low : Int, close : Int]
      BY <1>0, <2>3, <2>4, <2>a, CandleIs
    <3> QED
      BY <2>5, <3>1, Zenon
  <2>7. rows[n].time = o /\ rows[n] \in CandleSet
    BY <2>3, <2>6 DEF CandleSet
  <2>8. o \in -Past..t
    BY <1>0, <2>3, <2>4
  <2>9. rows[n] = row(n)
    BY <1>4, Zenon
  <2> QED
    BY <2>7, <2>8, <2>9
<1> HIDE DEF c
<1>7. rows \in [1..c -> CandleSet]
  <2>1. rows = [n \in 1..c |-> rows[n]]
    BY <1>4
  <2> HIDE DEF rows
  <2> QED
    BY <1>6, <2>1
<1>8. rows \in Seq(CandleSet)
  BY <1>3, <1>7, SeqDef
<1>9. Len(rows) = c
  BY <1>3, <1>7, <1>8, LenProperties
<1> QED
  BY <1>3, <1>5, <1>6, <1>9 DEF c

\* What the scan makes of the first of the good ones.
OneMerge(g, rows, s) == IF s = {} THEN <<>> ELSE mergedWith(rows, Max(s), g[s \ {Max(s)}])

IsMerge(g, rows) == g = [s \in SUBSET Scored(rows) |-> OneMerge(g, rows, s)]

MergeOf(rows) == CHOOSE g : IsMerge(g, rows)

LEMMA ScanIsMerge == ASSUME NEW rows PROVE scanRadarCandidates(rows) = MergeOf(rows)[Scored(rows)]
BY Zenon DEF scanRadarCandidates, MapThenFoldSet, MergeOf, IsMerge, OneMerge

LEMMA MergedMore ==
  ASSUME NEW S \in SUBSET Int, NEW rows, NEW i \in S, NEW q \in Seq(S)
  PROVE  mergedWith(rows, i, q) \in Seq(S)
<1>1. Append(q, i) \in Seq(S)
  BY AppendProperties
<1>2. ASSUME q # <<>> PROVE Append(Front(q), i) \in Seq(S)
  <2>1. Len(q) \in Nat /\ Len(q) - 1 <= Len(q) /\ Len(q) - 1 \in Int
    BY LenProperties
  <2>2. Front(q) \in Seq(S)
    BY <1>2, <2>1, SubSeqProperties, EmptySeq DEF Front
  <2> QED
    BY <2>2, AppendProperties
<1> QED
  BY <1>1, <1>2, Zenon DEF mergedWith

\* Only what scored is found.
LEMMA FoundScored ==
  ASSUME NEW rows, NEW n \in Nat, DOMAIN rows = 1..n
  PROVE  ToSet(scanRadarCandidates(rows)) \subseteq Scored(rows)
<1> DEFINE D == Scored(rows)
           V == Seq(D)
           F == [p \in V \X D |-> mergedWith(rows, p[2], p[1])]
           c == [s \in SUBSET D |-> Max(s)]
<1>1. D \in SUBSET Int /\ IsFiniteSet(D)
  <2>1. D \in SUBSET (1..n)
    BY DEF Scored
  <2> QED
    BY <2>1, FS_Interval, FS_Subset
<1>2. ASSUME NEW v \in V, NEW d \in D PROVE F[<<v, d>>] = mergedWith(rows, d, v) /\ F[<<v, d>>] \in V
  BY <1>1, MergedMore
<1>3. \A s \in SUBSET D : c[s] = Max(s) /\ (s # {} => c[s] \in s)
  <2>1. ASSUME NEW s \in SUBSET D, s # {} PROVE Max(s) \in s
    <3>1. IsFiniteSet(s) /\ s \in SUBSET Int
      BY <1>1, FS_Subset
    <3> QED
      BY <2>1, <3>1, MinMaxOfFinite
  <2> QED
    BY <2>1
<1>4. <<>> \in V
  OBVIOUS
<1>5. D = Scored(rows)
  OBVIOUS
<1> HIDE DEF D, F, c, V
<1>6. \E g : IsMerge(g, rows)
  <2>1. PICK g \in [SUBSET D -> V] : IsFold(g, D, <<>>, F, c)
    BY <1>1, <1>2, <1>3, <1>4, FoldExists
  <2>2. ASSUME NEW s \in SUBSET D PROVE g[s] = OneMerge(g, rows, s)
    <3>1. g[s] = IF s = {} THEN <<>> ELSE F[<<g[s \ {c[s]}], c[s]>>]
      BY <2>1, Zenon DEF IsFold
    <3>2. CASE s = {}
      BY <3>1, <3>2 DEF OneMerge
    <3>3. CASE s # {}
      <4>1. c[s] = Max(s) /\ c[s] \in D /\ g[s \ {c[s]}] \in V
        BY <1>3, <2>1, <3>3
      <4> QED
        BY <1>2, <3>1, <3>3, <4>1 DEF OneMerge
    <3> QED
      BY <3>2, <3>3
  <2>3. g = [s \in SUBSET D |-> OneMerge(g, rows, s)]
    BY <2>1, <2>2
  <2> QED
    BY <1>5, <2>3, Zenon DEF IsMerge
<1> DEFINE g == MergeOf(rows)
<1>7. IsMerge(g, rows)
  BY <1>6 DEF MergeOf
<1>8. g[D] = scanRadarCandidates(rows)
  BY <1>5, ScanIsMerge
<1> HIDE DEF g
<1>9. \A s \in SUBSET D : g[s] = OneMerge(g, rows, s)
  BY <1>5, <1>7, Zenon DEF IsMerge
<1>10. ASSUME NEW s \in SUBSET D, s # {} => g[s \ {c[s]}] \in V PROVE g[s] \in V
  <2>1. CASE s = {}
    BY <1>4, <1>9, <2>1 DEF OneMerge
  <2>2. CASE s # {}
    <3>1. c[s] = Max(s) /\ c[s] \in D /\ g[s \ {c[s]}] \in V
      BY <1>3, <1>10, <2>2
    <3>2. mergedWith(rows, c[s], g[s \ {c[s]}]) \in V
      BY <1>2, <3>1
    <3>3. g[s] = mergedWith(rows, Max(s), g[s \ {Max(s)}])
      BY <1>9, <2>2 DEF OneMerge
    <3> QED
      BY <3>1, <3>2, <3>3
  <2> QED
    BY <2>1, <2>2
<1>11. StaysIn(g, D, V, c)
  BY <1>3, <1>10 DEF StaysIn
<1>12. g[D] \in V
  BY <1>1, <1>11, FoldIn
<1>13. \A q \in Seq(D) : \A k \in DOMAIN q : q[k] \in D
  <2> TAKE q \in Seq(D)
  <2>1. DOMAIN q = 1..Len(q) /\ q \in [1..Len(q) -> D]
    BY LenProperties
  <2> QED
    BY <2>1
<1> QED
  BY <1>5, <1>8, <1>12, <1>13 DEF ToSet, V

\* What the Radar shows: finitely many candidates, and those with a type are confirmed by now.
LEMMA FoundIs ==
  ASSUME NEW mk \in Tapes, NEW i \in Intervals, NEW lost \in Losses, NEW t \in 0..Horizon
  PROVE  /\ IsFiniteSet(Found[mk][i][lost][t])
         /\ \A d \in Found[mk][i][lost][t] :
              d \in CandidateSet /\ d.id \in -Past..Horizon /\ (d.typed => d.confirmed <= t)
<1> DEFINE len  == Length[i]
           rows == chartRows(mk, len, t, lost)
           S    == ToSet(scanRadarCandidates(rows))
           f    == [n \in S |-> [id |-> rows[n].time, level |-> rows[n].low,
                                 typed |-> Confirmed(rows, n, len, t),
                                 confirmed |-> IF Confirmed(rows, n, len, t)
                                               THEN ConfirmationAt(rows, n, len) ELSE -Past - 1]]
<1>1. len \in Nat \ {0} /\ t \in Nat /\ t <= Horizon
  BY WorkspaceAssumption
<1>2. Found[mk][i][lost][t] = {f[n] : n \in S}
  <2>1. Found[mk][i][lost][t] = decorateRadarCandidates(rows, len, t)
    BY Zenon DEF Found
  <2> QED
    BY <2>1 DEF decorateRadarCandidates
<1> HIDE DEF len
<1>3. /\ Len(rows) \in Nat /\ DOMAIN rows = 1..Len(rows)
      /\ \A k \in 1..Len(rows) : rows[k].time \in -Past..t /\ rows[k] \in CandleSet
  BY <1>1, ChartIs, Zenon
<1> HIDE DEF rows
<1>4. S \subseteq DOMAIN rows
  BY <1>3, FoundScored DEF Scored
<1>5. IsFiniteSet(S)
  <2>1. IsFiniteSet(1..Len(rows))
    BY <1>3, FS_Interval
  <2> QED
    BY <1>3, <1>4, <2>1, FS_Subset
<1> HIDE DEF S
<1>6. IsFiniteSet({f[n] : n \in S})
  <2>1. f = [n \in S |-> f[n]]
    OBVIOUS
  <2> HIDE DEF f
  <2> QED
    BY <1>5, <2>1, FiniteImage
<1>7. ASSUME NEW n \in S
      PROVE  /\ f[n].id = rows[n].time /\ f[n].id \in -Past..Horizon
             /\ f[n].level \in Int /\ f[n].confirmed \in Int
             /\ f[n].typed \in BOOLEAN /\ (f[n].typed => f[n].confirmed <= t)
             /\ f[n] = [id |-> f[n].id, level |-> f[n].level, typed |-> f[n].typed,
                        confirmed |-> f[n].confirmed]
  <2>1. n \in 1..Len(rows)
    BY <1>3, <1>4
  <2>2. rows[n].low \in Int /\ rows[n].time \in -Past..Horizon
    <3>1. rows[n].time \in -Past..t /\ rows[n] \in CandleSet
      BY <1>3, <2>1
    <3> QED
      BY <1>1, <3>1, RadarAssumption, WorkspaceAssumption DEF CandleSet
  <2>3. CASE Confirmed(rows, n, len, t)
    <3>1. ConfirmationAt(rows, n, len) <= t /\ n + Around <= Len(rows)
      BY <2>3 DEF Confirmed, researchFeaturesAt
    <3>2. n + Around \in 1..Len(rows)
      BY <1>3, <2>1, <3>1, RadarAssumption
    <3>3. rows[n + Around].time \in Int
      BY <1>3, <3>2, RadarAssumption
    <3>4. ConfirmationAt(rows, n, len) \in Int
      BY <1>1, <3>3 DEF ConfirmationAt
    <3>5. f[n] = [id |-> rows[n].time, level |-> rows[n].low, typed |-> TRUE,
                  confirmed |-> ConfirmationAt(rows, n, len)]
      BY <2>3
    <3> HIDE DEF f
    <3> QED
      BY <2>2, <3>1, <3>4, <3>5
  <2>4. CASE ~Confirmed(rows, n, len, t)
    <3>1. f[n] = [id |-> rows[n].time, level |-> rows[n].low, typed |-> FALSE,
                  confirmed |-> -Past - 1]
      BY <2>4 DEF Confirmed
    <3> HIDE DEF f
    <3> QED
      BY <2>2, <3>1, RadarAssumption
  <2> QED
    BY <2>3, <2>4
<1> HIDE DEF f
<1>8. ASSUME NEW d \in Found[mk][i][lost][t]
      PROVE  d \in CandidateSet /\ d.id \in -Past..Horizon /\ (d.typed => d.confirmed <= t)
  <2>1. PICK n \in S : d = f[n]
    BY <1>2, <1>8
  <2>2. d.id \in Ids
    BY <1>8 DEF Ids
  <2>3. /\ d.id \in -Past..Horizon /\ d.level \in Int /\ d.confirmed \in Int /\ d.typed \in BOOLEAN
        /\ d.typed => d.confirmed <= t
        /\ d = [id |-> d.id, level |-> d.level, typed |-> d.typed, confirmed |-> d.confirmed]
    BY <1>7, <2>1, Zenon
  <2>4. d \in CandidateSet
    BY <2>2, <2>3, Zenon DEF CandidateSet
  <2> QED
    BY <2>3, <2>4, Zenon
<1> QED
  BY <1>2, <1>6, <1>8

LEMMA IdsAreTimes == Ids \subseteq -Past..Horizon
BY FoundIs DEF Ids

------------------------------------------------------------------------------
(* The scan: candidates registered one after the other                      *)

\* Candidates that the Radar may show at time t, and the labels of a store.
IsVisible(D, t) == IsFiniteSet(D) /\ D \subseteq CandidatesBy(t)

LabelSet == [Ids \X Intervals -> Labels \cup {"none"}]

LEMMA LatestIn ==
  ASSUME NEW s, s # {}, \A d \in s : d \in CandidateSet PROVE Latest(s) \in s
<1> DEFINE T == {d.id : d \in s}
<1>1. \A d \in s : d.id \in Int /\ d.id <= Horizon
  <2> TAKE d \in s
  <2>1. d.id \in -Past..Horizon
    BY IdsAreTimes DEF CandidateSet
  <2> QED
    BY <2>1, RadarAssumption, WorkspaceAssumption
<1>a. T \in SUBSET Int /\ T # {} /\ \A x \in T : x <= Horizon
  BY <1>1
<1>b. Horizon \in Int
  BY WorkspaceAssumption
<1> HIDE DEF T
<1>2. \E m \in T : \A k \in T : m >= k
  BY <1>a, <1>b, GreatestBelow
<1>3. PICK m \in T : \A k \in T : m >= k
  BY <1>2
<1>4. PICK c \in s : c.id = m
  BY <1>3 DEF T
<1>5. \A d \in s : d.id \in T /\ d.id \in Int
  BY <1>a DEF T
<1>6. \A d \in s : d.id <= c.id
  BY <1>3, <1>4, <1>5
<1> QED
  BY <1>6 DEF Latest

\* The fold of the library is a function on the subsets of what is visible; nothing is known
\* of such a function before it is shown to exist.
OneScan(g, sh, labels, i, t, s) ==
  IF s = {} THEN sh
  ELSE registerShadowCandidate(g[s \ {Latest(s)}], Latest(s), labels[<<Latest(s).id, i>>], t)

IsScan(g, D, sh, labels, i, t) == g = [s \in SUBSET D |-> OneScan(g, sh, labels, i, t, s)]

ScanOf(D, sh, labels, i, t) == CHOOSE g : IsScan(g, D, sh, labels, i, t)

LEMMA SyncIs ==
  ASSUME NEW st
  PROVE  syncShadow(st) =
           [st EXCEPT !.shadow = ScanOf(Typed, st.shadow, st.labels, page.interval, now)[Typed]]
BY Zenon DEF syncShadow, MapThenFoldSet, ScanOf, IsScan, OneScan

LEMMA OneScanType ==
  ASSUME NEW t \in Nat, NEW D, IsVisible(D, t), NEW sh, LedgerAt(sh, t),
         NEW labels \in LabelSet, NEW i \in Intervals,
         NEW g, NEW s \in SUBSET D, s # {} => g[s \ {Latest(s)}] \in ScannedFrom(sh, t)
  PROVE  OneScan(g, sh, labels, i, t, s) \in ScannedFrom(sh, t)
<1>1. CASE s = {}
  BY <1>1, ScannedStart DEF OneScan
<1>2. CASE s # {}
  <2> DEFINE c == Latest(s)
  <2>1. c \in s
    BY <1>2, LatestIn DEF IsVisible, CandidatesBy
  <2>2. c \in CandidatesBy(t) /\ c \in CandidateSet
    BY <2>1 DEF IsVisible, CandidatesBy
  <2>3. OneScan(g, sh, labels, i, t, s)
          = registerShadowCandidate(g[s \ {c}], c, labels[<<c.id, i>>], t)
    BY <1>2 DEF OneScan
  <2> HIDE DEF c
  <2>4. labels[<<c.id, i>>] \in Labels \cup {"none"}
    BY <2>2 DEF LabelSet, CandidateSet
  <2>5. g[s \ {c}] \in ScannedFrom(sh, t)
    BY <1>2 DEF c
  <2> QED
    BY <2>2, <2>3, <2>4, <2>5, ScannedMore
<1> QED
  BY <1>1, <1>2

LEMMA ScanExists ==
  ASSUME NEW t \in Nat, NEW D, IsVisible(D, t), NEW sh, LedgerAt(sh, t),
         NEW labels \in LabelSet, NEW i \in Intervals
  PROVE  \E g : IsScan(g, D, sh, labels, i, t)
<1> DEFINE V == ScannedFrom(sh, t)
           F == [p \in V \X D |-> registerShadowCandidate(p[1], p[2], labels[<<p[2].id, i>>], t)]
           c == [s \in SUBSET D |-> Latest(s)]
<1>1. ASSUME NEW v \in V, NEW d \in D
      PROVE  F[<<v, d>>] = registerShadowCandidate(v, d, labels[<<d.id, i>>], t) /\ F[<<v, d>>] \in V
  <2>1. d \in CandidatesBy(t) /\ d \in CandidateSet
    BY DEF IsVisible, CandidatesBy
  <2>2. labels[<<d.id, i>>] \in Labels \cup {"none"}
    BY <2>1 DEF LabelSet, CandidateSet
  <2>3. registerShadowCandidate(v, d, labels[<<d.id, i>>], t) \in V
    BY <2>1, <2>2, ScannedMore
  <2> QED
    BY <2>3
<1>2. \A s \in SUBSET D : c[s] = Latest(s) /\ (s # {} => c[s] \in s)
  BY LatestIn DEF IsVisible, CandidatesBy
<1>3. sh \in V /\ IsFiniteSet(D)
  BY ScannedStart DEF IsVisible
<1> HIDE DEF F, c, V
<1>4. PICK g \in [SUBSET D -> V] : IsFold(g, D, sh, F, c)
  BY <1>1, <1>2, <1>3, FoldExists
<1>5. ASSUME NEW s \in SUBSET D PROVE g[s] = OneScan(g, sh, labels, i, t, s)
  <2>1. g[s] = IF s = {} THEN sh ELSE F[<<g[s \ {c[s]}], c[s]>>]
    BY <1>4, Zenon DEF IsFold
  <2>2. CASE s = {}
    BY <2>1, <2>2 DEF OneScan
  <2>3. CASE s # {}
    <3>1. c[s] = Latest(s) /\ c[s] \in D /\ g[s \ {c[s]}] \in V
      BY <1>2, <1>4, <2>3
    <3> QED
      BY <1>1, <2>1, <2>3, <3>1 DEF OneScan
  <2> QED
    BY <2>2, <2>3
<1>6. g = [s \in SUBSET D |-> OneScan(g, sh, labels, i, t, s)]
  BY <1>4, <1>5
<1> QED
  BY <1>6, Zenon DEF IsScan

\* Whatever is found, a scan makes a ledger of a ledger, and only registers.
LEMMA ScanLedger ==
  ASSUME NEW t \in Nat, NEW D, IsVisible(D, t), NEW sh, LedgerAt(sh, t),
         NEW labels \in LabelSet, NEW i \in Intervals
  PROVE  ScanOf(D, sh, labels, i, t)[D] \in ScannedFrom(sh, t)
<1> DEFINE g == ScanOf(D, sh, labels, i, t)
           V == ScannedFrom(sh, t)
           c == [s \in SUBSET D |-> Latest(s)]
<1>1. IsScan(g, D, sh, labels, i, t)
  BY ScanExists DEF ScanOf
<1> HIDE DEF g
<1>2. \A s \in SUBSET D : g[s] = OneScan(g, sh, labels, i, t, s)
  BY <1>1, Zenon DEF IsScan
<1>3. \A s \in SUBSET D : c[s] = Latest(s) /\ (s # {} => c[s] \in s)
  BY LatestIn DEF IsVisible, CandidatesBy
<1>4. ASSUME NEW s \in SUBSET D, s # {} => g[s \ {c[s]}] \in V PROVE g[s] \in V
  BY <1>2, <1>3, <1>4, OneScanType
<1>5. IsFiniteSet(D)
  BY DEF IsVisible
<1> HIDE DEF c, V
<1>6. StaysIn(g, D, V, c)
  BY <1>3, <1>4 DEF StaysIn
<1>7. g[D] \in V
  BY <1>5, <1>6, FoldIn
<1> QED
  BY <1>7 DEF g, V

------------------------------------------------------------------------------
(* Stores and pages                                                         *)

AlertSet == [id : 1..MaxAlerts, above : BOOLEAN, price : {AlertPrice}, active : BOOLEAN]

IdsOnce(alerts) == \A a, b \in alerts : a.id = b.id => a = b

StoreSet ==
  [shadow : ShadowSet, interval : Intervals, radar : BOOLEAN, alerts : SUBSET AlertSet,
   labels : LabelSet, paper : 0..MaxLedger, huge : BOOLEAN]

Stores(t) == {st \in StoreSet : LedgerAt(st.shadow, t) /\ IdsOnce(st.alerts)}

LayoutSet ==
  {ui \in [interval : Intervals, alerts : SUBSET AlertSet, radar : BOOLEAN] : IdsOnce(ui.alerts)}

PageSet(t) ==
  [up : {TRUE}, interval : Intervals, loaded : SUBSET Intervals, lost : [Intervals -> Losses],
   carried : Intervals, pack : {"none", "loading", "ready"},
   enabling : BOOLEAN, checked : BOOLEAN, dirty : BOOLEAN,
   pending : Stores(t) \cup {None}, since : 0..t, refused : BOOLEAN]

LEMMA StoresLater ==
  ASSUME NEW t \in Int, NEW u \in Int, t <= u PROVE Stores(t) \subseteq Stores(u)
BY LedgerLater DEF Stores

LEMMA PagesLater ==
  ASSUME NEW t \in Int, NEW u \in Int, t <= u PROVE PageSet(t) \subseteq PageSet(u)
<1>1. 0..t \subseteq 0..u
  OBVIOUS
<1>2. Stores(t) \cup {None} \subseteq Stores(u) \cup {None}
  BY StoresLater
<1> QED
  BY <1>1, <1>2 DEF PageSet

\* A tick, or a load of charts, leaves a page one, and changes its charts alone.
SameButCharts(p, q) ==
  /\ q.since = p.since /\ q.pack = p.pack /\ q.refused = p.refused /\ q.dirty = p.dirty

LEMMA TickedPage ==
  ASSUME NEW t, NEW p \in PageSet(t), now \in 0..Horizon, now < Horizon, NEW got
  PROVE  Ticked(p, got) \in PageSet(t) /\ SameButCharts(p, Ticked(p, got))
<1> DEFINE lost == [i \in Intervals |-> IF i \in p.loaded \ got THEN p.lost[i] \cup {now + 1} ELSE p.lost[i]]
<1>1. Ticked(p, got) = [p EXCEPT !.lost = lost]
  BY DEF Ticked, PageSet
<1>2. now + 1 \in Ticks
  BY WorkspaceAssumption DEF Ticks
<1>3. \A i \in Intervals : p.lost[i] \in SUBSET Ticks
  BY DEF PageSet, Losses
<1>4. lost \in [Intervals -> Losses]
  BY <1>2, <1>3 DEF Losses
<1> HIDE DEF lost
<1> QED
  BY <1>1, <1>4 DEF PageSet, SameButCharts

LEMMA LoadedPage ==
  ASSUME NEW t, NEW p \in PageSet(t), NEW some \in SUBSET Intervals
  PROVE  Loaded(p, some) \in PageSet(t) /\ SameButCharts(p, Loaded(p, some))
<1> DEFINE lost == [i \in Intervals |-> IF i \in some THEN {} ELSE p.lost[i]]
           loaded == p.loaded \cup some
<1>1. Loaded(p, some) = [p EXCEPT !.loaded = loaded, !.lost = lost]
  BY DEF Loaded, PageSet
<1>2. lost \in [Intervals -> Losses] /\ loaded \in SUBSET Intervals
  BY DEF PageSet, Losses
<1> HIDE DEF lost, loaded
<1> QED
  BY <1>1, <1>2 DEF PageSet, SameButCharts

LEMMA StoreFields ==
  ASSUME NEW t, NEW st \in Stores(t)
  PROVE  /\ st \in StoreSet /\ LedgerAt(st.shadow, t) /\ IdsOnce(st.alerts)
         /\ st.shadow \in ShadowSet /\ st.shadow.enabled \in BOOLEAN
         /\ st.interval \in Intervals /\ st.radar \in BOOLEAN
         /\ st.alerts \in SUBSET AlertSet /\ st.labels \in LabelSet /\ st.paper \in 0..MaxLedger
         /\ st.huge \in BOOLEAN
BY DEF Stores, StoreSet, ShadowSet

\* A store with another ledger of records.
LEMMA StoreWithLedger ==
  ASSUME NEW t, NEW st \in Stores(t), NEW u \in Int, t \in Int, t <= u, NEW sh, LedgerAt(sh, u)
  PROVE  /\ [st EXCEPT !.shadow = sh] \in Stores(u)
         /\ [st EXCEPT !.shadow = sh].shadow = sh
         /\ [st EXCEPT !.shadow = sh].alerts = st.alerts
         /\ [st EXCEPT !.shadow = sh].labels = st.labels
         /\ [st EXCEPT !.shadow = sh].paper = st.paper
<1>1. st \in StoreSet /\ sh \in ShadowSet
  BY StoreFields DEF LedgerAt
<1> QED
  BY <1>1 DEF Stores, StoreSet

\* What does not touch the ledger.
LEMMA StoreWithRest ==
  ASSUME NEW t, NEW st \in Stores(t), NEW q \in StoreSet, q.shadow = st.shadow, IdsOnce(q.alerts)
  PROVE  q \in Stores(t)
BY DEF Stores

\* A load switches the shadow off and loses no record.
LEMMA MigratedStore ==
  ASSUME NEW t \in Nat, NEW st \in Stores(t), NEW q, q = migrateStore(st)
  PROVE  /\ q \in Stores(t) /\ ~q.shadow.enabled /\ q.alerts = st.alerts
         /\ q.shadow.records = st.shadow.records
         /\ q = [st EXCEPT !.radar = FALSE, !.shadow = [st.shadow EXCEPT !.enabled = FALSE]]
<1> DEFINE sh == [st.shadow EXCEPT !.enabled = FALSE]
<1>0. LedgerAt(st.shadow, t) /\ st \in StoreSet /\ st.shadow \in ShadowSet
  BY StoreFields
<1>1. normalizeShadowState(st.shadow) = st.shadow
  BY <1>0, NormalLedger
<1>2. q = [st EXCEPT !.radar = FALSE, !.shadow = sh]
  BY <1>0, <1>1 DEF migrateStore, StoreSet
<1>3. /\ sh \in ShadowSet /\ sh.enabled = FALSE /\ sh.records = st.shadow.records
  BY <1>0 DEF ShadowSet
<1> HIDE DEF sh
<1>4. LedgerAt(sh, t)
  BY <1>0, <1>3 DEF LedgerAt
<1>5. q \in StoreSet /\ q.shadow = sh /\ q.alerts = st.alerts
  BY <1>0, <1>2, <1>3 DEF StoreSet
<1>6. q \in Stores(t)
  BY <1>4, <1>5, StoreFields DEF Stores
<1> QED
  BY <1>2, <1>3, <1>5, <1>6 DEF sh

------------------------------------------------------------------------------
(* The invariant, and what a task of a living page does                     *)

WorkInv ==
  /\ now \in 0..Horizon /\ market \in Tapes
  /\ last \in {market[k] : k \in DOMAIN market} \cup {Never}
  /\ store \in Stores(now) /\ disk \in Stores(now)
  /\ files \subseteq Stores(now) /\ backup \in Stores(now) \cup {None}
  /\ layouts \subseteq LayoutSet
  /\ page = Down \/ page \in PageSet(now)
  /\ page.up /\ store.shadow.enabled => page.pack = "ready" /\ store.shadow.startedAt >= page.since
  /\ told \subseteq 1..MaxAlerts

\* Stores that only go forward from the present one, and hold no new record from before
\* "since", or of a pattern that is not shown.
Moves(since) ==
  {st \in Stores(now) :
     /\ Went(store.shadow.records, st.shadow.records, now)
     /\ \A i \in DOMAIN st.shadow.records :
          \/ Known(store.shadow, st.shadow.records[i].id)
          \/ st.shadow.records[i].confirmed >= since /\ Pattern(st.shadow.records[i]) \in ShownNow
     /\ st.shadow.enabled => st.shadow.startedAt >= since}

\* A store and a page that may follow.
Fits(st, p) ==
  p \in PageSet(now) /\ st \in Moves(p.since) /\ (st.shadow.enabled => p.pack = "ready")

TaskStep ==
  /\ page \in PageSet(now) /\ Fits(store', page') /\ disk' \in Stores(now)
  /\ page'.refused \/ disk' = store' \/ (UNCHANGED <<store, disk>> /\ page'.refused = page.refused)

LEMMA WorkFacts ==
  ASSUME WorkInv
  PROVE  /\ now \in Nat /\ now \in Int /\ now \in 0..Horizon /\ now \in 0..now
         /\ store \in Stores(now) /\ LedgerAt(store.shadow, now) /\ store.shadow \in ShadowSet
         /\ page.up => page \in PageSet(now) /\ page.since \in 0..now /\ page.interval \in Intervals
         /\ ~page.up => page = Down
<1>1. now \in Nat /\ now \in Int /\ now \in 0..Horizon /\ now \in 0..now
  BY WorkspaceAssumption DEF WorkInv
<1>2. store \in Stores(now) /\ LedgerAt(store.shadow, now) /\ store.shadow \in ShadowSet
  BY StoreFields DEF WorkInv
<1>3. page = Down \/ page \in PageSet(now)
  BY DEF WorkInv
<1>4. CASE page = Down
  BY <1>1, <1>2, <1>4 DEF Down
<1>5. CASE page \in PageSet(now)
  BY <1>1, <1>2, <1>5 DEF PageSet
<1> QED
  BY <1>3, <1>4, <1>5

LEMMA SavesIs ==
  ASSUME NEW G, NEW steps \in Seq(G), NEW end, NEW done, NEW broken,
         Saves(steps, end, done, broken)
  PROVE  \/ steps = <<>> /\ store' = end /\ disk' = disk /\ page' = done
         \/ /\ steps # <<>> /\ store' = end /\ page' = [done EXCEPT !.refused = FALSE]
            /\ disk' = Last(steps) /\ Last(steps) \in G
            /\ Len(steps) \in 1..Len(steps) /\ Last(steps) = steps[Len(steps)]
         \/ \E i \in 1..Len(steps) :
              /\ store' = steps[i] /\ steps[i] \in G /\ page' = [broken[i] EXCEPT !.refused = TRUE]
              /\ disk' = disk \/ (i # 1 /\ i - 1 \in 1..Len(steps) /\ disk' = steps[i - 1] /\ disk' \in G)
<1>0. /\ Len(steps) \in Nat /\ DOMAIN steps = 1..Len(steps)
      /\ \A i \in 1..Len(steps) : steps[i] \in G
      /\ steps # <<>> => Len(steps) \in Nat \ {0}
  BY LenProperties, ElementOfSeq, EmptySeq
<1>1. CASE /\ store' = end
           /\ disk' = IF steps = <<>> THEN disk ELSE Last(steps)
           /\ page' = IF steps = <<>> THEN done ELSE [done EXCEPT !.refused = FALSE]
  <2>1. CASE steps = <<>>
    BY <1>1, <2>1
  <2>2. CASE steps # <<>>
    <3>1. Len(steps) \in 1..Len(steps) /\ Last(steps) = steps[Len(steps)]
      BY <1>0, <2>2 DEF Last
    <3>2. Last(steps) \in G
      BY <1>0, <3>1
    <3> QED
      BY <1>1, <2>2, <3>1, <3>2
  <2> QED
    BY <2>1, <2>2
<1>2. ASSUME NEW i \in DOMAIN steps,
             store' = steps[i], disk' = IF i = 1 THEN disk ELSE steps[i - 1],
             page' = [broken[i] EXCEPT !.refused = TRUE]
      PROVE  \E k \in 1..Len(steps) :
              /\ store' = steps[k] /\ steps[k] \in G /\ page' = [broken[k] EXCEPT !.refused = TRUE]
              /\ disk' = disk \/ (k # 1 /\ k - 1 \in 1..Len(steps) /\ disk' = steps[k - 1] /\ disk' \in G)
  <2>1. i \in 1..Len(steps) /\ steps[i] \in G
    BY <1>0
  <2>2. CASE i = 1
    BY <1>2, <2>1, <2>2
  <2>3. CASE i # 1
    <3>1. i - 1 \in 1..Len(steps) /\ disk' = steps[i - 1]
      BY <1>0, <1>2, <2>1, <2>3
    <3>2. disk' \in G
      BY <1>0, <3>1
    <3> QED
      BY <1>2, <2>1, <2>3, <3>1, <3>2
  <2> QED
    BY <2>2, <2>3
<1> QED
  BY <1>1, <1>2 DEF Saves

\* A task whose last save is of the store it leaves.
LEMMA SaveTask ==
  ASSUME WorkInv, page.up,
         NEW steps \in Seq(Stores(now)), NEW end, NEW done, NEW broken,
         Saves(steps, end, done, broken),
         steps # <<>>, end = Last(steps), Fits(end, done),
         \A i \in 1..Len(steps) : Fits(steps[i], broken[i]),
         NEW alerts, \A i \in 1..Len(steps) : steps[i].alerts = alerts
  PROVE  TaskStep /\ store'.alerts = alerts
<1>0. page \in PageSet(now) /\ disk \in Stores(now)
  BY WorkFacts DEF WorkInv
<1>1. CASE /\ store' = end /\ page' = [done EXCEPT !.refused = FALSE]
           /\ disk' = Last(steps) /\ Last(steps) \in Stores(now)
           /\ Len(steps) \in 1..Len(steps) /\ Last(steps) = steps[Len(steps)]
  <2>1. page' \in PageSet(now) /\ page'.since = done.since /\ page'.pack = done.pack
    BY <1>1 DEF Fits, PageSet
  <2>2. Fits(store', page')
    BY <1>1, <2>1 DEF Fits
  <2>3. store'.alerts = alerts
    BY <1>1
  <2> QED
    BY <1>0, <1>1, <2>2, <2>3 DEF TaskStep
<1>2. ASSUME NEW i \in 1..Len(steps),
             store' = steps[i], page' = [broken[i] EXCEPT !.refused = TRUE],
             disk' = disk \/ disk' \in Stores(now)
      PROVE  TaskStep /\ store'.alerts = alerts
  <2>0. Fits(steps[i], broken[i]) /\ steps[i].alerts = alerts
    OBVIOUS
  <2>1. /\ page' \in PageSet(now) /\ page'.since = broken[i].since /\ page'.pack = broken[i].pack
        /\ page'.refused = TRUE
    BY <1>2, <2>0 DEF Fits, PageSet
  <2>2. Fits(store', page')
    BY <1>2, <2>0, <2>1 DEF Fits
  <2> QED
    BY <1>0, <1>2, <2>0, <2>1, <2>2 DEF TaskStep
<1> QED
  BY <1>1, <1>2, SavesIs

LEMMA OneSave ==
  ASSUME WorkInv, page.up, NEW st, NEW done, NEW broken, Saves(<<st>>, st, done, broken),
         Fits(st, done), Fits(st, broken[1])
  PROVE  TaskStep /\ store'.alerts = st.alerts
<1> DEFINE steps == <<st>>
<1>1. st \in Stores(now)
  BY DEF Fits, Moves
<1>2. steps \in Seq(Stores(now)) /\ Len(steps) = 1 /\ steps[1] = st /\ steps # <<>>
  BY <1>1
<1>3. st = Last(steps)
  BY <1>2 DEF Last
<1>4. Saves(steps, st, done, broken)
  OBVIOUS
<1> HIDE DEF steps
<1>5. \A i \in 1..Len(steps) : Fits(steps[i], broken[i]) /\ steps[i].alerts = st.alerts
  BY <1>2
<1> QED
  BY <1>2, <1>3, <1>4, <1>5, SaveTask

LEMMA TwoSaves ==
  ASSUME WorkInv, page.up, NEW s1, NEW s2, NEW done, NEW broken,
         Saves(<<s1, s2>>, s2, done, broken),
         Fits(s2, done), Fits(s1, broken[1]), Fits(s2, broken[2]), s1.alerts = s2.alerts
  PROVE  TaskStep /\ store'.alerts = s2.alerts
<1> DEFINE steps == <<s1, s2>>
<1>1. s1 \in Stores(now) /\ s2 \in Stores(now)
  BY DEF Fits, Moves
<1>2. /\ steps \in Seq(Stores(now)) /\ Len(steps) = 2 /\ steps[1] = s1 /\ steps[2] = s2
      /\ steps # <<>>
  BY <1>1
<1>3. s2 = Last(steps)
  BY <1>2 DEF Last
<1>4. Saves(steps, s2, done, broken)
  OBVIOUS
<1> HIDE DEF steps
<1>5. \A i \in 1..Len(steps) : Fits(steps[i], broken[i]) /\ steps[i].alerts = s2.alerts
  <2> TAKE i \in 1..Len(steps)
  <2>1. i = 1 \/ i = 2
    BY <1>2
  <2> QED
    BY <1>2, <2>1
<1> QED
  BY <1>2, <1>3, <1>4, <1>5, SaveTask

\* A store whose records are those of the present one.
LEMMA SameRecordsFit ==
  ASSUME WorkInv, NEW st \in Stores(now), st.shadow.records = store.shadow.records,
         NEW p \in PageSet(now),
         st.shadow.enabled => p.pack = "ready" /\ st.shadow.startedAt >= p.since
  PROVE  Fits(st, p)
<1>1. Went(store.shadow.records, st.shadow.records, now)
  BY WorkFacts, WentSelf
<1>2. \A i \in DOMAIN st.shadow.records : Known(store.shadow, st.shadow.records[i].id)
  BY DEF Known
<1> QED
  BY <1>1, <1>2 DEF Fits, Moves

\* Most tasks leave the ledger and the pack alone.
LEMMA SameLedgerFits ==
  ASSUME WorkInv, page.up, NEW st \in Stores(now), st.shadow = store.shadow,
         NEW p \in PageSet(now), p.since = page.since, p.pack = page.pack \/ page.pack # "ready"
  PROVE  Fits(st, p)
BY SameRecordsFit DEF WorkInv

LEMMA TypedIs == ASSUME WorkInv, page.up PROVE IsVisible(Typed, now)
<1> DEFINE lost == page.lost[page.interval]
           found == Found[market][page.interval][lost][now]
<1>1. market \in Tapes /\ page.interval \in Intervals /\ now \in 0..Horizon /\ lost \in Losses
  BY WorkFacts DEF WorkInv, PageSet
<1> HIDE DEF lost
<1>2. IsFiniteSet(found) /\ \A d \in found : d \in CandidateSet /\ (d.typed => d.confirmed <= now)
  BY <1>1, FoundIs
<1>3. Typed \subseteq found /\ \A d \in Typed : d.typed
  BY DEF Typed, Visible, lost
<1>4. IsFiniteSet(Typed)
  BY <1>2, <1>3, FS_Subset
<1>5. \A d \in Typed : Pattern(d) \in ShownNow
  BY DEF ShownNow
<1> QED
  BY <1>2, <1>3, <1>4, <1>5 DEF IsVisible, CandidatesBy

\* The scan of a store whose records are those of the present one.
LEMMA ScanFits ==
  ASSUME WorkInv, page.up, NEW s1 \in Stores(now), s1.shadow.records = store.shadow.records,
         NEW p \in PageSet(now),
         s1.shadow.enabled => p.pack = "ready" /\ s1.shadow.startedAt >= p.since
  PROVE  /\ Fits(syncShadow(s1), p) /\ syncShadow(s1).alerts = s1.alerts
         /\ syncShadow(s1) \in Stores(now)
<1> DEFINE x == ScanOf(Typed, s1.shadow, s1.labels, page.interval, now)[Typed]
           s2 == [s1 EXCEPT !.shadow = x]
<1>1. syncShadow(s1) = s2
  BY SyncIs
<1>2. LedgerAt(s1.shadow, now) /\ s1.labels \in LabelSet /\ now \in Nat /\ page.interval \in Intervals
  BY StoreFields, WorkFacts
<1>3. x \in ScannedFrom(s1.shadow, now)
  BY <1>2, TypedIs, ScanLedger
<1> HIDE DEF x
<1>4. /\ LedgerAt(x, now) /\ x.enabled = s1.shadow.enabled /\ x.startedAt = s1.shadow.startedAt
      /\ Went(s1.shadow.records, x.records, now)
      /\ \A i \in DOMAIN x.records :
           \/ Known(s1.shadow, x.records[i].id)
           \/ /\ s1.shadow.enabled /\ x.records[i].confirmed >= s1.shadow.startedAt
              /\ Pattern(x.records[i]) \in ShownNow
  BY <1>3 DEF ScannedFrom
<1>5. s2 \in Stores(now) /\ s2.shadow = x /\ s2.alerts = s1.alerts
  BY <1>4, WorkFacts, StoreWithLedger
<1> HIDE DEF s2
<1>6. ASSUME NEW i \in DOMAIN x.records
      PROVE  \/ Known(store.shadow, x.records[i].id)
             \/ x.records[i].confirmed >= p.since /\ Pattern(x.records[i]) \in ShownNow
  <2>1. CASE Known(s1.shadow, x.records[i].id)
    BY <2>1 DEF Known
  <2>2. CASE /\ s1.shadow.enabled /\ x.records[i].confirmed >= s1.shadow.startedAt
             /\ Pattern(x.records[i]) \in ShownNow
    <3>1. x.records[i].confirmed \in Int
      BY <1>4 DEF LedgerAt, RecordAt, RecordSet
    <3>2. s1.shadow.startedAt \in Int /\ p.since \in Int /\ s1.shadow.startedAt >= p.since
      BY <1>2, <2>2 DEF LedgerAt, ShadowSet, PageSet
    <3> QED
      BY <2>2, <3>1, <3>2
  <2> QED
    BY <1>4, <2>1, <2>2
<1>7. Fits(s2, p)
  BY <1>4, <1>5, <1>6 DEF Fits, Moves
<1> QED
  BY <1>1, <1>5, <1>7

PlainStep == TaskStep /\ store'.alerts = store.alerts /\ told' = told

LEMMA ScanRadarTask == ASSUME WorkInv, ScanRadar PROVE PlainStep
<1> DEFINE st == syncShadow(store)
<1>1. page.up /\ store.shadow.enabled /\ Keep(st) /\ UNCHANGED told
  BY DEF ScanRadar
<1>2. page \in PageSet(now) /\ page.pack = "ready" /\ store.shadow.startedAt >= page.since
  BY <1>1, WorkFacts DEF WorkInv
<1>3. Fits(st, page) /\ st.alerts = store.alerts
  BY <1>1, <1>2, WorkFacts, ScanFits
<1> HIDE DEF st
<1>4. Saves(<<st>>, st, page, [i \in Turns |-> page]) /\ [i \in Turns |-> page][1] = page
  BY <1>1 DEF Keep, Turns
<1> DEFINE broken == [i \in Turns |-> page]
<1> HIDE DEF broken
<1>5. TaskStep /\ store'.alerts = st.alerts
  BY <1>1, <1>3, <1>4, OneSave DEF broken
<1> QED
  BY <1>1, <1>3, <1>5 DEF PlainStep

LEMMA ThreeSaves ==
  ASSUME WorkInv, page.up, NEW s1, NEW s2, NEW s3, NEW done, NEW broken,
         Saves(<<s1, s2, s3>>, s3, done, broken),
         Fits(s3, done), Fits(s1, broken[1]), Fits(s2, broken[2]), Fits(s3, broken[3]),
         s1.alerts = s3.alerts, s2.alerts = s3.alerts
  PROVE  TaskStep /\ store'.alerts = s3.alerts
<1> DEFINE steps == <<s1, s2, s3>>
<1>1. s1 \in Stores(now) /\ s2 \in Stores(now) /\ s3 \in Stores(now)
  BY DEF Fits, Moves
<1>2. /\ steps \in Seq(Stores(now)) /\ Len(steps) = 3
      /\ steps[1] = s1 /\ steps[2] = s2 /\ steps[3] = s3 /\ steps # <<>>
  BY <1>1
<1>3. s3 = Last(steps)
  BY <1>2 DEF Last
<1>4. Saves(steps, s3, done, broken)
  OBVIOUS
<1> HIDE DEF steps
<1>5. \A i \in 1..Len(steps) : Fits(steps[i], broken[i]) /\ steps[i].alerts = s3.alerts
  <2> TAKE i \in 1..Len(steps)
  <2>1. i = 1 \/ i = 2 \/ i = 3
    BY <1>2
  <2> QED
    BY <1>2, <2>1
<1> QED
  BY <1>2, <1>3, <1>4, <1>5, SaveTask

\* The saves of a task, one after the other.
LEMMA WhenIs == ASSUME NEW st PROVE When(TRUE, st) = <<st>> /\ When(FALSE, st) = <<>>
BY DEF When

LEMMA OneAfterOther ==
  ASSUME NEW x, NEW y, NEW z
  PROVE  /\ <<>> \o <<x>> = <<x>> /\ <<x>> \o <<>> = <<x>> /\ <<>> \o <<>> = <<>>
         /\ <<x>> \o <<y>> = <<x, y>> /\ <<x, y>> \o <<>> = <<x, y>>
         /\ <<x, y>> \o <<z>> = <<x, y, z>>
<1> DEFINE S == {x, y, z}
<1>0. <<x>> \in Seq(S) /\ <<x, y>> \in Seq(S) /\ <<>> \in Seq(S) /\ y \in S /\ z \in S
  OBVIOUS
<1> DEFINE a == <<x>> \o <<y>>
           b == <<x, y>>
           c == <<x, y>> \o <<z>>
           d == <<x, y, z>>
<1>1. a \in Seq(S) /\ Len(a) = 2 /\ a[1] = x /\ a[2] = y
  OBVIOUS
<1>2. b \in Seq(S) /\ Len(b) = 2 /\ b[1] = x /\ b[2] = y
  OBVIOUS
<1>3. c \in Seq(S) /\ Len(c) = 3 /\ c[1] = x /\ c[2] = y /\ c[3] = z
  OBVIOUS
<1>4. d \in Seq(S) /\ Len(d) = 3 /\ d[1] = x /\ d[2] = y /\ d[3] = z
  OBVIOUS
<1> HIDE DEF S, a, b, c, d
<1>5. Len(a) = Len(b) /\ \A i \in 1..Len(a) : a[i] = b[i]
  <2>1. \A i \in 1..2 : i = 1 \/ i = 2
    OBVIOUS
  <2> QED
    BY <1>1, <1>2, <2>1
<1>6. Len(c) = Len(d) /\ \A i \in 1..Len(c) : c[i] = d[i]
  <2>1. \A i \in 1..3 : i = 1 \/ i = 2 \/ i = 3
    OBVIOUS
  <2> QED
    BY <1>3, <1>4, <2>1
<1>7. a = b
  BY <1>1, <1>2, <1>5, SeqEqual
<1>8. c = d
  BY <1>3, <1>4, <1>6, SeqEqual
<1> QED
  BY <1>0, <1>7, <1>8, ConcatEmptySeq DEF a, b, c, d

LEMMA ToggleRadarTask == ASSUME WorkInv, toggleRadar PROVE PlainStep
<1> DEFINE s1 == [store EXCEPT !.radar = ~@]
           s2 == IF page.pack = "ready" THEN syncShadow(s1) ELSE s1
           p  == IF s1.radar THEN ensurePack(page) ELSE page
           steps == <<s1>> \o When(s2 # s1, s2) \o <<s2>>
           broken == [i \in Turns |-> IF i < Len(steps) THEN page ELSE p]
<1>1. page.up /\ UNCHANGED <<now, told>> /\ Saves(steps, s2, p, broken)
  BY Zenon DEF toggleRadar, Click
<1>2. \A i \in {1, 2, 3} : broken[i] = page \/ broken[i] = p
  BY DEF Turns
<1> HIDE DEF broken
<1>3. /\ page \in PageSet(now) /\ store \in Stores(now)
      /\ store.shadow.enabled => page.pack = "ready" /\ store.shadow.startedAt >= page.since
  BY <1>1, WorkFacts DEF WorkInv
<1>4. s1 \in Stores(now) /\ s1.shadow = store.shadow /\ s1.alerts = store.alerts
  <2>1. s1 \in StoreSet /\ s1.shadow = store.shadow /\ s1.alerts = store.alerts
    BY <1>3 DEF Stores, StoreSet
  <2> QED
    BY <1>3, <2>1, StoreWithRest, StoreFields
<1>5. /\ p \in PageSet(now) /\ p.since = page.since
      /\ p.pack = page.pack \/ page.pack # "ready"
  BY <1>3 DEF ensurePack, PageSet
<1>11. s2 = s1 => steps = <<s1, s2>>
  <2>1. When(FALSE, s2) = <<>> /\ <<s1>> \o <<>> = <<s1>> /\ <<s1>> \o <<s2>> = <<s1, s2>>
    BY WhenIs, OneAfterOther, Zenon
  <2> HIDE DEF s1, s2
  <2> QED
    BY <2>1
<1>12. s2 # s1 => steps = <<s1, s2, s2>>
  <2> HIDE DEF s1, s2
  <2>1. When(TRUE, s2) = <<s2>>
    BY WhenIs, Zenon
  <2>2. <<s1>> \o <<s2>> = <<s1, s2>>
    BY OneAfterOther, Zenon
  <2>3. <<s1, s2>> \o <<s2>> = <<s1, s2, s2>>
    BY OneAfterOther, Zenon
  <2> QED
    BY <2>1, <2>2, <2>3
<1> HIDE DEF s1, p, steps
<1>6. \A x \in {page, p} : Fits(s1, x)
  BY <1>1, <1>3, <1>4, <1>5, SameLedgerFits
<1>7. s2.alerts = store.alerts /\ \A x \in {page, p} : Fits(s2, x)
  <2>1. CASE page.pack = "ready"
    <3>1. s2 = syncShadow(s1)
      BY <2>1
    <3>2. \A x \in {page, p} :
            s1.shadow.enabled => x.pack = "ready" /\ s1.shadow.startedAt >= x.since
      BY <1>3, <1>4, <1>5, <2>1
    <3>3. s1.shadow.records = store.shadow.records
      BY <1>4
    <3> HIDE DEF s2
    <3> QED
      BY <1>1, <1>3, <1>4, <1>5, <3>1, <3>2, <3>3, ScanFits
  <2>2. CASE page.pack # "ready"
    BY <1>4, <1>6, <2>2
  <2> QED
    BY <2>1, <2>2
<1> HIDE DEF s2
<1>8. /\ Fits(s1, broken[1]) /\ Fits(s2, broken[2]) /\ Fits(s2, broken[3]) /\ Fits(s2, p)
      /\ s1.alerts = s2.alerts
  BY <1>2, <1>4, <1>6, <1>7, Zenon
<1>9. CASE s2 = s1
  BY <1>1, <1>7, <1>8, <1>9, <1>11, TwoSaves, Zenon DEF PlainStep
<1>10. CASE s2 # s1
  BY <1>1, <1>7, <1>8, <1>10, <1>12, ThreeSaves, Zenon DEF PlainStep
<1> QED
  BY <1>9, <1>10

\* Switched on or off, a ledger stays one.
LEMMA SameRecords ==
  ASSUME NEW t, NEW sh, LedgerAt(sh, t), NEW q \in ShadowSet, q.records = sh.records,
         q.enabled => q.startedAt \in 0..t
  PROVE  LedgerAt(q, t)
BY DEF LedgerAt

LEMMA SwitchedOn ==
  ASSUME NEW t \in Nat, NEW sh, LedgerAt(sh, t), NEW q, q = setShadowEnabled(sh, TRUE, t)
  PROVE  /\ LedgerAt(q, t) /\ q.records = sh.records /\ q.enabled
         /\ q.startedAt = IF ~sh.enabled THEN t ELSE sh.startedAt
<1>0. sh \in ShadowSet /\ t \in Int /\ t \in 0..t
  BY DEF LedgerAt
<1>1. q \in ShadowSet /\ q.records = sh.records /\ q.enabled
      /\ q.startedAt = IF ~sh.enabled THEN t ELSE sh.startedAt
  BY <1>0 DEF setShadowEnabled, ShadowSet
<1>2. q.startedAt \in 0..t
  BY <1>0, <1>1 DEF LedgerAt
<1>3. LedgerAt(q, t)
  BY <1>1, <1>2, SameRecords, Zenon
<1> QED
  BY <1>1, <1>3, Zenon

LEMMA SwitchedOff ==
  ASSUME NEW t \in Nat, NEW sh, LedgerAt(sh, t), NEW q, q = setShadowEnabled(sh, FALSE, t)
  PROVE  LedgerAt(q, t) /\ q.records = sh.records /\ ~q.enabled
<1>1. q \in ShadowSet /\ q.records = sh.records /\ ~q.enabled
  BY DEF setShadowEnabled, ShadowSet, LedgerAt
<1>2. LedgerAt(q, t)
  BY <1>1, SameRecords, Zenon
<1> QED
  BY <1>1, <1>2, Zenon

LEMMA EnableTask ==
  ASSUME WorkInv, page.up, NEW before, before = <<>> \/ before = <<store>>,
         NEW p \in PageSet(now), p.pack = "ready", p.since = page.since, Enable(before, p)
  PROVE  TaskStep /\ store'.alerts = store.alerts
<1> DEFINE sh == setShadowEnabled(store.shadow, TRUE, now)
           s1 == [store EXCEPT !.shadow = sh, !.radar = TRUE]
           s2 == syncShadow(s1)
           on == [p EXCEPT !.checked = TRUE, !.enabling = FALSE,
                           !.since = IF store.shadow.enabled THEN @ ELSE now]
           no == [p EXCEPT !.checked = FALSE, !.enabling = FALSE]
           broken == [i \in Turns |-> IF i <= Len(before) THEN no ELSE on]
           steps == before \o <<s1>> \o When(s2 # s1, s2)
<1>1. Saves(steps, s2, on, broken)
  BY DEF Enable
<1>0. /\ now \in Nat /\ now \in 0..now /\ store \in Stores(now) /\ LedgerAt(store.shadow, now)
      /\ page \in PageSet(now) /\ store \in StoreSet
      /\ store.shadow.enabled => page.pack = "ready" /\ store.shadow.startedAt >= page.since
  BY WorkFacts, StoreFields DEF WorkInv
<1>3. sh = setShadowEnabled(store.shadow, TRUE, now)
  OBVIOUS
<1> HIDE DEF sh
<1>2. /\ LedgerAt(sh, now) /\ sh.records = store.shadow.records /\ sh.enabled
      /\ sh.startedAt = IF ~store.shadow.enabled THEN now ELSE store.shadow.startedAt
  BY <1>0, <1>3, SwitchedOn, ZenonT(60)
<1>4. s1 \in Stores(now) /\ s1.shadow = sh /\ s1.alerts = store.alerts
  BY <1>0, <1>2 DEF Stores, StoreSet, LedgerAt
<1>5. /\ on \in PageSet(now) /\ on.pack = "ready"
      /\ on.since = IF store.shadow.enabled THEN page.since ELSE now
  BY <1>0 DEF PageSet
<1>6. no \in PageSet(now) /\ no.pack = "ready" /\ no.since = page.since
  BY <1>0 DEF PageSet
<1>7. broken = [i \in Turns |-> IF i <= Len(before) THEN no ELSE on]
  OBVIOUS
<1> HIDE DEF s1, on, no, broken
<1>8. s1.shadow.enabled => on.pack = "ready" /\ s1.shadow.startedAt >= on.since
  BY <1>0, <1>2, <1>4, <1>5
<1>9. s1.shadow.records = store.shadow.records
  BY <1>2, <1>4
<1>10. Fits(s1, on)
  BY <1>4, <1>5, <1>8, <1>9, SameRecordsFit
<1>11. Fits(s2, on) /\ s2.alerts = store.alerts
  BY <1>4, <1>5, <1>8, <1>9, ScanFits
<1>12. Fits(store, no)
  BY <1>0, <1>6, SameLedgerFits
<1> HIDE DEF s2
<1>13. CASE before = <<>>
  <2>1. broken[1] = on /\ broken[2] = on
    BY <1>7, <1>13 DEF Turns
  <2>2. CASE s2 = s1
    <3>1. steps = <<s1>>
      BY <1>13, <2>2, OneAfterOther, WhenIs
    <3>2. Saves(<<s1>>, s1, on, broken)
      BY <1>1, <2>2, <3>1
    <3> QED
      BY <1>4, <1>10, <2>1, <3>2, OneSave
  <2>3. CASE s2 # s1
    <3>1. steps = <<s1, s2>>
      BY <1>13, <2>3, OneAfterOther, WhenIs
    <3>2. Saves(<<s1, s2>>, s2, on, broken)
      BY <1>1, <3>1
    <3> QED
      BY <1>4, <1>10, <1>11, <2>1, <3>2, TwoSaves
  <2> QED
    BY <2>2, <2>3
<1>14. CASE before = <<store>>
  <2>1. broken[1] = no /\ broken[2] = on /\ broken[3] = on
    BY <1>7, <1>14 DEF Turns
  <2>2. CASE s2 = s1
    <3>1. steps = <<store, s1>>
      BY <1>14, <2>2, OneAfterOther, WhenIs
    <3>2. Saves(<<store, s1>>, s1, on, broken)
      BY <1>1, <2>2, <3>1
    <3> QED
      BY <1>4, <1>10, <1>12, <2>1, <3>2, TwoSaves
  <2>3. CASE s2 # s1
    <3>1. steps = <<store, s1, s2>>
      BY <1>14, <2>3, OneAfterOther, WhenIs
    <3>2. Saves(<<store, s1, s2>>, s2, on, broken)
      BY <1>1, <3>1
    <3> QED
      BY <1>4, <1>10, <1>11, <1>12, <2>1, <3>2, ThreeSaves
  <2> QED
    BY <2>2, <2>3
<1> QED
  BY <1>13, <1>14

LEMMA ShadowOnTask == ASSUME WorkInv, ShadowOn PROVE PlainStep
<1>1. page.up /\ UNCHANGED <<now, told>>
  BY DEF ShadowOn, Click
<1>2. page \in PageSet(now) /\ store \in Stores(now) /\ disk \in Stores(now)
  BY <1>1, WorkFacts DEF WorkInv
<1>3. CASE page.pack = "ready"
  <2>1. Enable(<<>>, page)
    BY <1>3 DEF ShadowOn
  <2>2. TaskStep /\ store'.alerts = store.alerts
    BY <1>1, <1>2, <1>3, <2>1, EnableTask
  <2> QED
    BY <1>1, <2>2 DEF PlainStep
<1>4. CASE page.pack # "ready"
  <2>1. /\ page' = [ensurePack(page) EXCEPT !.checked = TRUE, !.enabling = TRUE]
        /\ store' = store /\ disk' = disk
    BY <1>4 DEF ShadowOn
  <2>2. page' \in PageSet(now) /\ page'.since = page.since /\ page'.refused = page.refused
    BY <1>2, <2>1 DEF ensurePack, PageSet
  <2>3. Fits(store, page')
    BY <1>1, <1>2, <1>4, <2>2, SameLedgerFits
  <2>4. TaskStep
    BY <1>2, <2>1, <2>2, <2>3 DEF TaskStep
  <2> QED
    BY <1>1, <2>1, <2>4 DEF PlainStep
<1> QED
  BY <1>3, <1>4

LEMMA ShadowOffTask == ASSUME WorkInv, ShadowOff PROVE PlainStep
<1> DEFINE sh  == setShadowEnabled(store.shadow, FALSE, now)
           st  == [store EXCEPT !.shadow = sh]
           off == [page EXCEPT !.checked = FALSE]
           broken == [i \in Turns |-> off]
<1>0. /\ page.up /\ page \in PageSet(now) /\ now \in Nat /\ now \in Int /\ store \in Stores(now)
      /\ store \in StoreSet /\ LedgerAt(store.shadow, now)
  BY WorkFacts, StoreFields DEF ShadowOff, Click
<1>1. UNCHANGED told /\ Saves(<<st>>, st, off, broken) /\ broken[1] = off
  BY <1>0 DEF ShadowOff, Turns, StoreSet
<1>2. sh = setShadowEnabled(store.shadow, FALSE, now)
  OBVIOUS
<1> HIDE DEF sh, broken
<1>3. LedgerAt(sh, now) /\ sh.records = store.shadow.records /\ ~sh.enabled
  BY <1>0, <1>2, SwitchedOff, ZenonT(60)
<1>4. st \in Stores(now) /\ st.shadow = sh /\ st.alerts = store.alerts
  BY <1>0, <1>3, StoreWithLedger
<1>5. off \in PageSet(now)
  BY <1>0 DEF PageSet
<1> HIDE DEF st, off
<1>6. Fits(st, off)
  BY <1>3, <1>4, <1>5, SameRecordsFit, Zenon
<1>7. TaskStep /\ store'.alerts = st.alerts
  BY <1>0, <1>1, <1>6, OneSave, Zenon
<1> QED
  BY <1>1, <1>4, <1>7, Zenon DEF PlainStep

LEMMA PackArrivesTask ==
  ASSUME WorkInv, NEW answer \in Answers, PackArrives(answer) PROVE PlainStep
<1> DEFINE p == [page EXCEPT !.pack = "ready", !.checked = store.shadow.enabled]
           broken == [i \in Turns |-> p]
<1>1. page.up /\ UNCHANGED told
  BY DEF PackArrives
<1>2. page \in PageSet(now) /\ store \in Stores(now) /\ store.shadow.enabled \in BOOLEAN
  BY <1>1, WorkFacts, StoreFields
<1>3. p \in PageSet(now) /\ p.pack = "ready" /\ p.since = page.since
  BY <1>2 DEF PageSet
<1>4. page.pack # "ready"
  BY DEF PackArrives
<1>5. IF page.enabling THEN Enable(<<store>>, p) ELSE Saves(<<store>>, store, p, broken)
  BY DEF PackArrives
<1>6. broken[1] = p
  BY DEF Turns
<1> HIDE DEF p, broken
<1>7. CASE page.enabling
  <2>1. Enable(<<store>>, p)
    BY <1>5, <1>7
  <2> QED
    BY <1>1, <1>3, <2>1, EnableTask DEF PlainStep
<1>8. CASE ~page.enabling
  <2>1. Saves(<<store>>, store, p, broken)
    BY <1>5, <1>8
  <2>2. Fits(store, p)
    BY <1>1, <1>2, <1>3, <1>4, SameLedgerFits
  <2> QED
    BY <1>1, <1>6, <2>1, <2>2, OneSave DEF PlainStep
<1> QED
  BY <1>7, <1>8

\* A task that saves once what leaves the ledger alone.
LEMMA OneChange ==
  ASSUME WorkInv, page.up, NEW st \in StoreSet, st.shadow = store.shadow, IdsOnce(st.alerts),
         NEW done \in PageSet(now), done.since = page.since, done.pack = page.pack,
         NEW broken, broken[1] \in PageSet(now), broken[1].since = page.since,
         broken[1].pack = page.pack, Saves(<<st>>, st, done, broken)
  PROVE  TaskStep /\ store'.alerts = st.alerts
<1>1. st \in Stores(now)
  BY WorkFacts, StoreWithRest
<1>2. Fits(st, done)
  BY <1>1, SameLedgerFits
<1> DEFINE b == broken[1]
<1>3. b \in PageSet(now) /\ b.since = page.since /\ b.pack = page.pack
  OBVIOUS
<1> HIDE DEF b
<1>4. Fits(st, b)
  BY <1>1, <1>3, SameLedgerFits
<1> QED
  BY <1>2, <1>4, OneSave DEF b

LEMMA OneKeep ==
  ASSUME WorkInv, page.up, NEW st \in StoreSet, st.shadow = store.shadow, IdsOnce(st.alerts),
         Keep(st)
  PROVE  TaskStep /\ store'.alerts = st.alerts
<1> DEFINE broken == [i \in Turns |-> page]
<1>1. Saves(<<st>>, st, page, broken) /\ broken[1] = page
  BY DEF Keep, Turns
<1>2. page \in PageSet(now)
  BY WorkFacts
<1> HIDE DEF broken
<1> QED
  BY <1>1, <1>2, OneChange

LEMMA ChangeIntervalTask == ASSUME WorkInv, changeInterval PROVE PlainStep
<1>1. page.up /\ UNCHANGED told /\ page \in PageSet(now) /\ store \in StoreSet /\ IdsOnce(store.alerts)
  BY WorkFacts, StoreFields DEF changeInterval, Click
<1>2. PICK i \in Intervals :
        LET st == [store EXCEPT !.interval = i]
            p  == [page EXCEPT !.interval = i]
        IN  Saves(<<st>>, st, [Loaded(p, {i} \ p.loaded) EXCEPT !.carried = i], [n \in Turns |-> p])
  BY Zenon DEF changeInterval
<1> DEFINE st == [store EXCEPT !.interval = i]
           p  == [page EXCEPT !.interval = i]
           x  == Loaded(p, {i} \ p.loaded)
           q  == [x EXCEPT !.carried = i]
           broken == [n \in Turns |-> p]
<1>3. st \in StoreSet /\ st.shadow = store.shadow /\ st.alerts = store.alerts
  BY <1>1 DEF StoreSet
<1>4. p \in PageSet(now) /\ p.since = page.since /\ p.pack = page.pack
  BY <1>1 DEF PageSet
<1>5. broken[1] = p /\ Saves(<<st>>, st, q, broken)
  BY <1>2 DEF Turns
<1> HIDE DEF st, p, broken
<1>6. x \in PageSet(now) /\ x.since = page.since /\ x.pack = page.pack
  BY <1>4, LoadedPage DEF SameButCharts
<1> HIDE DEF x
<1>7. q \in PageSet(now) /\ q.since = page.since /\ q.pack = page.pack
  BY <1>6 DEF PageSet
<1> HIDE DEF q
<1>8. TaskStep /\ store'.alerts = st.alerts
  BY <1>1, <1>3, <1>4, <1>5, <1>7, OneChange
<1> QED
  BY <1>1, <1>3, <1>8 DEF PlainStep

LEMMA SaveDirtyTask == ASSUME WorkInv, SaveDirty PROVE PlainStep
<1> DEFINE p == [page EXCEPT !.dirty = FALSE]
           broken == [i \in Turns |-> page]
<1>1. page.up /\ UNCHANGED told /\ page \in PageSet(now) /\ store \in StoreSet /\ IdsOnce(store.alerts)
  BY WorkFacts, StoreFields DEF SaveDirty
<1>2. p \in PageSet(now) /\ p.since = page.since /\ p.pack = page.pack
  BY <1>1 DEF PageSet
<1>3. broken[1] = page /\ Saves(<<store>>, store, p, broken)
  BY DEF SaveDirty, Turns
<1> HIDE DEF p, broken
<1>4. TaskStep /\ store'.alerts = store.alerts
  BY <1>1, <1>2, <1>3, OneChange
<1> QED
  BY <1>1, <1>4 DEF PlainStep

LEMMA SavePaperSettingsTask == ASSUME WorkInv, savePaperSettings PROVE PlainStep
<1>1. page.up /\ UNCHANGED told /\ store \in StoreSet /\ IdsOnce(store.alerts)
  BY WorkFacts, StoreFields DEF savePaperSettings, Click
<1>2. PICK huge \in BOOLEAN : Keep([store EXCEPT !.huge = huge])
  BY DEF savePaperSettings
<1> DEFINE st == [store EXCEPT !.huge = huge]
<1>3. st \in StoreSet /\ st.shadow = store.shadow /\ st.alerts = store.alerts
  BY <1>1 DEF StoreSet
<1>4. Keep(st)
  BY <1>2
<1> HIDE DEF st
<1>5. TaskStep /\ store'.alerts = st.alerts
  BY <1>1, <1>3, <1>4, OneKeep
<1> QED
  BY <1>1, <1>3, <1>5 DEF PlainStep

LEMMA ExportFullSnapshotTask ==
  ASSUME WorkInv, exportFullSnapshot PROVE PlainStep /\ files' = files \cup {store}
<1>1. /\ page.up /\ UNCHANGED told /\ store \in StoreSet /\ IdsOnce(store.alerts) /\ Keep(store)
      /\ files' = files \cup {store}
  BY WorkFacts, StoreFields DEF exportFullSnapshot, Click
<1>2. TaskStep /\ store'.alerts = store.alerts
  BY <1>1, OneKeep
<1> QED
  BY <1>1, <1>2 DEF PlainStep

\* A ledger each record of which has gone forward, and with no new one.
Forward(a, b) == \A v : Went(a, b, v)

LEMMA EachForward ==
  ASSUME NEW s \in Int, NEW t \in Int, s <= t, NEW sh, LedgerAt(sh, s),
         NEW b \in [DOMAIN sh.records -> RecordSet],
         \A i \in DOMAIN sh.records : /\ RecordAt(b[i], t) /\ b[i].id = sh.records[i].id
                                      /\ Advanced(sh.records[i], b[i]),
         NEW q, q = [sh EXCEPT !.records = b]
  PROVE  /\ LedgerAt(q, t) /\ q.records = b /\ q.enabled = sh.enabled /\ q.startedAt = sh.startedAt
         /\ Forward(sh.records, q.records)
         /\ Len(b) = Len(sh.records) /\ DOMAIN b = DOMAIN sh.records
         /\ \A i \in DOMAIN q.records : Known(sh, q.records[i].id)
<1> DEFINE a == sh.records
           n == Len(a)
<1>0. sh \in ShadowSet /\ a \in Seq(RecordSet) /\ n \in Nat /\ DOMAIN a = 1..n /\ n <= MaxRecords
  BY RecordsSeq DEF LedgerAt
<1>1. b \in [1..n -> RecordSet]
  BY <1>0
<1>2. b \in Seq(RecordSet) /\ Len(b) = n /\ DOMAIN b = 1..n
  BY <1>0, <1>1
<1>3. /\ q \in ShadowSet /\ q.records = b /\ q.enabled = sh.enabled /\ q.startedAt = sh.startedAt
  BY <1>0, <1>2 DEF ShadowSet
<1>4. \A i \in 1..n : RecordAt(b[i], t) /\ b[i].id = a[i].id /\ Advanced(a[i], b[i])
  BY <1>0
<1>5. LedgerAt(q, t)
  <2>1. \A i, j \in 1..n : b[i].id = b[j].id => i = j
    BY <1>0, <1>4 DEF LedgerAt
  <2>2. q.enabled => q.startedAt \in 0..t
    BY <1>3 DEF LedgerAt
  <2> QED
    BY <1>0, <1>2, <1>3, <1>4, <2>1, <2>2 DEF LedgerAt
<1>6. Forward(a, b)
  <2> SUFFICES ASSUME NEW v PROVE Went(a, b, v)
    BY DEF Forward
  <2> HIDE DEF a, n
  <2>1. \A i \in (0 + 1)..Len(a) : Advanced(a[i], b[i - 0])
    <3> TAKE i \in (0 + 1)..Len(a)
    <3>1. i \in 1..n /\ i - 0 = i
      BY <1>0 DEF n
    <3> QED
      BY <1>4, <3>1
  <2>2. 0 \in 0..Len(a) /\ Len(b) >= Len(a) - 0 /\ (Len(a) - 0 + 1)..Len(b) = {}
    BY <1>0, <1>2 DEF n
  <2> QED
    BY <2>1, <2>2 DEF Went
<1>7. \A i \in 1..n : Known(sh, b[i].id)
  BY <1>0, <1>4 DEF Known
<1> QED
  BY <1>0, <1>2, <1>3, <1>5, <1>6, <1>7

LEMMA LabelledRecord ==
  ASSUME NEW r, NEW t, RecordAt(r, t), NEW label \in Labels, NEW q, q = [r EXCEPT !.label = label]
  PROVE  RecordAt(q, t) /\ q.id = r.id /\ Advanced(r, q)
<1>1. /\ r \in RecordSet /\ q \in RecordSet
      /\ <<q.id, q.level, q.confirmed, q.registered>> = <<r.id, r.level, r.confirmed, r.registered>>
      /\ <<q.status, q.filled, q.returned, q.armed, q.top, q.stop, q.exit>>
           = <<r.status, r.filled, r.returned, r.armed, r.top, r.stop, r.exit>>
      /\ q.label = label
  BY DEF RecordAt, RecordSet
<1>2. RecordAt(q, t)
  BY <1>1 DEF RecordAt, Followed
<1>3. Advanced(r, q)
  BY <1>1 DEF Advanced, RecordSet
<1> QED
  BY <1>1, <1>2, <1>3

LEMMA SameRecord == ASSUME NEW r, NEW t, RecordAt(r, t) PROVE Advanced(r, r)
BY DEF RecordAt, RecordSet, Advanced

LEMMA LabelTask == ASSUME WorkInv, labelRadarCandidate PROVE PlainStep
<1>1. /\ page.up /\ UNCHANGED told /\ page \in PageSet(now) /\ page.interval \in Intervals
      /\ now \in Int /\ store \in Stores(now) /\ store \in StoreSet /\ IdsOnce(store.alerts)
      /\ LedgerAt(store.shadow, now)
      /\ store.shadow.enabled => page.pack = "ready" /\ store.shadow.startedAt >= page.since
  BY WorkFacts, StoreFields DEF labelRadarCandidate, Click, WorkInv
<1>2. PICK c \in Visible, value \in Labels :
        Keep([store EXCEPT !.labels[<<c.id, page.interval>>] = value,
                           !.shadow = labelShadowCandidate(@, c.id, value)])
  BY DEF labelRadarCandidate
<1> DEFINE sh == store.shadow
           b  == [i \in DOMAIN sh.records |-> IF sh.records[i].id = c.id
                                                THEN [sh.records[i] EXCEPT !.label = value]
                                                ELSE sh.records[i]]
           q  == [sh EXCEPT !.records = b]
           labels == [store.labels EXCEPT ![<<c.id, page.interval>>] = value]
           st == [store EXCEPT !.labels = labels, !.shadow = q]
<1>3. Keep(st)
  <2>1. labelShadowCandidate(store.shadow, c.id, value) = q
    BY <1>1 DEF labelShadowCandidate, LedgerAt, ShadowSet
  <2>2. st = [store EXCEPT !.labels[<<c.id, page.interval>>] = value,
                           !.shadow = labelShadowCandidate(@, c.id, value)]
    BY <1>1, <2>1 DEF StoreSet
  <2> QED
    BY <1>2, <2>2
<1>4. labels \in LabelSet
  BY <1>1 DEF StoreSet, LabelSet
<1>5. \A i \in DOMAIN sh.records :
        b[i] \in RecordSet /\ RecordAt(b[i], now) /\ b[i].id = sh.records[i].id
        /\ Advanced(sh.records[i], b[i])
  <2> TAKE i \in DOMAIN sh.records
  <2>0. RecordAt(sh.records[i], now)
    BY <1>1 DEF LedgerAt
  <2>1. CASE sh.records[i].id = c.id
    <3>1. b[i] = [sh.records[i] EXCEPT !.label = value]
      BY <2>1
    <3> HIDE DEF b, sh
    <3>2. RecordAt(b[i], now) /\ b[i].id = sh.records[i].id /\ Advanced(sh.records[i], b[i])
      BY <2>0, <3>1, LabelledRecord
    <3> QED
      BY <3>2 DEF RecordAt
  <2>2. CASE sh.records[i].id # c.id
    <3>1. b[i] = sh.records[i]
      BY <2>2
    <3> HIDE DEF b, sh
    <3> QED
      BY <2>0, <3>1, SameRecord DEF RecordAt
  <2> QED
    BY <2>1, <2>2
<1>6. b \in [DOMAIN sh.records -> RecordSet]
  BY <1>5
<1>7. LedgerAt(sh, now) /\ q = [sh EXCEPT !.records = b]
  BY <1>1
<1> HIDE DEF sh, b, q, labels
<1>8. /\ LedgerAt(q, now) /\ q.enabled = sh.enabled /\ q.startedAt = sh.startedAt
      /\ Went(sh.records, q.records, now)
      /\ \A i \in DOMAIN q.records : Known(sh, q.records[i].id)
  <2>1. /\ LedgerAt(q, now) /\ q.enabled = sh.enabled /\ q.startedAt = sh.startedAt
        /\ Forward(sh.records, q.records)
        /\ \A i \in DOMAIN q.records : Known(sh, q.records[i].id)
    BY <1>1, <1>5, <1>6, <1>7, EachForward
  <2> QED
    BY <2>1 DEF Forward
<1>9. st \in Stores(now) /\ st.shadow = q /\ st.alerts = store.alerts
  BY <1>1, <1>4, <1>8 DEF Stores, StoreSet, LedgerAt
<1> HIDE DEF st
<1>10. Fits(st, page)
  BY <1>1, <1>8, <1>9 DEF Fits, Moves, sh
<1>11. Saves(<<st>>, st, page, [i \in Turns |-> page]) /\ [i \in Turns |-> page][1] = page
  BY <1>3 DEF Keep, Turns
<1> DEFINE broken == [i \in Turns |-> page]
<1> HIDE DEF broken
<1>12. TaskStep /\ store'.alerts = st.alerts
  BY <1>1, <1>10, <1>11, OneSave DEF broken
<1> QED
  BY <1>1, <1>9, <1>12 DEF PlainStep

\* A task after which only alerts can be armed that were there or are not told.
LiveStep ==
  TaskStep /\ told' \subseteq told /\ \A a \in store'.alerts : a \in store.alerts \/ a.id \notin told'

LEMMA PlainIsLive == ASSUME PlainStep PROVE LiveStep
BY DEF PlainStep, LiveStep

LEMMA KeepAlerts ==
  ASSUME WorkInv, page.up, NEW alerts \in SUBSET AlertSet, IdsOnce(alerts),
         Keep([store EXCEPT !.alerts = alerts])
  PROVE  TaskStep /\ store'.alerts = alerts
<1> DEFINE st == [store EXCEPT !.alerts = alerts]
<1>1. store \in StoreSet
  BY WorkFacts, StoreFields
<1>2. st \in StoreSet /\ st.shadow = store.shadow /\ st.alerts = alerts
  BY <1>1 DEF StoreSet
<1>3. Keep(st)
  OBVIOUS
<1> HIDE DEF st
<1>4. IdsOnce(st.alerts)
  BY <1>2
<1> QED
  BY <1>2, <1>3, <1>4, OneKeep

LEMMA CreateAlertTask == ASSUME WorkInv, createAlert PROVE LiveStep
<1>1. page.up /\ store \in StoreSet /\ store.alerts \in SUBSET AlertSet /\ IdsOnce(store.alerts)
  BY WorkFacts, StoreFields DEF createAlert, Click
<1>2. PICK id \in (1..MaxAlerts) \ {a.id : a \in store.alerts}, above \in BOOLEAN :
        /\ Keep([store EXCEPT !.alerts =
                   @ \cup {[id |-> id, above |-> above, price |-> AlertPrice, active |-> TRUE]}])
        /\ told' = told \ {id}
  BY DEF createAlert
<1> DEFINE new == [id |-> id, above |-> above, price |-> AlertPrice, active |-> TRUE]
           alerts == store.alerts \cup {new}
<1>3. Keep([store EXCEPT !.alerts = alerts])
  BY <1>1, <1>2 DEF StoreSet
<1>4. new \in AlertSet /\ new.id = id
  BY DEF AlertSet
<1> HIDE DEF new
<1>5. alerts \in SUBSET AlertSet
  BY <1>1, <1>4
<1>6. IdsOnce(alerts)
  BY <1>1, <1>2, <1>4 DEF IdsOnce
<1>7. TaskStep /\ store'.alerts = alerts
  BY <1>1, <1>3, <1>5, <1>6, KeepAlerts
<1> QED
  BY <1>2, <1>4, <1>7 DEF LiveStep

LEMMA ToggleAlertTask == ASSUME WorkInv, toggleAlert PROVE LiveStep
<1>1. page.up /\ store \in StoreSet /\ store.alerts \in SUBSET AlertSet /\ IdsOnce(store.alerts)
  BY WorkFacts, StoreFields DEF toggleAlert, Click
<1>2. PICK a \in store.alerts :
        /\ Keep([store EXCEPT !.alerts = (@ \ {a}) \cup {[a EXCEPT !.active = ~@]}])
        /\ told' = told \ {a.id}
  BY DEF toggleAlert
<1> DEFINE new == [a EXCEPT !.active = ~@]
           alerts == (store.alerts \ {a}) \cup {new}
<1>3. Keep([store EXCEPT !.alerts = alerts])
  BY <1>1, <1>2 DEF StoreSet
<1>4. new \in AlertSet /\ new.id = a.id
  BY <1>1 DEF AlertSet
<1> HIDE DEF new
<1>5. alerts \in SUBSET AlertSet
  BY <1>1, <1>4
<1>6. IdsOnce(alerts)
  BY <1>1, <1>4 DEF IdsOnce
<1>7. TaskStep /\ store'.alerts = alerts
  BY <1>1, <1>3, <1>5, <1>6, KeepAlerts
<1> QED
  BY <1>2, <1>4, <1>7 DEF LiveStep

LEMMA DeleteAlertTask == ASSUME WorkInv, deleteAlert PROVE LiveStep
<1>1. /\ page.up /\ UNCHANGED told
      /\ store \in StoreSet /\ store.alerts \in SUBSET AlertSet /\ IdsOnce(store.alerts)
  BY WorkFacts, StoreFields DEF deleteAlert, Click
<1>2. PICK a \in store.alerts : Keep([store EXCEPT !.alerts = @ \ {a}])
  BY DEF deleteAlert
<1> DEFINE alerts == store.alerts \ {a}
<1>3. Keep([store EXCEPT !.alerts = alerts])
  BY <1>1, <1>2 DEF StoreSet
<1>4. alerts \in SUBSET AlertSet /\ IdsOnce(alerts) /\ alerts \subseteq store.alerts
  BY <1>1 DEF IdsOnce
<1> HIDE DEF alerts
<1>5. TaskStep /\ store'.alerts = alerts
  BY <1>1, <1>3, <1>4, KeepAlerts
<1> QED
  BY <1>1, <1>4, <1>5 DEF LiveStep

\* The saves of a quote: the last one is of the store as it is left in memory, but for
\* what the shadow does not count as an event.
StepsEnd(steps, s1, s2, s3, observed) ==
  /\ steps \in Seq({s1, s2, s3}) /\ Len(steps) <= 3
  /\ steps = <<>> => s1 = store /\ s2 = s1 /\ ~observed
  /\ steps # <<>> /\ observed => Last(steps) = s3
  /\ steps # <<>> /\ ~observed => Last(steps) = s2

LEMMA QuoteStepsAre ==
  ASSUME NEW s1, NEW s2, NEW s3, NEW observed \in BOOLEAN, NEW steps,
         steps = QuoteSteps(s1, s2, s3, observed)
  PROVE  StepsEnd(steps, s1, s2, s3, observed)
<1> DEFINE S == {s1, s2, s3}
           one == When(s1 # store, s1)
           two == When(s2 # s1, s2)
           three == When(observed, s3)
<1>0. steps = (one \o two) \o three
  BY DEF QuoteSteps
<1>1. /\ s1 = store => one = <<>>
      /\ s1 # store => one = <<s1>>
  BY DEF When
<1>2. /\ s2 = s1 => two = <<>>
      /\ s2 # s1 => two = <<s2>>
  BY DEF When
<1>3. /\ ~observed => three = <<>>
      /\ observed => three = <<s3>>
  BY DEF When
<1> HIDE DEF one, two, three
<1>4. /\ s1 = store /\ s2 = s1 /\ ~observed => steps = <<>>
      /\ s1 = store /\ s2 = s1 /\ observed => steps = <<s3>>
      /\ s1 = store /\ s2 # s1 /\ ~observed => steps = <<s2>>
      /\ s1 = store /\ s2 # s1 /\ observed => steps = <<s2, s3>>
      /\ s1 # store /\ s2 = s1 /\ ~observed => steps = <<s1>>
      /\ s1 # store /\ s2 = s1 /\ observed => steps = <<s1, s3>>
      /\ s1 # store /\ s2 # s1 /\ ~observed => steps = <<s1, s2>>
      /\ s1 # store /\ s2 # s1 /\ observed => steps = <<s1, s2, s3>>
  <2>1. ASSUME s1 = store, s2 = s1, ~observed PROVE steps = <<>>
    BY <1>0, <1>1, <1>2, <1>3, <2>1, OneAfterOther, Zenon
  <2>2. ASSUME s1 = store, s2 = s1, observed PROVE steps = <<s3>>
    BY <1>0, <1>1, <1>2, <1>3, <2>2, OneAfterOther, Zenon
  <2>3. ASSUME s1 = store, s2 # s1, ~observed PROVE steps = <<s2>>
    BY <1>0, <1>1, <1>2, <1>3, <2>3, OneAfterOther, Zenon
  <2>4. ASSUME s1 = store, s2 # s1, observed PROVE steps = <<s2, s3>>
    BY <1>0, <1>1, <1>2, <1>3, <2>4, OneAfterOther, Zenon
  <2>5. ASSUME s1 # store, s2 = s1, ~observed PROVE steps = <<s1>>
    BY <1>0, <1>1, <1>2, <1>3, <2>5, OneAfterOther, Zenon
  <2>6. ASSUME s1 # store, s2 = s1, observed PROVE steps = <<s1, s3>>
    BY <1>0, <1>1, <1>2, <1>3, <2>6, OneAfterOther, Zenon
  <2>7. ASSUME s1 # store, s2 # s1, ~observed PROVE steps = <<s1, s2>>
    BY <1>0, <1>1, <1>2, <1>3, <2>7, OneAfterOther, Zenon
  <2>8. ASSUME s1 # store, s2 # s1, observed PROVE steps = <<s1, s2, s3>>
    BY <1>0, <1>1, <1>2, <1>3, <2>8, OneAfterOther, ZenonT(60)
  <2> QED
    BY <2>1, <2>2, <2>3, <2>4, <2>5, <2>6, <2>7, <2>8, Zenon
<1> DEFINE Ends(q, x) == q \in Seq(S) /\ Len(q) <= 3 /\ q # <<>> /\ Last(q) = x
<1>5. Ends(<<s1>>, s1) /\ Ends(<<s2>>, s2) /\ Ends(<<s3>>, s3)
  BY DEF Last
<1>6. Ends(<<s1, s2>>, s2) /\ Ends(<<s1, s3>>, s3) /\ Ends(<<s2, s3>>, s3)
  BY DEF Last
<1>7. Ends(<<s1, s2, s3>>, s3)
  BY DEF Last
<1>8. <<>> \in Seq(S) /\ Len(<<>>) <= 3
  OBVIOUS
<1> HIDE DEF S
<1>9. CASE observed
  <2>1. Ends(steps, s3)
    <3> HIDE DEF Ends
    <3> QED
      BY <1>4, <1>5, <1>6, <1>7, <1>9, Zenon
  <2>2. steps \in Seq(S) /\ Len(steps) <= 3 /\ steps # <<>> /\ Last(steps) = s3
    BY <2>1, Zenon
  <2> QED
    BY <1>9, <2>2, Zenon DEF S, StepsEnd
<1>10. CASE ~observed /\ s1 = store /\ s2 = s1
  <2>1. steps = <<>>
    BY <1>4, <1>10, Zenon
  <2> QED
    BY <1>8, <1>10, <2>1, Zenon DEF S, StepsEnd
<1>11. CASE ~observed /\ ~(s1 = store /\ s2 = s1)
  <2>1. Ends(steps, s2)
    <3>1. CASE s1 = store
      BY <1>4, <1>5, <1>11, <3>1, Zenon
    <3>2. CASE s1 # store /\ s2 = s1
      BY <1>4, <1>5, <1>11, <3>2, Zenon
    <3>3. CASE s1 # store /\ s2 # s1
      BY <1>4, <1>6, <1>11, <3>3, Zenon
    <3> QED
      BY <3>1, <3>2, <3>3
  <2>2. steps \in Seq(S) /\ Len(steps) <= 3 /\ steps # <<>> /\ Last(steps) = s2
    BY <2>1, Zenon
  <2> QED
    BY <1>11, <2>2, Zenon DEF S, StepsEnd
<1> QED
  BY <1>9, <1>10, <1>11, Zenon

\* What a quote makes of a ledger.
Quoted(sh, q, t) ==
  /\ q = [sh EXCEPT !.records = q.records] /\ DOMAIN q.records = DOMAIN sh.records
  /\ LedgerAt(q, t) /\ q.enabled = sh.enabled /\ q.startedAt = sh.startedAt
  /\ Forward(sh.records, q.records)
  /\ \A i \in DOMAIN q.records : Known(sh, q.records[i].id)
  /\ ~Important(sh, q) =>
       \A i \in DOMAIN q.records : Unarmed(q.records[i]) = Unarmed(sh.records[i])

LEMMA QuotedLedger ==
  ASSUME NEW s \in Nat, NEW t \in Nat, s <= t, NEW sh, LedgerAt(sh, s), NEW price \in Int,
         NEW q, q = processShadowBook(sh, price, price, t)
  PROVE  Quoted(sh, q, t)
<1> DEFINE a == sh.records
           b == [i \in DOMAIN a |-> IF sh.enabled THEN processShadowQuote(a[i], price, price, t)
                                                  ELSE a[i]]
<1>0. /\ sh \in ShadowSet /\ a \in Seq(RecordSet) /\ s \in Int /\ t \in Int
      /\ \A i \in DOMAIN a : RecordAt(a[i], s) /\ RecordAt(a[i], t)
  BY RecordLater DEF LedgerAt, ShadowSet
<1>1. q = [sh EXCEPT !.records = b]
  <2>1. CASE sh.enabled
    BY <1>0, <2>1 DEF processShadowBook, ShadowSet
  <2>2. CASE ~sh.enabled
    <3>1. b = a
      BY <1>0, <2>2, LenProperties
    <3> HIDE DEF b
    <3> QED
      BY <1>0, <2>2, <3>1 DEF processShadowBook, ShadowSet
  <2> QED
    BY <2>1, <2>2
<1>2. DOMAIN b = DOMAIN a
  OBVIOUS
<1>3. ASSUME NEW i \in DOMAIN a
      PROVE  /\ RecordAt(b[i], t) /\ b[i].id = a[i].id /\ Advanced(a[i], b[i])
             /\ ~Event(a[i], b[i]) => Unarmed(b[i]) = Unarmed(a[i])
             /\ b[i] \in RecordSet
  <2>0. RecordAt(a[i], t)
    BY <1>0
  <2>1. CASE sh.enabled
    <3>1. b[i] = processShadowQuote(a[i], price, price, t)
      BY <2>1
    <3> HIDE DEF a, b
    <3>2. /\ RecordAt(b[i], t) /\ SameButRun(a[i], b[i]) /\ Advanced(a[i], b[i])
          /\ ~Event(a[i], b[i]) => Unarmed(b[i]) = Unarmed(a[i])
      BY <2>0, <3>1, QuotedRecord
    <3> QED
      BY <3>2 DEF SameButRun
  <2>2. CASE ~sh.enabled
    <3>1. b[i] = a[i]
      BY <2>2
    <3> HIDE DEF a, b
    <3> QED
      BY <2>0, <3>1, SameRecord DEF RecordAt
  <2> QED
    BY <2>1, <2>2
<1>4. b \in [DOMAIN a -> RecordSet]
  BY <1>3
<1>5. \A i \in DOMAIN a : RecordAt(b[i], t) /\ b[i].id = a[i].id /\ Advanced(a[i], b[i])
  BY <1>3
<1>6. \A i \in DOMAIN a : ~Event(a[i], b[i]) => Unarmed(b[i]) = Unarmed(a[i])
  BY <1>3
<1> HIDE DEF b
<1>7. /\ LedgerAt(q, t) /\ q.records = b /\ q.enabled = sh.enabled /\ q.startedAt = sh.startedAt
      /\ Forward(sh.records, q.records)
      /\ \A i \in DOMAIN q.records : Known(sh, q.records[i].id)
  BY <1>0, <1>1, <1>4, <1>5, EachForward
<1>8. ASSUME ~Important(sh, q) PROVE \A i \in DOMAIN b : Unarmed(b[i]) = Unarmed(sh.records[i])
  BY <1>2, <1>6, <1>7, <1>8 DEF Important
<1> QED
  BY <1>1, <1>2, <1>7, <1>8 DEF Quoted

\* The same but for the progress of trails, once loaded.
SameSettled(a, b) == Settled(migrateStore(a)) = Settled(migrateStore(b))

LEMMA UneventfulSettled ==
  ASSUME NEW t \in Nat, NEW s2 \in Stores(t), NEW s3 \in Stores(t),
         s3 = [s2 EXCEPT !.shadow = s3.shadow],
         Quoted(s2.shadow, s3.shadow, t), ~Important(s2.shadow, s3.shadow)
  PROVE  SameSettled(s2, s3)
<1> DEFINE b == s3.shadow.records
<1>7. /\ s3 = [s2 EXCEPT !.shadow = [s2.shadow EXCEPT !.records = b]]
      /\ DOMAIN b = DOMAIN s2.shadow.records
      /\ \A i \in DOMAIN b : Unarmed(b[i]) = Unarmed(s2.shadow.records[i])
  BY DEF Quoted
<1> HIDE DEF b
<1> DEFINE x == [s2 EXCEPT !.radar = FALSE, !.shadow = [s2.shadow EXCEPT !.enabled = FALSE]]
           y == [s3 EXCEPT !.radar = FALSE, !.shadow = [s3.shadow EXCEPT !.enabled = FALSE]]
           c == [i \in DOMAIN b |-> Unarmed(b[i])]
           z == [x EXCEPT !.shadow = [x.shadow EXCEPT !.records = c]]
<1>0. s2 \in StoreSet /\ s3 \in StoreSet /\ s2.shadow \in ShadowSet /\ s3.shadow \in ShadowSet
  BY StoreFields
<1>1. migrateStore(s2) = x /\ migrateStore(s3) = y
  BY MigratedStore
<1>2. s3.shadow.records = b
  BY DEF b
<1>3. x.shadow.records = s2.shadow.records /\ y.shadow.records = b
  BY <1>0, <1>2 DEF StoreSet, ShadowSet
<1>4. Settled(x) = z
  <2>1. [i \in DOMAIN x.shadow.records |-> Unarmed(x.shadow.records[i])] = c
    <3> HIDE DEF x
    <3> QED
      BY <1>3, <1>7
  <2> HIDE DEF c
  <2> QED
    BY <1>0, <2>1 DEF Settled, StoreSet, ShadowSet
<1>5. Settled(y) = [y EXCEPT !.shadow = [y.shadow EXCEPT !.records = c]]
  <2>1. [i \in DOMAIN y.shadow.records |-> Unarmed(y.shadow.records[i])] = c
    <3> HIDE DEF y
    <3> QED
      BY <1>3, <1>7
  <2> HIDE DEF c
  <2> QED
    BY <1>0, <2>1 DEF Settled, StoreSet, ShadowSet
<1>6. z = [y EXCEPT !.shadow = [y.shadow EXCEPT !.records = c]]
  <2> HIDE DEF c
  <2> QED
    BY <1>0, <1>7, ZenonT(60) DEF StoreSet, ShadowSet
<1> HIDE DEF x, y, z
<1> QED
  BY <1>1, <1>4, <1>5, <1>6 DEF SameSettled

\* A quote, of a store and a page that may be.
QuoteStep ==
  /\ now' = now + 1 /\ now' \in 0..Horizon /\ now \in 0..now'
  /\ last' \in {market[k] : k \in DOMAIN market}
  /\ page \in PageSet(now) /\ page' \in PageSet(now') /\ page'.since = page.since /\ page'.pack = page.pack
  /\ store' \in Stores(now') /\ disk' \in Stores(now')
  /\ store'.shadow.enabled = store.shadow.enabled /\ store'.shadow.startedAt = store.shadow.startedAt
  /\ Went(store.shadow.records, store'.shadow.records, now)
  /\ \A i \in DOMAIN store'.shadow.records : Known(store.shadow, store'.shadow.records[i].id)
  /\ told' \subseteq told \cup {a.id : a \in store.alerts}
  /\ \A a \in store'.alerts : a.active => a \in store.alerts /\ (a.id \in told' => a.id \in told)
  /\ \/ page'.refused
     \/ disk'.alerts = store'.alerts /\ SameSettled(disk', store')
     \/ /\ disk' = disk /\ page'.refused = page.refused /\ told' = told
        /\ store'.alerts = store.alerts /\ SameSettled(store, store')

\* Alerts that are hit are put out.
LEMMA AlertsPutOut ==
  ASSUME NEW st \in StoreSet, IdsOnce(st.alerts), NEW hit \in SUBSET st.alerts,
         NEW alerts, alerts = (st.alerts \ hit) \cup {[a EXCEPT !.active = FALSE] : a \in hit}
  PROVE  /\ alerts \in SUBSET AlertSet /\ IdsOnce(alerts)
         /\ \A a \in alerts : a.active => a \in st.alerts /\ a.id \notin {x.id : x \in hit}
<1>1. st.alerts \in SUBSET AlertSet
  BY DEF StoreSet
<1>2. \A a \in hit : [a EXCEPT !.active = FALSE] \in AlertSet /\ [a EXCEPT !.active = FALSE].id = a.id
                     /\ ~[a EXCEPT !.active = FALSE].active
  BY <1>1 DEF AlertSet
<1>3. \A a \in alerts : \/ a \in st.alerts /\ a \notin hit
                        \/ \E x \in hit : a = [x EXCEPT !.active = FALSE]
  OBVIOUS
<1>4. alerts \in SUBSET AlertSet
  BY <1>1, <1>2, <1>3
<1>5. \A a \in alerts : a.active => a \in st.alerts /\ a.id \notin {x.id : x \in hit}
  BY <1>2, <1>3, ZenonT(60) DEF IdsOnce
<1>6. \A a \in alerts : \E x \in st.alerts :
        a.id = x.id /\ (IF x \in hit THEN a = [x EXCEPT !.active = FALSE] ELSE a = x)
  BY <1>2, <1>3
<1>7. IdsOnce(alerts)
  <2> SUFFICES ASSUME NEW a \in alerts, NEW b \in alerts, a.id = b.id PROVE a = b
    BY DEF IdsOnce
  <2>1. PICK x \in st.alerts : a.id = x.id /\ (IF x \in hit THEN a = [x EXCEPT !.active = FALSE] ELSE a = x)
    BY <1>6
  <2>2. PICK y \in st.alerts : b.id = y.id /\ (IF y \in hit THEN b = [y EXCEPT !.active = FALSE] ELSE b = y)
    BY <1>6
  <2>3. x = y
    BY <2>1, <2>2 DEF IdsOnce
  <2>4. IF x \in hit THEN b = [x EXCEPT !.active = FALSE] ELSE b = x
    BY <2>2, <2>3
  <2>5. CASE x \in hit
    <3>1. a = [x EXCEPT !.active = FALSE]
      BY <2>1, <2>5
    <3>2. b = [x EXCEPT !.active = FALSE]
      BY <2>4, <2>5
    <3> QED
      BY <3>1, <3>2, Zenon
  <2>6. CASE x \notin hit
    BY <2>1, <2>4, <2>6
  <2> QED
    BY <2>5, <2>6
<1> QED
  BY <1>4, <1>5, <1>7

\* A store that a quote at time u may save, or leave in memory.
QuoteFits(st, hit, u) ==
  /\ st \in Stores(u)
  /\ st.shadow.enabled = store.shadow.enabled /\ st.shadow.startedAt = store.shadow.startedAt
  /\ Went(store.shadow.records, st.shadow.records, now)
  /\ \A i \in DOMAIN st.shadow.records : Known(store.shadow, st.shadow.records[i].id)
  /\ \A a \in st.alerts : a.active => a \in store.alerts /\ a.id \notin {x.id : x \in hit}

\* The stores of a quote: alerts put out, then campaigns, then the shadow.
QuotedStores(s1, s2, s3, hit, l, price, u) ==
  /\ s1 = [store EXCEPT !.alerts = (@ \ hit) \cup {[a EXCEPT !.active = FALSE] : a \in hit}]
  /\ s2 = [s1 EXCEPT !.paper = l]
  /\ s3 = [s2 EXCEPT !.shadow = processShadowBook(@, price, price, u)]

StoresFit(s1, s2, s3, hit, u) ==
  /\ QuoteFits(s1, hit, u) /\ QuoteFits(s2, hit, u) /\ QuoteFits(s3, hit, u)
  /\ s2.alerts = s1.alerts /\ s3.alerts = s1.alerts
  /\ s3 = s2 \/ ~Important(s2.shadow, s3.shadow) => SameSettled(s2, s3)

LEMMA QuoteStores ==
  ASSUME WorkInv, NEW u \in Nat, u = now + 1, NEW price \in Int, NEW l \in 0..MaxLedger,
         NEW hit \in SUBSET store.alerts, NEW s1, NEW s2, NEW s3,
         QuotedStores(s1, s2, s3, hit, l, price, u)
  PROVE  StoresFit(s1, s2, s3, hit, u)
<1>16. /\ s1 = [store EXCEPT !.alerts = (@ \ hit) \cup {[a EXCEPT !.active = FALSE] : a \in hit}]
       /\ s2 = [s1 EXCEPT !.paper = l]
       /\ s3 = [s2 EXCEPT !.shadow = processShadowBook(@, price, price, u)]
  BY DEF QuotedStores
<1> DEFINE alerts == (store.alerts \ hit) \cup {[a EXCEPT !.active = FALSE] : a \in hit}
           sh == processShadowBook(store.shadow, price, price, u)
<1>0. /\ now \in Nat /\ now \in Int /\ u \in Int /\ now <= u
      /\ store \in Stores(now) /\ store \in StoreSet
      /\ LedgerAt(store.shadow, now) /\ LedgerAt(store.shadow, u) /\ IdsOnce(store.alerts)
  BY WorkFacts, StoreFields, LedgerLater
<1>1. /\ alerts \in SUBSET AlertSet /\ IdsOnce(alerts)
      /\ \A a \in alerts : a.active => a \in store.alerts /\ a.id \notin {x.id : x \in hit}
  BY <1>0, AlertsPutOut
<1>15. sh = processShadowBook(store.shadow, price, price, u)
  OBVIOUS
<1> HIDE DEF sh
<1>2. /\ Quoted(store.shadow, sh, u) /\ LedgerAt(sh, u)
      /\ sh.enabled = store.shadow.enabled /\ sh.startedAt = store.shadow.startedAt
      /\ Went(store.shadow.records, sh.records, now)
      /\ \A i \in DOMAIN sh.records : Known(store.shadow, sh.records[i].id)
  <2>1. Quoted(store.shadow, sh, u)
    BY <1>0, <1>15, QuotedLedger
  <2> QED
    BY <2>1 DEF Quoted, Forward
<1>3. s1 = [store EXCEPT !.alerts = alerts]
  BY <1>0, <1>16 DEF StoreSet
<1> HIDE DEF alerts
<1>4. s1 \in StoreSet /\ s1.shadow = store.shadow /\ s1.alerts = alerts
  BY <1>0, <1>1, <1>3 DEF StoreSet
<1>5. s2 \in StoreSet /\ s2.shadow = store.shadow /\ s2.alerts = alerts
  BY <1>4, <1>16 DEF StoreSet
<1>6. s3 = [s2 EXCEPT !.shadow = sh]
  BY <1>5, <1>15, <1>16 DEF StoreSet
<1>7. s3 \in StoreSet /\ s3.shadow = sh /\ s3.alerts = alerts
  BY <1>2, <1>5, <1>6 DEF StoreSet, LedgerAt
<1>8. s1 \in Stores(u) /\ s2 \in Stores(u) /\ s3 \in Stores(u)
  BY <1>0, <1>1, <1>2, <1>4, <1>5, <1>7 DEF Stores
<1>9. /\ Went(store.shadow.records, store.shadow.records, now)
      /\ \A i \in DOMAIN store.shadow.records : Known(store.shadow, store.shadow.records[i].id)
  BY <1>0, WentSelf DEF Known
<1>10. QuoteFits(s1, hit, u)
  BY <1>1, <1>4, <1>8, <1>9 DEF QuoteFits
<1>11. QuoteFits(s2, hit, u)
  BY <1>1, <1>5, <1>8, <1>9 DEF QuoteFits
<1>12. QuoteFits(s3, hit, u)
  BY <1>1, <1>2, <1>7, <1>8 DEF QuoteFits
<1>13. ASSUME ~Important(s2.shadow, s3.shadow) PROVE SameSettled(s2, s3)
  <2>1. Quoted(s2.shadow, s3.shadow, u)
    BY <1>2, <1>5, <1>7
  <2>2. s3 = [s2 EXCEPT !.shadow = s3.shadow]
    BY <1>6, <1>7
  <2> QED
    BY <1>8, <1>13, <2>1, <2>2, UneventfulSettled
<1>14. ASSUME s3 = s2 PROVE SameSettled(s2, s3)
  BY <1>14 DEF SameSettled
<1> QED
  BY <1>4, <1>5, <1>7, <1>10, <1>11, <1>12, <1>13, <1>14 DEF StoresFit

\* An alert that is hit was armed.
LEMMA HitOnes ==
  ASSUME NEW hit \in SUBSET store.alerts, \A a \in hit : a.active, store \in StoreSet,
         NEW s1, s1 = [store EXCEPT !.alerts = (@ \ hit) \cup {[a EXCEPT !.active = FALSE] : a \in hit}],
         s1 = store
  PROVE  hit = {}
<1>1. store.alerts = (store.alerts \ hit) \cup {[a EXCEPT !.active = FALSE] : a \in hit}
  BY DEF StoreSet
<1>2. \A a \in hit : a \in AlertSet
  BY DEF StoreSet
<1>3. ASSUME NEW a \in hit PROVE FALSE
  <2>1. PICK x \in hit : a = [x EXCEPT !.active = FALSE]
    BY <1>1
  <2>2. ~a.active
    BY <1>2, <2>1 DEF AlertSet
  <2> QED
    BY <2>2
<1> QED
  BY <1>3

LEMMA QuoteTask == ASSUME WorkInv, Quote PROVE QuoteStep
<1> DEFINE price == PriceAt(market, now')
           hit == Hit(price)
           s1  == [store EXCEPT !.alerts = (@ \ hit) \cup {[a EXCEPT !.active = FALSE] : a \in hit}]
           s2(l) == [s1 EXCEPT !.paper = l]
           s3(l) == [s2(l) EXCEPT !.shadow = processShadowBook(@, price, price, now')]
           observed(l, d) == s3(l) # s2(l) /\ (d \/ Important(s2(l).shadow, s3(l).shadow))
           steps(l, d) == QuoteSteps(s1, s2(l), s3(l), observed(l, d))
           base == Ticked(page, Carried)
           dirt(d) == [base EXCEPT !.dirty = d]
<1>1. /\ page.up /\ now < Horizon /\ now' = now + 1
  BY DEF Quote
<1>2. PICK l \in {store.paper, store.paper + 1}, due \in BOOLEAN :
        /\ l <= MaxLedger /\ last' = price /\ told' = told \cup {a.id : a \in hit}
        /\ Saves(steps(l, due), s3(l),
                 dirt(IF observed(l, due) THEN FALSE ELSE page.dirty \/ s3(l) # s2(l)),
                 [i \in Turns |-> dirt(page.dirty \/ (observed(l, due) /\ i = Len(steps(l, due))))])
  BY DEF Quote, PutOut
<1> DEFINE u == now'
           t2 == s2(l)
           t3 == s3(l)
           obs == observed(l, due)
           todo == steps(l, due)
           done == dirt(IF obs THEN FALSE ELSE page.dirty \/ t3 # t2)
           broken == [i \in Turns |-> dirt(page.dirty \/ (obs /\ i = Len(todo)))]
<1>3. /\ l \in {store.paper, store.paper + 1} /\ l <= MaxLedger
      /\ last' = price /\ told' = told \cup {a.id : a \in hit} /\ u = now + 1
      /\ Saves(todo, t3, done, broken)
      /\ s1 = [store EXCEPT !.alerts = (@ \ hit) \cup {[a EXCEPT !.active = FALSE] : a \in hit}]
      /\ t2 = [s1 EXCEPT !.paper = l]
      /\ t3 = [t2 EXCEPT !.shadow = processShadowBook(@, price, price, u)]
      /\ todo = QuoteSteps(s1, t2, t3, obs) /\ obs \in BOOLEAN
      /\ ~obs => t3 = t2 \/ ~Important(t2.shadow, t3.shadow)
      /\ price = PriceAt(market, u)
  BY <1>1, <1>2
<1>4. hit \in SUBSET store.alerts /\ \A a \in hit : a.active
  BY DEF Hit
<1>5. /\ \E d \in BOOLEAN : done = dirt(d)
      /\ \A i \in Turns : \E d \in BOOLEAN : broken[i] = dirt(d)
  <2>1. page.dirty \in BOOLEAN
    BY <1>1, WorkFacts DEF PageSet
  <2> HIDE DEF obs, todo, t2, t3, dirt
  <2> QED
    BY <2>1
<1> HIDE DEF price, hit, s1, t2, t3, obs, todo, done, broken, u, s2, s3, observed, steps, base
<1>6. /\ now \in Nat /\ now \in Int /\ u \in Nat /\ u \in Int /\ now <= u /\ u \in 0..Horizon
      /\ now \in 0..u
      /\ page \in PageSet(now) /\ store \in Stores(now) /\ disk \in Stores(now) /\ store \in StoreSet
      /\ disk \in Stores(u) /\ store.paper \in 0..MaxLedger
      /\ market \in Tapes
  <2>1. /\ now \in Nat /\ now \in Int /\ page \in PageSet(now) /\ store \in Stores(now) /\ disk \in Stores(now)
        /\ store \in StoreSet /\ store.paper \in 0..MaxLedger /\ market \in Tapes
    BY <1>1, WorkFacts, StoreFields DEF WorkInv
  <2>2. u \in Nat /\ u \in Int /\ now <= u /\ u \in 0..Horizon /\ now \in 0..u
    BY <1>1, <2>1, <1>3, WorkspaceAssumption
  <2> QED
    BY <2>1, <2>2, StoresLater
<1>7. price \in Int /\ price \in {market[k] : k \in DOMAIN market}
  <2>1. u + Past + 1 \in 1..(Past + Horizon + 1) /\ market \in [1..(Past + Horizon + 1) -> Int]
    BY <1>6, RadarAssumption, WorkspaceAssumption
  <2> QED
    BY <1>3, <2>1 DEF PriceAt
<1>8. l \in 0..MaxLedger
  BY <1>3, <1>6, WorkspaceAssumption
<1>9. /\ QuoteFits(s1, hit, u) /\ QuoteFits(t2, hit, u) /\ QuoteFits(t3, hit, u)
      /\ t2.alerts = s1.alerts /\ t3.alerts = s1.alerts
      /\ t3 = t2 \/ ~Important(t2.shadow, t3.shadow) => SameSettled(t2, t3)
  <2>1. u \in Nat /\ u = now + 1 /\ price \in Int /\ l \in 0..MaxLedger /\ hit \in SUBSET store.alerts
    BY <1>3, <1>4, <1>6, <1>7, <1>8
  <2>2. QuotedStores(s1, t2, t3, hit, l, price, u)
    BY <1>3 DEF QuotedStores
  <2>3. StoresFit(s1, t2, t3, hit, u)
    BY <2>1, <2>2, QuoteStores
  <2> QED
    BY <2>3 DEF StoresFit
<1> DEFINE G == {s1, t2, t3}
<1>10. /\ todo \in Seq(G) /\ Len(todo) <= 3
       /\ todo = <<>> => s1 = store /\ t2 = s1 /\ ~obs
       /\ todo # <<>> /\ obs => Last(todo) = t3
       /\ todo # <<>> /\ ~obs => Last(todo) = t2
  <2>1. todo = QuoteSteps(s1, t2, t3, obs) /\ obs \in BOOLEAN
    BY <1>3
  <2>2. StepsEnd(todo, s1, t2, t3, obs)
    BY <2>1, QuoteStepsAre, Zenon
  <2> QED
    BY <2>2, Zenon DEF StepsEnd
<1>11. ASSUME NEW d \in BOOLEAN, NEW p, p = dirt(d) \/ p = [dirt(d) EXCEPT !.refused = FALSE]
                                        \/ p = [dirt(d) EXCEPT !.refused = TRUE]
       PROVE  /\ p \in PageSet(u) /\ p.since = page.since /\ p.pack = page.pack
              /\ p = dirt(d) => p.refused = page.refused
              /\ p = [dirt(d) EXCEPT !.refused = TRUE] => p.refused
  <2>0. /\ base \in PageSet(now) /\ base.since = page.since /\ base.pack = page.pack
        /\ base.refused = page.refused
    BY <1>1, <1>6, TickedPage, WorkFacts DEF base, SameButCharts
  <2>1. p \in PageSet(now) /\ p.since = page.since /\ p.pack = page.pack
        /\ (p = dirt(d) => p.refused = page.refused)
        /\ (p = [dirt(d) EXCEPT !.refused = TRUE] => p.refused)
    BY <1>11, <2>0 DEF PageSet
  <2>2. PageSet(now) \subseteq PageSet(u)
    BY <1>6, PagesLater
  <2> QED
    BY <2>1, <2>2
<1> HIDE DEF dirt
<1>12. ASSUME NEW st, QuoteFits(st, hit, u), store' = st
       PROVE  /\ store' \in Stores(u)
              /\ store'.shadow.enabled = store.shadow.enabled
              /\ store'.shadow.startedAt = store.shadow.startedAt
              /\ Went(store.shadow.records, store'.shadow.records, now)
              /\ \A i \in DOMAIN store'.shadow.records : Known(store.shadow, store'.shadow.records[i].id)
              /\ \A a \in store'.alerts : a.active => a \in store.alerts /\ (a.id \in told' => a.id \in told)
  BY <1>3, <1>12 DEF QuoteFits
<1>13. \A st \in G : QuoteFits(st, hit, u) /\ st \in Stores(u)
  BY <1>9 DEF QuoteFits
<1>14. told' \subseteq told \cup {a.id : a \in store.alerts}
  BY <1>3, <1>4
<1> DEFINE Kept == \/ page'.refused
                   \/ disk'.alerts = store'.alerts /\ SameSettled(disk', store')
                   \/ /\ disk' = disk /\ page'.refused = page.refused /\ told' = told
                      /\ store'.alerts = store.alerts /\ SameSettled(store, store')
           Paged == page' \in PageSet(u) /\ page'.since = page.since /\ page'.pack = page.pack
           Good == Paged /\ Kept /\ disk' \in Stores(u) /\ store' \in G
<1>15. ASSUME todo = <<>>, store' = t3, disk' = disk, page' = done PROVE Good
  <2>1. s1 = store /\ t2 = s1 /\ ~obs
    BY <1>10, <1>15
  <2>2. SameSettled(store, store')
    BY <1>3, <1>9, <1>15, <2>1
  <2>3. store'.alerts = store.alerts
    BY <1>9, <1>15, <2>1
  <2>4. hit = {}
    BY <1>3, <1>4, <1>6, <2>1, HitOnes
  <2>5. told' = told
    BY <1>3, <2>4
  <2>6. Paged /\ page'.refused = page.refused
    BY <1>5, <1>11, <1>15
  <2>7. Kept
    BY <1>15, <2>2, <2>3, <2>5, <2>6
  <2> QED
    BY <1>6, <1>15, <2>6, <2>7
<1>16. ASSUME todo # <<>>, store' = t3, page' = [done EXCEPT !.refused = FALSE],
              disk' = Last(todo), Last(todo) \in G
       PROVE  Good
  <2>1. Paged
    BY <1>5, <1>11, <1>16
  <2>2. disk' \in Stores(u) /\ disk'.alerts = store'.alerts
    BY <1>9, <1>13, <1>16
  <2>3. SameSettled(disk', store')
    <3>1. CASE obs
      BY <1>10, <1>16, <3>1 DEF SameSettled
    <3>2. CASE ~obs
      BY <1>3, <1>9, <1>10, <1>16, <3>2
    <3> QED
      BY <3>1, <3>2
  <2> QED
    BY <1>16, <2>1, <2>2, <2>3
<1>17. ASSUME NEW i \in 1..Len(todo), store' = todo[i], todo[i] \in G,
              page' = [broken[i] EXCEPT !.refused = TRUE], disk' = disk \/ disk' \in G
       PROVE  Good
  <2>1. i \in Turns
    BY <1>10, LenProperties DEF Turns
  <2>2. Paged /\ page'.refused
    BY <1>5, <1>11, <1>17, <2>1
  <2>3. disk' \in Stores(u)
    BY <1>6, <1>13, <1>17
  <2> QED
    BY <1>17, <2>2, <2>3
<1> HIDE DEF G, Kept, Paged
<1>18. Good
  <2>1. Saves(todo, t3, done, broken) /\ todo \in Seq(G)
    BY <1>3, <1>10
  <2>2. \/ todo = <<>> /\ store' = t3 /\ disk' = disk /\ page' = done
        \/ /\ todo # <<>> /\ store' = t3 /\ page' = [done EXCEPT !.refused = FALSE]
           /\ disk' = Last(todo) /\ Last(todo) \in G
        \/ \E i \in 1..Len(todo) :
              /\ store' = todo[i] /\ todo[i] \in G /\ page' = [broken[i] EXCEPT !.refused = TRUE]
              /\ disk' = disk \/ disk' \in G
    BY <2>1, SavesIs
  <2> HIDE DEF Good
  <2> QED
    BY <1>15, <1>16, <1>17, <2>2
<1>19. PICK st \in G : store' = st
  BY <1>18
<1>20. last' \in {market[k] : k \in DOMAIN market}
  BY <1>3, <1>7
<1> QED
  BY <1>3, <1>6, <1>12, <1>13, <1>14, <1>18, <1>19, <1>20 DEF QuoteStep, u, Kept, Paged

\* So is one that ends with the announcement.
LEMMA ThrowTask == ASSUME WorkInv, NotificationThrows PROVE QuoteStep
<1> DEFINE u == now'
           price == PriceAt(market, u)
           base == Ticked(page, Carried)
<1>1. /\ page.up /\ now < Horizon /\ u = now + 1 /\ disk' = disk /\ last' = price
      /\ page' = [base EXCEPT !.refused = TRUE]
  BY DEF NotificationThrows
<1>2. PICK some \in SUBSET Hit(price) : store' = PutOut(some) /\ told' = told \cup {a.id : a \in some}
  BY DEF NotificationThrows
<1>3. some \in SUBSET store.alerts
  BY DEF Hit
<1> HIDE DEF u, price
<1>4. /\ now \in Nat /\ now \in Int /\ now \in 0..Horizon /\ u \in Nat /\ u \in Int /\ now <= u
      /\ u \in 0..Horizon /\ now \in 0..u /\ market \in Tapes /\ page \in PageSet(now)
      /\ disk \in Stores(now) /\ store.paper \in 0..MaxLedger
  <2>1. /\ now \in Nat /\ now \in Int /\ now \in 0..Horizon /\ page \in PageSet(now)
        /\ disk \in Stores(now) /\ store.paper \in 0..MaxLedger /\ market \in Tapes
    BY <1>1, WorkFacts, StoreFields DEF WorkInv
  <2>2. u \in Nat /\ u \in Int /\ now <= u /\ u \in 0..Horizon /\ now \in 0..u
    BY <1>1, <2>1, WorkspaceAssumption
  <2> QED
    BY <2>1, <2>2
<1>5. price \in Int /\ price \in {market[k] : k \in DOMAIN market}
  <2>1. u + Past + 1 \in 1..(Past + Horizon + 1) /\ market \in [1..(Past + Horizon + 1) -> Int]
    BY <1>4, RadarAssumption, WorkspaceAssumption
  <2> QED
    BY <2>1 DEF PriceAt, price
<1>6. QuoteFits(store', some, u)
  <2> DEFINE s1 == store'
             s2 == [s1 EXCEPT !.paper = store.paper]
             s3 == [s2 EXCEPT !.shadow = processShadowBook(@, price, price, u)]
  <2>1. QuotedStores(s1, s2, s3, some, store.paper, price, u)
    BY <1>2 DEF QuotedStores, PutOut
  <2> HIDE DEF s1, s2, s3
  <2>2. StoresFit(s1, s2, s3, some, u)
    BY <1>1, <1>3, <1>4, <1>5, <2>1, QuoteStores
  <2> QED
    BY <2>2 DEF StoresFit, s1
<1>7. page' \in PageSet(u) /\ page'.since = page.since /\ page'.pack = page.pack /\ page'.refused
  <2>1. base \in PageSet(now) /\ base.since = page.since /\ base.pack = page.pack
    BY <1>1, <1>4, TickedPage DEF SameButCharts
  <2> HIDE DEF base
  <2>2. page' \in PageSet(now) /\ page'.since = page.since /\ page'.pack = page.pack /\ page'.refused
    BY <1>1, <2>1 DEF PageSet
  <2> QED
    BY <1>4, <2>2, PagesLater
<1>8. disk' \in Stores(u)
  BY <1>1, <1>4, StoresLater
<1>9. told' \subseteq told \cup {a.id : a \in store.alerts}
  BY <1>2, <1>3
<1>10. /\ store' \in Stores(u)
       /\ store'.shadow.enabled = store.shadow.enabled
       /\ store'.shadow.startedAt = store.shadow.startedAt
       /\ Went(store.shadow.records, store'.shadow.records, now)
       /\ \A i \in DOMAIN store'.shadow.records : Known(store.shadow, store'.shadow.records[i].id)
       /\ \A a \in store'.alerts : a.active => a \in store.alerts /\ (a.id \in told' => a.id \in told)
  BY <1>2, <1>6 DEF QuoteFits
<1> QED
  BY <1>1, <1>4, <1>5, <1>7, <1>8, <1>9, <1>10 DEF QuoteStep, u

------------------------------------------------------------------------------
(* Every step                                                               *)

\* The tasks of a living page that leave it up and its store the same or a later one.
LiveTask ==
  \/ ScanRadar \/ toggleRadar \/ ShadowOn \/ ShadowOff
  \/ \E answer \in Answers : PackArrives(answer)
  \/ changeInterval \/ labelRadarCandidate \/ SaveDirty
  \/ createAlert \/ toggleAlert \/ deleteAlert \/ savePaperSettings
  \/ exportFullSnapshot

LEMMA LiveTaskStep == ASSUME WorkInv, LiveTask PROVE LiveStep
<1>1. CASE ScanRadar
  BY <1>1, ScanRadarTask, PlainIsLive
<1>2. CASE toggleRadar
  BY <1>2, ToggleRadarTask, PlainIsLive
<1>3. CASE ShadowOn
  BY <1>3, ShadowOnTask, PlainIsLive
<1>4. CASE ShadowOff
  BY <1>4, ShadowOffTask, PlainIsLive
<1>5. CASE \E answer \in Answers : PackArrives(answer)
  BY <1>5, PackArrivesTask, PlainIsLive
<1>6. CASE changeInterval
  BY <1>6, ChangeIntervalTask, PlainIsLive
<1>7. CASE labelRadarCandidate
  BY <1>7, LabelTask, PlainIsLive
<1>8. CASE SaveDirty
  BY <1>8, SaveDirtyTask, PlainIsLive
<1>9. CASE createAlert
  BY <1>9, CreateAlertTask
<1>10. CASE toggleAlert
  BY <1>10, ToggleAlertTask
<1>11. CASE deleteAlert
  BY <1>11, DeleteAlertTask
<1>12. CASE savePaperSettings
  BY <1>12, SavePaperSettingsTask, PlainIsLive
<1>13. CASE exportFullSnapshot
  BY <1>13, ExportFullSnapshotTask, PlainIsLive
<1> QED
  BY <1>1, <1>2, <1>3, <1>4, <1>5, <1>6, <1>7, <1>8, <1>9, <1>10, <1>11, <1>12, <1>13 DEF LiveTask

LEMMA LiveTaskFrame ==
  ASSUME LiveTask
  PROVE  /\ UNCHANGED <<now, last, market, backup, layouts>>
         /\ files' = files \/ files' = files \cup {store}
<1>1. CASE ScanRadar \/ toggleRadar \/ ShadowOn \/ ShadowOff
  BY <1>1 DEF ScanRadar, toggleRadar, ShadowOn, ShadowOff, keeps
<1>2. CASE \E answer \in Answers : PackArrives(answer)
  BY <1>2 DEF PackArrives, keeps
<1>3. CASE changeInterval \/ labelRadarCandidate \/ SaveDirty \/ savePaperSettings
  BY <1>3 DEF changeInterval, labelRadarCandidate, SaveDirty, savePaperSettings, keeps
<1>4. CASE createAlert \/ toggleAlert \/ deleteAlert
  BY <1>4 DEF createAlert, toggleAlert, deleteAlert, keeps
<1>5. CASE exportFullSnapshot
  BY <1>5 DEF exportFullSnapshot
<1> QED
  BY <1>1, <1>2, <1>3, <1>4, <1>5 DEF LiveTask

LEMMA LiveTaskInv == ASSUME WorkInv, LiveTask PROVE WorkInv'
<1>1. LiveStep
  BY LiveTaskStep
<1>2. /\ now' = now /\ last' = last /\ market' = market /\ backup' = backup /\ layouts' = layouts
      /\ files' = files \/ files' = files \cup {store}
  BY LiveTaskFrame
<1>3. /\ page' \in PageSet(now) /\ store' \in Stores(now) /\ disk' \in Stores(now)
      /\ store'.shadow.enabled => page'.pack = "ready" /\ store'.shadow.startedAt >= page'.since
      /\ told' \subseteq told
  BY <1>1 DEF LiveStep, TaskStep, Fits, Moves
<1>4. files' \subseteq Stores(now)
  BY <1>2 DEF WorkInv
<1> QED
  BY <1>2, <1>3, <1>4 DEF WorkInv

LEMMA QuoteInv == ASSUME WorkInv, Quote \/ NotificationThrows PROVE WorkInv'
<1>1. QuoteStep
  BY QuoteTask, ThrowTask
<1>2. UNCHANGED <<market, backup, files, layouts>>
  BY DEF Quote, NotificationThrows, keeps
<1> DEFINE u == now'
<1>3. /\ u \in 0..Horizon /\ u \in Int /\ now \in Int /\ now <= u
      /\ last' \in {market[k] : k \in DOMAIN market}
      /\ page \in PageSet(now) /\ page' \in PageSet(u) /\ page'.since = page.since /\ page'.pack = page.pack
      /\ store' \in Stores(u) /\ disk' \in Stores(u)
      /\ store'.shadow.enabled = store.shadow.enabled /\ store'.shadow.startedAt = store.shadow.startedAt
      /\ told' \subseteq told \cup {a.id : a \in store.alerts}
  BY <1>1, WorkFacts DEF QuoteStep
<1> HIDE DEF u
<1>4. Stores(now) \subseteq Stores(u)
  BY <1>3, StoresLater
<1>5. told' \subseteq 1..MaxAlerts
  <2>1. \A a \in store.alerts : a.id \in 1..MaxAlerts
    BY WorkFacts, StoreFields DEF AlertSet
  <2> QED
    BY <1>3, <2>1 DEF WorkInv
<1>6. store'.shadow.enabled => page'.pack = "ready" /\ store'.shadow.startedAt >= page'.since
  BY <1>3 DEF WorkInv, PageSet
<1>7. files' \subseteq Stores(u) /\ backup' \in Stores(u) \cup {None} /\ layouts' \subseteq LayoutSet
      /\ market' \in Tapes
  BY <1>2, <1>4 DEF WorkInv
<1>8. last' \in {market'[k] : k \in DOMAIN market'} \cup {Never}
  BY <1>2, <1>3
<1> QED
  BY <1>2, <1>3, <1>5, <1>6, <1>7, <1>8 DEF WorkInv, u

\* Without a quote the charts of a page may change, and nothing else of it.
LEMMA UnseenIs ==
  ASSUME WorkInv, Unseen
  PROVE  /\ now < Horizon /\ now' = now + 1 /\ last' \in {PriceAt(market, now'), last}
         /\ UNCHANGED <<market, store, disk, backup, files, layouts, told>>
         /\ \/ page' = page
            \/ page.up /\ page \in PageSet(now) /\ page' \in PageSet(now) /\ SameButCharts(page, page')
<1>1. /\ now < Horizon /\ now' = now + 1 /\ last' \in {PriceAt(market, now'), last}
      /\ UNCHANGED <<market, store, disk, backup, files, layouts, told>>
      /\ page' = page \/ (page.up /\ \E got \in {{}, Carried} : page' = Ticked(page, got))
  BY DEF Unseen, keeps
<1>2. ASSUME page.up, NEW got, page' = Ticked(page, got)
      PROVE  page \in PageSet(now) /\ page' \in PageSet(now) /\ SameButCharts(page, page')
  BY <1>1, <1>2, WorkFacts, TickedPage
<1> QED
  BY <1>1, <1>2

LEMMA UnseenInv == ASSUME WorkInv, Unseen PROVE WorkInv'
<1> DEFINE u == now'
<1>1. /\ now < Horizon /\ u = now + 1 /\ last' \in {PriceAt(market, u), last}
      /\ UNCHANGED <<market, store, disk, backup, files, layouts, told>>
  BY UnseenIs
<1>9. \/ page' = page
      \/ page.up /\ page' \in PageSet(now) /\ page'.since = page.since /\ page'.pack = page.pack
  BY UnseenIs DEF SameButCharts
<1> HIDE DEF u
<1>2. u \in 0..Horizon /\ u \in Int /\ now \in Int /\ now <= u /\ market \in Tapes
  BY <1>1, WorkFacts, WorkspaceAssumption DEF WorkInv
<1>3. Stores(now) \subseteq Stores(u) /\ PageSet(now) \subseteq PageSet(u)
  BY <1>2, StoresLater, PagesLater
<1>4. PriceAt(market, u) \in {market[k] : k \in DOMAIN market}
  <2>1. u + Past + 1 \in 1..(Past + Horizon + 1) /\ market \in [1..(Past + Horizon + 1) -> Int]
    BY <1>2, RadarAssumption, WorkspaceAssumption
  <2> QED
    BY <2>1 DEF PriceAt
<1>5. last' \in {market'[k] : k \in DOMAIN market'} \cup {Never}
  BY <1>1, <1>4 DEF WorkInv
<1>6. /\ store' \in Stores(u) /\ disk' \in Stores(u) /\ files' \subseteq Stores(u)
      /\ backup' \in Stores(u) \cup {None}
      /\ page' = Down \/ page' \in PageSet(u)
  BY <1>1, <1>3, <1>9 DEF WorkInv
<1>7. /\ market' \in Tapes /\ layouts' \subseteq LayoutSet /\ told' \subseteq 1..MaxAlerts
      /\ page'.up /\ store'.shadow.enabled =>
           page'.pack = "ready" /\ store'.shadow.startedAt >= page'.since
  BY <1>1, <1>9 DEF WorkInv
<1> QED
  BY <1>1, <1>2, <1>5, <1>6, <1>7 DEF WorkInv, u

\* What leaves the store and the disk alone.
LEMMA SameStoreInv ==
  ASSUME WorkInv, page.up, UNCHANGED <<now, last, market, store, disk, backup, files, told>>,
         layouts' \subseteq LayoutSet, page' \in PageSet(now), page'.since = page.since,
         page'.pack = page.pack \/ page.pack # "ready"
  PROVE  WorkInv'
<1>1. page'.up
  BY DEF PageSet
<1>2. store.shadow.enabled => page.pack = "ready" /\ store.shadow.startedAt >= page.since
  BY DEF WorkInv
<1>3. store'.shadow.enabled => page'.pack = "ready" /\ store'.shadow.startedAt >= page'.since
  BY <1>2
<1> QED
  BY <1>1, <1>3 DEF WorkInv

LEMMA PackFailsInv == ASSUME WorkInv, NEW answer \in Answers, PackFails(answer) PROVE WorkInv'
<1>1. /\ page.up /\ page.pack = "loading"
      /\ page' = [page EXCEPT !.pack = "none", !.enabling = FALSE, !.checked = FALSE]
      /\ UNCHANGED <<now, last, market, store, disk, backup, files, layouts, told>>
  BY DEF PackFails, keeps
<1>2. page \in PageSet(now)
  BY <1>1, WorkFacts
<1>3. page' \in PageSet(now) /\ page'.since = page.since
  BY <1>1, <1>2 DEF PageSet
<1> QED
  BY <1>1, <1>3, SameStoreInv DEF WorkInv

LEMMA ReloadChartsIs ==
  ASSUME WorkInv, ReloadCharts
  PROVE  /\ page.up /\ UNCHANGED <<now, last, market, store, disk, backup, files, layouts, told>>
         /\ page' \in PageSet(now) /\ SameButCharts(page, page')
<1>1. page.up /\ UNCHANGED <<now, last, market, store, disk, backup, files, layouts, told>>
  BY DEF ReloadCharts, keeps
<1>2. PICK some \in SUBSET {Default, page.interval} :
        page' = [Loaded(page, some) EXCEPT !.carried = page.interval]
  BY DEF ReloadCharts
<1>3. page \in PageSet(now) /\ page.interval \in Intervals /\ Default \in Intervals
  BY <1>1, WorkFacts, WorkspaceAssumption
<1> DEFINE x == Loaded(page, some)
<1>4. x \in PageSet(now) /\ SameButCharts(page, x)
  BY <1>3, LoadedPage
<1> HIDE DEF x
<1>5. page' = [x EXCEPT !.carried = page.interval]
  BY <1>2 DEF x
<1> QED
  BY <1>1, <1>3, <1>4, <1>5 DEF PageSet, SameButCharts

LEMMA ReloadChartsInv == ASSUME WorkInv, ReloadCharts PROVE WorkInv'
BY ReloadChartsIs, SameStoreInv DEF WorkInv, SameButCharts

LEMMA PendingStore ==
  ASSUME WorkInv, NEW file \in files \cup {Garbage}
  PROVE  validateBackupSnapshot(file) \in Stores(now) \cup {None}
<1>1. CASE file = Garbage
  BY <1>1 DEF validateBackupSnapshot, auditJsonTree
<1>2. CASE file \in files
  BY <1>2, WorkFacts, MigratedStore DEF validateBackupSnapshot, WorkInv
<1> QED
  BY <1>1, <1>2

LEMMA PrepareRestoreInv == ASSUME WorkInv, prepareRestore PROVE WorkInv'
<1>1. /\ page.up /\ UNCHANGED <<now, last, market, store, disk, backup, files, layouts, told>>
  BY DEF prepareRestore, Click, keeps
<1>2. PICK file \in files \cup {Garbage} : page' = [page EXCEPT !.pending = validateBackupSnapshot(file)]
  BY DEF prepareRestore
<1>3. page \in PageSet(now) /\ validateBackupSnapshot(file) \in Stores(now) \cup {None}
  BY <1>1, WorkFacts, PendingStore
<1>4. page' \in PageSet(now) /\ page'.since = page.since /\ page'.pack = page.pack
  BY <1>2, <1>3 DEF PageSet
<1> QED
  BY <1>1, <1>4, SameStoreInv DEF WorkInv

LEMMA CloseRestoreInv == ASSUME WorkInv, closeRestore PROVE WorkInv'
<1>1. /\ page.up /\ page' = [page EXCEPT !.pending = None]
      /\ UNCHANGED <<now, last, market, store, disk, backup, files, layouts, told>>
  BY DEF closeRestore, keeps
<1>2. page \in PageSet(now)
  BY <1>1, WorkFacts
<1>3. page' \in PageSet(now) /\ page'.since = page.since /\ page'.pack = page.pack
  BY <1>1, <1>2 DEF PageSet
<1> QED
  BY <1>1, <1>3, SameStoreInv DEF WorkInv

LEMMA ExportWorkspaceInv == ASSUME WorkInv, exportWorkspace PROVE WorkInv'
<1> DEFINE ui == [interval |-> store.interval, alerts |-> store.alerts, radar |-> store.radar]
<1>1. /\ page.up /\ layouts' = layouts \cup {ui}
      /\ UNCHANGED <<now, last, market, store, disk, backup, files, page, told>>
  BY DEF exportWorkspace, Click
<1>2. ui \in LayoutSet
  BY WorkFacts, StoreFields DEF LayoutSet
<1> HIDE DEF ui
<1>3. page \in PageSet(now) /\ layouts' \subseteq LayoutSet
  BY <1>1, <1>2, WorkFacts DEF WorkInv
<1> QED
  BY <1>1, <1>3, SameStoreInv

\* The end of a restore.
LEMMA ConfirmRestoreIs ==
  ASSUME WorkInv, confirmRestore
  PROVE  /\ page.up /\ page \in PageSet(now) /\ UNCHANGED <<now, last, market, layouts>>
         /\ backup' \in {backup, store}
         /\ \/ UNCHANGED <<store, disk, files, page, told>>
            \/ /\ store' \in Stores(now) /\ ~store'.shadow.enabled /\ told' = {}
               /\ files' = files \cup {store}
               /\ \/ disk' = store' /\ page' = Down
                  \/ disk' = disk /\ page' \in PageSet(now) /\ page'.refused
<1>1. /\ page.up /\ page.pending # None /\ UNCHANGED <<now, last, market, layouts>>
  BY DEF confirmRestore
<1>2. page \in PageSet(now) /\ page.pending \in Stores(now) /\ now \in Nat
  BY <1>1, WorkFacts DEF PageSet
<1> DEFINE st == migrateStore(page.pending)
           p  == [page EXCEPT !.refused = TRUE]
<1>3. st \in Stores(now) /\ ~st.shadow.enabled
  BY <1>2, MigratedStore
<1>4. p \in PageSet(now) /\ p.refused
  BY <1>2 DEF PageSet
<1>5. /\ backup' \in {backup, store}
      /\ \/ UNCHANGED <<store, disk, files, page, told>>
         \/ /\ files' = files \cup {store} /\ told' = {} /\ store' = st
            /\ \/ disk' = st /\ page' = Down
               \/ disk' = disk /\ page' = p
  BY DEF confirmRestore
<1> HIDE DEF st, p
<1> QED
  BY <1>1, <1>2, <1>3, <1>4, <1>5

LEMMA ConfirmRestoreInv == ASSUME WorkInv, confirmRestore PROVE WorkInv'
<1>1. UNCHANGED <<now, last, market, layouts>> /\ backup' \in Stores(now) \cup {None}
  BY ConfirmRestoreIs DEF WorkInv
<1>2. CASE UNCHANGED <<store, disk, files, page, told>>
  BY <1>1, <1>2 DEF WorkInv
<1>3. ASSUME store' \in Stores(now), ~store'.shadow.enabled, told' = {},
             files' = files \cup {store},
             disk' = store' \/ disk' = disk, page' = Down \/ page' \in PageSet(now)
      PROVE  WorkInv'
  BY <1>1, <1>3 DEF WorkInv
<1> QED
  BY <1>2, <1>3, ConfirmRestoreIs

\* A layout comes in: the ledger stays, and the page goes on only if it is not written.
LEMMA ImportWorkspaceIs ==
  ASSUME WorkInv, importWorkspace
  PROVE  /\ page.up /\ page \in PageSet(now) /\ told' = {}
         /\ UNCHANGED <<now, last, market, backup, files, layouts>>
         /\ store' \in Stores(now) /\ store'.shadow = store.shadow
         /\ \/ page' = Down /\ disk' = store'
            \/ /\ page' \in PageSet(now) /\ page'.refused /\ disk' = disk
               /\ page'.since = page.since /\ page'.pack = page.pack
<1>1. /\ page.up /\ told' = {}
      /\ UNCHANGED <<now, last, market, backup, files, layouts>>
  BY DEF importWorkspace, Click, keeps
<1>2. PICK ui \in layouts :
        LET st == [store EXCEPT !.interval = ui.interval, !.alerts = ui.alerts, !.radar = ui.radar]
        IN  Saves(<<st>>, st, Down, [i \in Turns |-> page])
  BY DEF importWorkspace
<1> DEFINE st == [store EXCEPT !.interval = ui.interval, !.alerts = ui.alerts, !.radar = ui.radar]
           broken == [i \in Turns |-> page]
           steps == <<st>>
           p == [page EXCEPT !.refused = TRUE]
<1>3. Saves(steps, st, Down, broken) /\ broken[1] = page
  BY <1>2 DEF Turns
<1>4. page \in PageSet(now) /\ ui \in LayoutSet /\ store \in Stores(now) /\ store \in StoreSet
  BY <1>1, WorkFacts, StoreFields DEF WorkInv
<1>5. st \in StoreSet /\ st.shadow = store.shadow /\ IdsOnce(st.alerts)
  BY <1>4 DEF StoreSet, LayoutSet
<1> HIDE DEF st, broken
<1>6. st \in Stores(now)
  BY <1>4, <1>5, StoreWithRest
<1>7. p \in PageSet(now) /\ p.refused /\ p.since = page.since /\ p.pack = page.pack
  BY <1>4 DEF PageSet
<1>10. [Down EXCEPT !.refused = FALSE] = Down
  <2>1. \A f \in [up : {FALSE}, refused : {FALSE}] : [f EXCEPT !.refused = FALSE] = f
    OBVIOUS
  <2>2. Down \in [up : {FALSE}, refused : {FALSE}]
    BY DEF Down
  <2> QED
    BY <2>1, <2>2
<1>11. steps \in Seq(Stores(now)) /\ steps # <<>> /\ Len(steps) = 1 /\ steps[1] = st
  BY <1>6
<1>8. /\ steps \in Seq(Stores(now)) /\ steps # <<>> /\ Len(steps) = 1 /\ steps[1] = st
      /\ Last(steps) = st /\ [Down EXCEPT !.refused = FALSE] = Down
  BY <1>10, <1>11 DEF Last
<1> HIDE DEF steps
<1>9. \/ store' = st /\ page' = Down /\ disk' = st
      \/ store' = st /\ page' = p /\ disk' = disk
  <2>1. \/ steps = <<>> /\ store' = st /\ disk' = disk /\ page' = Down
        \/ /\ steps # <<>> /\ store' = st /\ page' = [Down EXCEPT !.refused = FALSE]
           /\ disk' = Last(steps) /\ Last(steps) \in Stores(now)
           /\ Len(steps) \in 1..Len(steps) /\ Last(steps) = steps[Len(steps)]
        \/ \E i \in 1..Len(steps) :
              /\ store' = steps[i] /\ steps[i] \in Stores(now) /\ page' = [broken[i] EXCEPT !.refused = TRUE]
              /\ disk' = disk \/ (i # 1 /\ i - 1 \in 1..Len(steps) /\ disk' = steps[i - 1] /\ disk' \in Stores(now))
    BY <1>3, <1>8, SavesIs
  <2>2. \A i \in 1..Len(steps) : i = 1
    BY <1>8
  <2> QED
    BY <1>3, <1>8, <2>1, <2>2
<1> HIDE DEF p
<1> QED
  BY <1>1, <1>4, <1>5, <1>6, <1>7, <1>9

LEMMA ImportWorkspaceInv == ASSUME WorkInv, importWorkspace PROVE WorkInv'
<1>1. /\ page.up /\ told' = {}
      /\ UNCHANGED <<now, last, market, backup, files, layouts>>
      /\ store' \in Stores(now) /\ store'.shadow = store.shadow
      /\ disk' \in Stores(now)
  BY ImportWorkspaceIs DEF WorkInv
<1>2. \/ page' = Down
      \/ page' \in PageSet(now) /\ page'.since = page.since /\ page'.pack = page.pack
  BY ImportWorkspaceIs
<1>3. page'.up /\ store'.shadow.enabled =>
        page'.pack = "ready" /\ store'.shadow.startedAt >= page'.since
  BY <1>1, <1>2 DEF Down, WorkInv
<1> QED
  BY <1>1, <1>2, <1>3 DEF WorkInv

LEMMA StartInv == ASSUME WorkInv, Start PROVE WorkInv'
<1>1. /\ page' = Fresh(loadStore.interval, now) /\ store' = loadStore /\ last' = Never
      /\ UNCHANGED <<now, market, disk, backup, files, layouts, told>>
  BY DEF Start, keeps
<1>2. /\ disk \in Stores(now) /\ now \in Nat /\ now \in 0..now
  BY WorkFacts DEF WorkInv
<1>3. loadStore \in Stores(now) /\ ~loadStore.shadow.enabled /\ loadStore.interval \in Intervals
  BY <1>2, MigratedStore, StoreFields DEF loadStore
<1>4. page' \in PageSet(now)
  BY <1>1, <1>2, <1>3, WorkspaceAssumption DEF Fresh, PageSet, Losses
<1> QED
  BY <1>1, <1>3, <1>4 DEF WorkInv

LEMMA KillInv == ASSUME WorkInv, Kill PROVE WorkInv'
<1>1. /\ page' = Down /\ store' = disk /\ last' = Never /\ told' \subseteq told
      /\ UNCHANGED <<now, market, disk, backup, files, layouts>>
  BY DEF Kill, keeps
<1> QED
  BY <1>1 DEF WorkInv, Down

LEMMA WorkStep == ASSUME WorkInv, [Next]_vars PROVE WorkInv'
<1>1. CASE LiveTask
  BY <1>1, LiveTaskInv
<1>2. CASE Quote \/ NotificationThrows
  BY <1>2, QuoteInv
<1>3. CASE Unseen
  BY <1>3, UnseenInv
<1>13. CASE ReloadCharts
  BY <1>13, ReloadChartsInv
<1>4. CASE \E answer \in Answers : PackFails(answer)
  BY <1>4, PackFailsInv
<1>5. CASE prepareRestore
  BY <1>5, PrepareRestoreInv
<1>6. CASE closeRestore
  BY <1>6, CloseRestoreInv
<1>7. CASE confirmRestore
  BY <1>7, ConfirmRestoreInv
<1>8. CASE exportWorkspace
  BY <1>8, ExportWorkspaceInv
<1>9. CASE importWorkspace
  BY <1>9, ImportWorkspaceInv
<1>10. CASE Start
  BY <1>10, StartInv
<1>11. CASE Kill
  BY <1>11, KillInv
<1>12. CASE UNCHANGED vars
  BY <1>12 DEF vars, keeps, WorkInv
<1> QED
  BY <1>1, <1>2, <1>3, <1>4, <1>5, <1>6, <1>7, <1>8, <1>9, <1>10, <1>11, <1>12, <1>13
  DEF Next, LiveTask

LEMMA EmptyStore == createDefaultStore \in Stores(0) /\ createDefaultStore.alerts = {}
<1> DEFINE sh == createShadowState
           labels == [i \in Ids \X Intervals |-> "none"]
           st == createDefaultStore
<1>1. sh = [enabled |-> FALSE, startedAt |-> -1, records |-> <<>>]
  BY DEF createShadowState, Never
<1>2. <<>> \in Seq(RecordSet) /\ Len(<<>>) = 0 /\ DOMAIN <<>> = {}
  OBVIOUS
<1>3. sh \in ShadowSet /\ sh.records = <<>> /\ sh.enabled = FALSE
  BY <1>1, <1>2 DEF ShadowSet
<1>4. LedgerAt(sh, 0)
  BY <1>2, <1>3, ShadowEngineAssumption DEF LedgerAt
<1>5. labels \in LabelSet
  BY DEF LabelSet
<1> HIDE DEF labels
<1>6. /\ st.shadow = sh /\ st.alerts = {}
      /\ st = [shadow |-> sh, interval |-> Default, radar |-> FALSE, alerts |-> {},
               labels |-> labels, paper |-> 0, huge |-> FALSE]
  BY DEF createDefaultStore, labels
<1> HIDE DEF sh, st
<1>7. st \in StoreSet
  BY <1>3, <1>5, <1>6, WorkspaceAssumption DEF StoreSet
<1>8. IdsOnce(st.alerts)
  BY <1>6 DEF IdsOnce
<1> QED
  BY <1>4, <1>6, <1>7, <1>8 DEF Stores, sh, st

LEMMA WorkInit == ASSUME Init PROVE WorkInv
<1>1. /\ now = 0 /\ last = Never /\ market \in Tapes /\ store = createDefaultStore
      /\ disk = createDefaultStore /\ backup = None /\ files = {} /\ layouts = {} /\ page = Down /\ told = {}
  BY DEF Init
<1>2. createDefaultStore \in Stores(now)
  BY <1>1, EmptyStore
<1> QED
  BY <1>1, <1>2, WorkspaceAssumption DEF WorkInv, Down

LEMMA StoreIsOK == ASSUME WorkInv, NEW st \in Stores(now) PROVE StoreOK(st)
<1>1. /\ LedgerAt(st.shadow, now) /\ st.alerts \in SUBSET AlertSet /\ IdsOnce(st.alerts)
      /\ st.paper \in 0..MaxLedger /\ st.huge \in BOOLEAN
  BY StoreFields
<1>2. \A i \in DOMAIN st.shadow.records : RecordOK(st.shadow.records[i])
  BY <1>1, RecordIsOK DEF LedgerAt
<1> QED
  BY <1>1, <1>2 DEF StoreOK, LedgerAt, IdsOnce

LEMMA WorkIsOK == ASSUME WorkInv PROVE WorkspaceTypeOK
<1>1. /\ StoreOK(store) /\ StoreOK(disk) /\ \A f \in files : StoreOK(f)
      /\ backup # None => StoreOK(backup)
  BY StoreIsOK DEF WorkInv
<1>2. page.up => /\ page.interval \in Intervals
                 /\ page.pack \in {"none", "loading", "ready"}
                 /\ page.since \in 0..now
  BY WorkFacts DEF PageSet
<1> QED
  BY <1>1, <1>2 DEF WorkInv, WorkspaceTypeOK

\* The stores, the page and everything kept are of their types; a shadow ledger is never
\* over its limit and has one record of a pattern, each of a shape that makes sense.
THEOREM StoresAreSound == Spec => []WorkspaceTypeOK
<1>1. Init => WorkInv
  BY WorkInit
<1>2. WorkInv /\ [Next]_vars => WorkInv'
  BY WorkStep
<1>3. WorkInv => WorkspaceTypeOK
  BY WorkIsOK
<1> QED
  BY <1>1, <1>2, <1>3, PTL DEF Spec

\* The stores, the page, and every record of every ledger are as the tasks rely on.
THEOREM WorkAlways == Spec => []WorkInv
BY WorkInit, WorkStep, PTL DEF Spec

------------------------------------------------------------------------------
(* The ledger of a living page                                              *)

\* While a page lives no step but a restore sets a ledger back or fills it afterwards.
LEMMA LivingLedger ==
  ASSUME WorkInv, [Next]_vars, page.up, page'.up, ~confirmRestore
  PROVE  /\ Went(store.shadow.records, store'.shadow.records, now)
         /\ \A i \in DOMAIN store'.shadow.records :
              \/ Known(store.shadow, store'.shadow.records[i].id)
              \/ /\ store'.shadow.records[i].confirmed >= page'.since
                 /\ Pattern(store'.shadow.records[i]) \in ShownNow
<1>1. CASE LiveTask
  BY <1>1, LiveTaskStep DEF LiveStep, TaskStep, Fits, Moves
<1>2. CASE Quote \/ NotificationThrows
  BY <1>2, QuoteTask, ThrowTask DEF QuoteStep
<1>3. CASE store'.shadow = store.shadow
  <2>1. Went(store.shadow.records, store.shadow.records, now)
    BY WorkFacts, WentSelf
  <2> QED
    BY <1>3, <2>1 DEF Known
<1>4. CASE Unseen \/ ReloadCharts \/ prepareRestore \/ closeRestore \/ exportWorkspace
  BY <1>3, <1>4 DEF Unseen, ReloadCharts, prepareRestore, closeRestore, exportWorkspace
<1>5. CASE \E answer \in Answers : PackFails(answer)
  BY <1>3, <1>5 DEF PackFails
<1>6. CASE importWorkspace
  BY <1>3, <1>6, ImportWorkspaceIs
<1>7. CASE Start
  BY <1>7 DEF Start
<1>8. CASE Kill
  BY <1>8 DEF Kill, Down
<1>9. CASE UNCHANGED vars
  BY <1>3, <1>9 DEF vars
<1> QED
  BY <1>1, <1>2, <1>4, <1>5, <1>6, <1>7, <1>8, <1>9 DEF Next, LiveTask

\* A shadow record only goes forward while its page lives: what ended stays, what is filled
\* stays filled, the stop of a trail does not fall, and a record leaves only a full ledger,
\* the oldest first.
THEOREM RecordsGoForward == Spec => RecordsOnlyAdvance
<1>1. WorkInv /\ [Next]_vars =>
        (page.up /\ page'.up /\ ~confirmRestore =>
           LET a == store.shadow.records
               b == store'.shadow.records
           IN  \E gone \in 0..Len(a) :
                 /\ gone > 0 => Len(b) = MaxRecords
                 /\ Len(b) >= Len(a) - gone
                 /\ \A i \in (gone + 1)..Len(a) : Advanced(a[i], b[i - gone])
                 /\ \A j \in (Len(a) - gone + 1)..Len(b) :
                      b[j].registered = now /\ b[j].status = "waiting")
  BY LivingLedger DEF Went
<1> QED
  BY <1>1, WorkAlways, PTL DEF Spec, RecordsOnlyAdvance

\* No pattern that was confirmed before the shadow began to watch gets a record.
THEOREM NothingBackfilled == Spec => NoBackfill
<1>1. WorkInv /\ [Next]_vars =>
        (page.up /\ page'.up /\ ~confirmRestore =>
           \A i \in DOMAIN store'.shadow.records :
             LET r == store'.shadow.records[i]
             IN  ~Known(store.shadow, r.id) => r.confirmed >= page'.since)
  BY LivingLedger
<1> QED
  BY <1>1, WorkAlways, PTL DEF Spec, NoBackfill

------------------------------------------------------------------------------
(* What is told, and what a kill loses                                       *)

\* A store none of whose armed alerts has been announced since it was armed.
Untold(alerts) == \A a \in alerts : a.active => a.id \notin told

ToldInv == Untold(store.alerts) /\ (~page.refused => Untold(disk.alerts))

\* What changes the page alone.
PageTask == ReloadCharts \/ prepareRestore \/ closeRestore \/ \E answer \in Answers : PackFails(answer)

LEMMA PageTaskIs ==
  ASSUME WorkInv, PageTask
  PROVE  page.up /\ UNCHANGED <<store, disk, told>> /\ page'.refused = page.refused
<1>1. page.up /\ UNCHANGED <<store, disk, told>>
  BY DEF PageTask, ReloadCharts, prepareRestore, closeRestore, PackFails, Click
<1>2. page \in PageSet(now)
  BY <1>1, WorkFacts
<1>3. CASE prepareRestore
  <2>1. PICK file \in files \cup {Garbage} : page' = [page EXCEPT !.pending = validateBackupSnapshot(file)]
    BY <1>3 DEF prepareRestore
  <2> QED
    BY <1>1, <1>2, <2>1 DEF PageSet
<1>4. CASE closeRestore
  BY <1>1, <1>2, <1>4 DEF closeRestore, PageSet
<1>5. ASSUME NEW answer \in Answers, PackFails(answer) PROVE page'.refused = page.refused
  BY <1>2, <1>5 DEF PackFails, PageSet
<1>6. CASE ReloadCharts
  BY <1>6, ReloadChartsIs DEF SameButCharts
<1> QED
  BY <1>1, <1>3, <1>4, <1>5, <1>6 DEF PageTask

LEMMA ToldStep == ASSUME WorkInv, ToldInv, [Next]_vars PROVE ToldInv'
<1>1. CASE LiveTask
  <2>1. /\ told' \subseteq told
        /\ \A a \in store'.alerts : a \in store.alerts \/ a.id \notin told'
        /\ page'.refused \/ disk' = store' \/ (disk' = disk /\ page'.refused = page.refused)
    BY <1>1, LiveTaskStep DEF LiveStep, TaskStep
  <2> QED
    BY <2>1 DEF ToldInv, Untold
<1>2. CASE Quote \/ NotificationThrows
  <2>1. /\ \A a \in store'.alerts : a.active => a \in store.alerts /\ (a.id \in told' => a.id \in told)
        /\ \/ page'.refused
           \/ disk'.alerts = store'.alerts
           \/ disk' = disk /\ page'.refused = page.refused /\ told' = told
    BY <1>2, QuoteTask, ThrowTask DEF QuoteStep
  <2> QED
    BY <2>1 DEF ToldInv, Untold
<1>3. CASE store'.alerts = store.alerts /\ disk' = disk /\ told' = told /\ page'.refused = page.refused
  BY <1>3 DEF ToldInv, Untold
<1>4. CASE told' = {}
  BY <1>4 DEF ToldInv, Untold
<1>5. CASE exportWorkspace \/ UNCHANGED vars
  BY <1>3, <1>5 DEF exportWorkspace, vars
<1>7. CASE Unseen
  BY <1>3, <1>7, UnseenIs DEF SameButCharts
<1>6. CASE PageTask
  BY <1>3, <1>6, PageTaskIs
<1>10. CASE confirmRestore
  <2>1. UNCHANGED <<store, disk, page, told>> \/ told' = {}
    BY <1>10, ConfirmRestoreIs
  <2>2. CASE UNCHANGED <<store, disk, page, told>>
    BY <1>3, <2>2
  <2> QED
    BY <1>4, <2>1, <2>2
<1>11. CASE importWorkspace
  BY <1>4, <1>11 DEF importWorkspace
<1>12. CASE Start
  <2>1. page = Down /\ store' = migrateStore(disk) /\ disk' = disk /\ told' = told
    BY <1>12, WorkFacts DEF Start, loadStore
  <2>2. migrateStore(disk).alerts = disk.alerts
    BY WorkFacts, MigratedStore DEF WorkInv
  <2> QED
    BY <2>1, <2>2 DEF ToldInv, Untold, Down
<1>13. CASE Kill
  BY <1>13 DEF Kill, ToldInv, Untold
<1> QED
  BY <1>1, <1>2, <1>5, <1>6, <1>7, <1>10, <1>11, <1>12, <1>13 DEF Next, LiveTask, PageTask

\* An alert that was announced is armed again by the user alone: not by a page that died
\* between the announcement and the next save, nor by the next price.
THEOREM AlertsToldOnce == Spec => []AlertToldOnce
<1>1. Init => ToldInv
  BY EmptyStore DEF Init, ToldInv, Untold
<1>2. WorkInv /\ ToldInv /\ [Next]_vars => ToldInv'
  BY ToldStep
<1>3. ToldInv => AlertToldOnce
  BY DEF ToldInv, Untold, AlertToldOnce
<1> QED
  BY <1>1, <1>2, <1>3, WorkAlways, PTL DEF Spec

LEMMA LoadedTwice ==
  ASSUME NEW t \in Nat, NEW st \in Stores(t) PROVE SameSettled(st, migrateStore(st))
<1> DEFINE q == migrateStore(st)
<1>1. /\ q \in Stores(t) /\ ~q.shadow.enabled
      /\ q = [st EXCEPT !.radar = FALSE, !.shadow = [st.shadow EXCEPT !.enabled = FALSE]]
  BY MigratedStore
<1>2. migrateStore(q) = [q EXCEPT !.radar = FALSE, !.shadow = [q.shadow EXCEPT !.enabled = FALSE]]
  <2>1. q \in Stores(t)
    BY <1>1
  <2> HIDE DEF q
  <2> QED
    BY <2>1, MigratedStore
<1> HIDE DEF q
<1>3. q \in StoreSet /\ st \in StoreSet /\ q.shadow \in ShadowSet /\ st.shadow \in ShadowSet
  BY <1>1, StoreFields
<1>4. q.shadow = [st.shadow EXCEPT !.enabled = FALSE]
  BY <1>1, <1>3 DEF StoreSet
<1>5. [q.shadow EXCEPT !.enabled = FALSE] = q.shadow
  BY <1>3, <1>4 DEF ShadowSet
<1>6. migrateStore(q) = q
  BY <1>1, <1>2, <1>3, <1>5 DEF StoreSet
<1> QED
  BY <1>6 DEF SameSettled, q

LEMMA KillStep ==
  ASSUME WorkInv, KillLosesOnlyProgress, [Next]_vars PROVE KillLosesOnlyProgress'
<1> USE DEF loadStore
<1>0. page.up /\ ~page.refused => SameSettled(disk, store)
  BY DEF KillLosesOnlyProgress, SameSettled
<1>1. SUFFICES page'.up /\ ~page'.refused => SameSettled(disk', store')
  BY DEF KillLosesOnlyProgress, SameSettled
<1>2. CASE store' = store /\ disk' = disk /\ (page'.up => page.up /\ page'.refused = page.refused)
  BY <1>0, <1>2
<1>3. CASE disk' = store'
  BY <1>3 DEF SameSettled
<1>4. CASE LiveTask
  <2>1. page'.refused \/ disk' = store' \/ (UNCHANGED <<store, disk>> /\ page'.refused = page.refused)
    BY <1>4, LiveTaskStep DEF LiveStep, TaskStep
  <2>2. page.up
    BY <1>4, LiveTaskStep DEF LiveStep, TaskStep, PageSet
  <2> QED
    BY <1>2, <1>3, <2>1, <2>2
<1>5. CASE Quote \/ NotificationThrows
  <2>1. \/ page'.refused
        \/ SameSettled(disk', store')
        \/ disk' = disk /\ page'.refused = page.refused /\ SameSettled(store, store')
    BY <1>5, QuoteTask, ThrowTask DEF QuoteStep
  <2>2. page.up
    BY <1>5 DEF Quote, NotificationThrows
  <2> QED
    BY <1>0, <2>1, <2>2 DEF SameSettled
<1>6. CASE exportWorkspace \/ UNCHANGED vars
  BY <1>2, <1>6 DEF exportWorkspace, vars
<1>8. CASE Unseen
  BY <1>2, <1>8, UnseenIs DEF SameButCharts
<1>7. CASE PageTask
  BY <1>2, <1>7, PageTaskIs
<1>11. CASE confirmRestore
  <2>1. UNCHANGED <<store, disk, page>> \/ disk' = store' \/ page'.refused
    BY <1>11, ConfirmRestoreIs
  <2>2. CASE UNCHANGED <<store, disk, page>>
    BY <1>2, <2>2
  <2> QED
    BY <1>3, <2>1, <2>2
<1>12. CASE importWorkspace
  BY <1>3, <1>12, ImportWorkspaceIs
<1>13. CASE Start
  <2>1. store' = migrateStore(disk) /\ disk' = disk
    BY <1>13 DEF Start
  <2> QED
    BY <2>1, WorkFacts, LoadedTwice DEF WorkInv
<1>14. CASE Kill
  BY <1>14 DEF Kill, Down
<1> QED
  BY <1>4, <1>5, <1>6, <1>7, <1>8, <1>11, <1>12, <1>13, <1>14 DEF Next, LiveTask, PageTask

\* A page that is killed with no refused write behind it loses the progress of trails only:
\* what is loaded next is what it had, but for that.
THEOREM KillLosesLittle == Spec => []KillLosesOnlyProgress
<1>1. Init => KillLosesOnlyProgress
  BY DEF Init, Down, KillLosesOnlyProgress
<1>2. WorkInv /\ KillLosesOnlyProgress /\ [Next]_vars => KillLosesOnlyProgress'
  BY KillStep
<1> QED
  BY <1>1, <1>2, WorkAlways, PTL DEF Spec

------------------------------------------------------------------------------
(* What a whole chart shows as confirmed every later chart holds             *)

\* Two charts that agree in their first m candles.
AgreeTo(rows, later, m) ==
  /\ m \in Nat /\ Len(rows) \in Nat /\ Len(later) \in Nat /\ m <= Len(rows) /\ m <= Len(later)
  /\ \A k \in 1..m : rows[k] = later[k]

\* A chart that got the last update of every candle that has ended.
Whole(len, t, lost) == \A k \in 1..((t + Past) \div len) : k * len - Past - 1 \notin lost

LEMMA DivisionTop ==
  ASSUME NEW a \in Nat, NEW b \in Nat \ {0}, NEW x \in Int, x * b <= a PROVE x <= a \div b
OBVIOUS

\* Such a chart has all of them, as the market made them.
LEMMA WholeChart ==
  ASSUME NEW mk \in Tapes, NEW len \in Nat \ {0}, NEW t \in 0..Horizon, NEW lost,
         Whole(len, t, lost), NEW rows, rows = chartRows(mk, len, t, lost),
         NEW q, q = (t + Past) \div len
  PROVE  /\ q \in Nat /\ q * len <= t + Past /\ Len(rows) \in {q, q + 1}
         /\ \A k \in 1..Len(rows) : rows[k].time = (k - 1) * len - Past
         /\ \A k \in 1..q : rows[k] = Candle(mk, len, (k - 1) * len - Past, k * len - Past - 1)
<1> DEFINE S == Shown(len, t, lost)
<1>0. t \in Nat /\ Past \in Nat /\ t + Past \in Nat /\ len \in Nat
  BY RadarAssumption, WorkspaceAssumption
<1>1. q \in Nat /\ q * len <= t + Past
  BY <1>0, DivisionRest
<1>2. ASSUME NEW k \in 1..q
      PROVE  /\ Updates(len, k, t, lost) # {}
             /\ Max(Updates(len, k, t, lost)) = k * len - Past - 1
  <2> DEFINE e == k * len - Past - 1
             o == (k - 1) * len - Past
  <2>1. k * len \in Int /\ k * len <= q * len
    BY <1>0, <1>1, ProductGrows
  <2>2. e \in Int /\ e <= t
    BY <1>0, <1>1, <2>1
  <2>3. (k - 1) * len = k * len - len
    BY <1>0
  <2>4. o \in Int /\ o <= e
    BY <1>0, <2>1, <2>3
  <2>5. Min({t, e}) = e
    BY <1>0, <2>2, LeastOfTwo
  <2>6. Updates(len, k, t, lost) = (o..e) \ lost
    BY <2>5 DEF Updates
  <2>7. e \notin lost
    BY DEF Whole
  <2> HIDE DEF e, o
  <2>8. e \in Updates(len, k, t, lost)
    BY <2>2, <2>4, <2>6, <2>7
  <2>9. Updates(len, k, t, lost) # {}
    BY <2>8
  <2>10. Max(Updates(len, k, t, lost)) = e
    <3> DEFINE U == Updates(len, k, t, lost)
    <3>1. U \in SUBSET Int /\ e \in U /\ \A x \in U : x <= e
      BY <2>2, <2>4, <2>6, <2>8
    <3> HIDE DEF U
    <3>2. Max(U) \in U /\ \A x \in U : Max(U) >= x
      BY <2>2, <3>1, GreatestBelow
    <3>3. Max(U) \in Int /\ Max(U) <= e /\ Max(U) >= e
      BY <3>1, <3>2
    <3>4. Max(U) = e
      BY <2>2, <3>3
    <3> QED
      BY <3>4 DEF U
  <2> QED
    BY <2>9, <2>10 DEF e
<1>3. S = 1..q \/ S = 1..(q + 1)
  <2>1. S \subseteq 1..(q + 1) /\ 1..q \subseteq S
    BY <1>1, <1>2 DEF Shown
  <2> HIDE DEF S
  <2>2. \A x \in 1..(q + 1) : x \in 1..q \/ x = q + 1
    BY <1>1
  <2>3. CASE q + 1 \in S
    <3>1. \A x \in 1..(q + 1) : x \in S
      BY <2>1, <2>2, <2>3
    <3> QED
      BY <2>1, <3>1
  <2>4. CASE q + 1 \notin S
    <3>1. \A x \in S : x \in 1..q
      BY <2>1, <2>2, <2>4
    <3> QED
      BY <2>1, <3>1
  <2> QED
    BY <2>3, <2>4
<1>4. PICK p \in {q, q + 1} : S = 1..p
  BY <1>3
<1>5. p \in Nat /\ Cardinality(S) = p
  <2>1. p \in Nat
    BY <1>1, <1>4
  <2>2. Cardinality(1..p) = p
    BY <2>1, FS_Interval
  <2> QED
    BY <1>4, <2>1, <2>2
<1>6. \A n \in 1..p : nth(S, n) = n
  BY <1>4, <1>5, NthOfAll
<1>7. /\ Len(rows) = p
      /\ \A n \in 1..p :
           rows[n] = LET k == nth(S, n)
                     IN  Candle(mk, len, (k - 1) * len - Past, Max(Updates(len, k, t, lost)))
  <2>1. /\ Len(rows) = Cardinality(S)
        /\ \A n \in 1..Len(rows) :
             rows[n] = LET k == nth(S, n)
                       IN  Candle(mk, len, (k - 1) * len - Past, Max(Updates(len, k, t, lost)))
    BY ChartIs
  <2> QED
    BY <1>5, <2>1, Zenon
<1> HIDE DEF S
<1>8. \A n \in 1..p :
        rows[n] = Candle(mk, len, (n - 1) * len - Past, Max(Updates(len, n, t, lost)))
  BY <1>6, <1>7, Zenon
<1>9. \A n \in 1..Len(rows) : rows[n].time = (n - 1) * len - Past
  <2>1. \A o, e : Candle(mk, len, o, e).time = o
    BY DEF Candle
  <2> TAKE n \in 1..Len(rows)
  <2>2. rows[n] = Candle(mk, len, (n - 1) * len - Past, Max(Updates(len, n, t, lost)))
    BY <1>7, <1>8
  <2> QED
    BY <2>1, <2>2, Zenon
<1>10. ASSUME NEW k \in 1..q
       PROVE  rows[k] = Candle(mk, len, (k - 1) * len - Past, k * len - Past - 1)
  <2>1. k \in 1..p
    BY <1>1, <1>4
  <2> QED
    BY <1>2, <1>8, <2>1, Zenon
<1> QED
  BY <1>1, <1>4, <1>7, <1>9, <1>10

\* What it shows as ended, every chart that missed nothing shows at every later time.
LEMMA ChartGrows ==
  ASSUME NEW mk \in Tapes, NEW len \in Nat \ {0}, NEW t \in 0..Horizon, NEW u \in 0..Horizon, t <= u,
         NEW lost, Whole(len, t, lost),
         NEW rows, rows = chartRows(mk, len, t, lost),
         NEW later, later = chartRows(mk, len, u, {}),
         NEW m \in 1..Len(rows), rows[m].time + len <= t
  PROVE  AgreeTo(rows, later, m)
<1> DEFINE q == (t + Past) \div len
           v == (u + Past) \div len
<1>0. t \in Nat /\ u \in Nat /\ Past \in Nat /\ t + Past \in Nat /\ u + Past \in Nat /\ len \in Nat
  BY RadarAssumption, WorkspaceAssumption
<1>1. /\ q \in Nat /\ q * len <= t + Past /\ Len(rows) \in {q, q + 1}
      /\ \A k \in 1..Len(rows) : rows[k].time = (k - 1) * len - Past
      /\ \A k \in 1..q : rows[k] = Candle(mk, len, (k - 1) * len - Past, k * len - Past - 1)
  BY WholeChart, SMTT(60)
<1>2. Whole(len, u, {})
  BY DEF Whole
<1>3. /\ v \in Nat /\ Len(later) \in {v, v + 1}
      /\ \A k \in 1..v : later[k] = Candle(mk, len, (k - 1) * len - Past, k * len - Past - 1)
  BY <1>2, WholeChart, SMTT(60)
<1>4. m \in Nat /\ m <= q
  <2>1. m \in Int /\ (m - 1) * len - Past + len <= t
    BY <1>1
  <2>2. m * len = (m - 1) * len + len /\ (m - 1) * len \in Int
    BY <1>0, <2>1
  <2>3. m * len <= t + Past
    BY <1>0, <2>1, <2>2
  <2>4. m <= q
    BY <1>0, <2>1, <2>3, DivisionTop
  <2> QED
    BY <1>1, <2>4
<1>5. q <= v
  <2>1. q \in Int /\ q * len <= t + Past
    BY <1>1
  <2> HIDE DEF q
  <2>2. q * len <= u + Past
    BY <1>0, <2>1
  <2> QED
    BY <1>0, <2>1, <2>2, DivisionTop
<1> HIDE DEF q, v
<1>6. Len(rows) \in Nat /\ Len(later) \in Nat /\ m <= Len(rows) /\ m <= Len(later)
  BY <1>1, <1>3, <1>4, <1>5
<1>7. ASSUME NEW k \in 1..m PROVE rows[k] = later[k]
  <2>1. k \in 1..q /\ k \in 1..v
    BY <1>1, <1>3, <1>4, <1>5
  <2> QED
    BY <1>1, <1>3, <2>1
<1> QED
  BY <1>4, <1>6, <1>7 DEF AgreeTo

LEMMA SameLows ==
  ASSUME NEW rows, NEW later, NEW m, AgreeTo(rows, later, m), NEW ks \in SUBSET (1..m)
  PROVE  Lows(rows, ks) = Lows(later, ks) /\ Highs(rows, ks) = Highs(later, ks)
<1>1. \A k \in ks : rows[k] = later[k]
  BY DEF AgreeTo
<1> QED
  BY <1>1 DEF Lows, Highs

\* The sum of the ranges, as the function of the library.
RangeOf(rows, k) ==
  Max({rows[k].high, rows[k - 1].close}) - Min({rows[k].low, rows[k - 1].close})

One(s) == CHOOSE x \in s : TRUE

OneRange(g, rows, s) == IF s = {} THEN 0 ELSE RangeOf(rows, One(s)) + g[s \ {One(s)}]

IsRanges(g, rows, w) == g = [s \in SUBSET w |-> OneRange(g, rows, s)]

RangesOf(rows, w) == CHOOSE g : IsRanges(g, rows, w)

LEMMA AtrIs ==
  ASSUME NEW rows, NEW i
  PROVE  atrAt(rows, i) = RangesOf(rows, (i - Period + 1)..i)[(i - Period + 1)..i]
BY Zenon DEF atrAt, MapThenSumSet, MapThenFoldSet, RangesOf, IsRanges, OneRange, RangeOf, One

LEMMA SameAtr ==
  ASSUME NEW rows, NEW later, NEW m, AgreeTo(rows, later, m), NEW i \in 1..m, i > Period
  PROVE  atrAt(rows, i) = atrAt(later, i)
<1> DEFINE w == (i - Period + 1)..i
<1>1. ASSUME NEW k \in w PROVE RangeOf(rows, k) = RangeOf(later, k)
  <2>1. k \in 1..m /\ k - 1 \in 1..m
    BY RadarAssumption DEF AgreeTo
  <2>2. rows[k] = later[k] /\ rows[k - 1] = later[k - 1]
    BY <2>1 DEF AgreeTo
  <2> QED
    BY <2>2 DEF RangeOf
<1>2. ASSUME NEW g, NEW s \in SUBSET w PROVE OneRange(g, rows, s) = OneRange(g, later, s)
  <2>1. s # {} => One(s) \in w
    BY DEF One
  <2> HIDE DEF w
  <2> QED
    BY <1>1, <2>1 DEF OneRange
<1> HIDE DEF w
<1>3. \A g : IsRanges(g, rows, w) <=> IsRanges(g, later, w)
  <2> TAKE g
  <2>1. [s \in SUBSET w |-> OneRange(g, rows, s)] = [s \in SUBSET w |-> OneRange(g, later, s)]
    BY <1>2
  <2> QED
    BY <2>1, Zenon DEF IsRanges
<1>4. RangesOf(rows, w) = RangesOf(later, w)
  BY <1>3, Zenon DEF RangesOf
<1> QED
  BY <1>4, AtrIs DEF w

LEMMA SameFeature ==
  ASSUME NEW rows, NEW later, NEW m, AgreeTo(rows, later, m), NEW i \in 1..m, i + Side <= m
  PROVE  radarFeatureAt(rows, i) = radarFeatureAt(later, i)
<1>0. /\ m \in Nat /\ Side \in Nat \ {0} /\ Period \in Nat \ {0}
      /\ Len(rows) \in Nat /\ Len(later) \in Nat /\ m <= Len(rows) /\ m <= Len(later)
      /\ \A k \in 1..m : rows[k] = later[k]
  BY RadarAssumption DEF AgreeTo
<1>1. CASE i <= Period \/ i <= Side
  BY <1>1 DEF radarFeatureAt
<1>2. CASE i > Period /\ i > Side
  <2>1. /\ (i - Side)..(i - 1) \subseteq 1..m /\ (i + 1)..(i + Side) \subseteq 1..m
        /\ (i - Side)..(i + Side) \subseteq 1..m
        /\ i - 1 \in 1..m /\ i + 1 \in 1..m
        /\ ~(i + Side > Len(rows)) /\ ~(i + Side > Len(later))
    BY <1>0, <1>2
  <2>2. rows[i] = later[i] /\ rows[i - 1] = later[i - 1] /\ rows[i + 1] = later[i + 1]
    BY <1>0, <2>1
  <2>a. \A ks \in SUBSET (1..m) :
          Lows(rows, ks) = Lows(later, ks) /\ Highs(rows, ks) = Highs(later, ks)
    BY SameLows
  <2>3. /\ Highs(rows, (i - Side)..(i - 1)) = Highs(later, (i - Side)..(i - 1))
        /\ Highs(rows, (i + 1)..(i + Side)) = Highs(later, (i + 1)..(i + Side))
        /\ Lows(rows, (i - Side)..(i + Side)) = Lows(later, (i - Side)..(i + Side))
    BY <2>1, <2>a, Zenon
  <2>4. atrAt(rows, i) = atrAt(later, i)
    BY <1>2, SameAtr
  <2> QED
    BY <2>1, <2>2, <2>3, <2>4, Zenon DEF radarFeatureAt
<1> QED
  BY <1>0, <1>1, <1>2

LEMMA SameResearch ==
  ASSUME NEW rows, NEW later, NEW m, AgreeTo(rows, later, m), NEW i \in 1..m, i + Around <= m,
         NEW len, researchFeaturesAt(rows, i, len)
  PROVE  researchFeaturesAt(later, i, len)
<1>0. /\ m \in Nat /\ Around \in Nat \ {0} /\ Period \in Nat \ {0} /\ Warmup \in Nat /\ Warmup >= Around
      /\ Len(rows) \in Nat /\ Len(later) \in Nat /\ m <= Len(rows) /\ m <= Len(later)
      /\ \A k \in 1..m : rows[k] = later[k]
  BY RadarAssumption DEF AgreeTo
<1>1. i > Warmup /\ i > Period /\ \A k \in 2..(i + Around) : rows[k].time - rows[k - 1].time = len
  BY DEF researchFeaturesAt
<1>2. /\ (i - Around)..(i - 1) \subseteq 1..m /\ (i + 1)..(i + Around) \subseteq 1..m
      /\ (i - Around)..(i + Around) \subseteq 1..m
      /\ i + Around <= Len(later)
  BY <1>0, <1>1
<1>3. rows[i] = later[i]
  BY <1>0
<1>a. \A ks \in SUBSET (1..m) :
        Lows(rows, ks) = Lows(later, ks) /\ Highs(rows, ks) = Highs(later, ks)
  BY SameLows
<1>4. /\ Highs(rows, (i - Around)..(i - 1)) = Highs(later, (i - Around)..(i - 1))
      /\ Highs(rows, (i + 1)..(i + Around)) = Highs(later, (i + 1)..(i + Around))
      /\ Lows(rows, (i - Around)..(i + Around)) = Lows(later, (i - Around)..(i + Around))
  BY <1>2, <1>a, Zenon
<1>5. atrAt(rows, i) = atrAt(later, i)
  BY <1>1, SameAtr
<1>6. ASSUME NEW k \in 2..(i + Around) PROVE later[k].time - later[k - 1].time = len
  <2>1. k \in 1..m /\ k - 1 \in 1..m
    BY <1>0
  <2>2. rows[k] = later[k] /\ rows[k - 1] = later[k - 1]
    BY <1>0, <2>1
  <2> QED
    BY <1>1, <2>2, Zenon
<1> QED
  BY <1>1, <1>2, <1>3, <1>4, <1>5, <1>6, Zenon DEF researchFeaturesAt

\* What a whole chart shows as confirmed is held by the chart at every later time.
LEMMA ShownIsHeld ==
  ASSUME NEW mk \in Tapes, NEW i \in Intervals, NEW lost \in Losses,
         NEW t \in 0..Horizon, NEW u \in 0..Horizon, t <= u, Whole(Length[i], t, lost),
         NEW d \in Found[mk][i][lost][t], d.typed
  PROVE  Pattern(d) \in Holding[mk][i][u]
<1> DEFINE len   == Length[i]
           rows  == chartRows(mk, len, t, lost)
           later == chartRows(mk, len, u, {})
<1>1. len \in Nat \ {0}
  BY WorkspaceAssumption
<1>2. d \in decorateRadarCandidates(rows, len, t)
  BY Zenon DEF Found
<1>3. PICK n \in ToSet(scanRadarCandidates(rows)) :
        d = [id |-> rows[n].time, level |-> rows[n].low, typed |-> Confirmed(rows, n, len, t),
             confirmed |-> IF Confirmed(rows, n, len, t) THEN ConfirmationAt(rows, n, len)
                                                         ELSE -Past - 1]
  BY <1>2, Zenon DEF decorateRadarCandidates
<1>b. /\ Confirmed(rows, n, len, t)
      /\ Pattern(d) = <<rows[n].time, rows[n].low, ConfirmationAt(rows, n, len)>>
  BY <1>3, Zenon DEF Pattern
<1>4. Holding[mk][i][u]
        = {<<later[k].time, later[k].low, ConfirmationAt(later, k, len)>> :
             k \in {x \in Scored(later) : researchFeaturesAt(later, x, len)}}
  BY Zenon DEF Holding
<1>c. Whole(len, t, lost)
  OBVIOUS
<1> HIDE DEF len
<1>5. Len(rows) \in Nat /\ DOMAIN rows = 1..Len(rows)
  BY <1>1, ChartIs, Zenon
<1>6. Len(later) \in Nat /\ DOMAIN later = 1..Len(later)
  BY <1>1, ChartIs, Zenon
<1>12. n \in Scored(rows)
  BY <1>3, <1>5, FoundScored
<1>d. n \in DOMAIN rows
  BY <1>12 DEF Scored
<1> DEFINE m == n + Around
<1>7. researchFeaturesAt(rows, n, len) /\ rows[m].time + len <= t
  BY <1>b DEF Confirmed, ConfirmationAt
<1>8. m \in 1..Len(rows) /\ n \in 1..m /\ n + Side <= m /\ n + Around <= m
  <2>1. n + Around <= Len(rows)
    BY <1>7 DEF researchFeaturesAt
  <2> QED
    BY <1>d, <1>5, <2>1, RadarAssumption
<1>a. rows = chartRows(mk, len, t, lost) /\ later = chartRows(mk, len, u, {})
  OBVIOUS
<1>9. AgreeTo(rows, later, m)
  <2> HIDE DEF rows, later, m
  <2> QED
    BY <1>1, <1>c, <1>7, <1>8, <1>a, ChartGrows
<1> HIDE DEF rows, later, m
<1>10. researchFeaturesAt(later, n, len)
  BY <1>7, <1>8, <1>9, SameResearch
<1>11. radarFeatureAt(rows, n) = radarFeatureAt(later, n)
  BY <1>8, <1>9, SameFeature
<1>13. n \in DOMAIN later
  BY <1>6, <1>8, <1>9 DEF AgreeTo
<1>14. n \in Scored(later)
  BY <1>11, <1>12, <1>13, Zenon DEF Scored
<1>15. rows[n] = later[n] /\ rows[n + Around] = later[n + Around]
  BY <1>8, <1>9 DEF AgreeTo, m
<1>16. Pattern(d) = <<later[n].time, later[n].low, ConfirmationAt(later, n, len)>>
  BY <1>b, <1>15, Zenon DEF ConfirmationAt
<1> QED
  BY <1>4, <1>10, <1>14, <1>16, Zenon

\* What is shown now as confirmed, on a chart that was seen to the end.
LEMMA NewIsHeld ==
  ASSUME WorkInv, page.up, SeenToTheEnd, NEW r, Pattern(r) \in ShownNow
  PROVE  HeldFromNow(r)
<1> DEFINE i == page.interval
           lost == page.lost[i]
<1>1. /\ market \in Tapes /\ i \in Intervals /\ now \in 0..Horizon /\ now \in Int
      /\ lost \in Losses
  BY WorkFacts DEF WorkInv, PageSet
<1>2. PICK c \in Typed : Pattern(r) = Pattern(c)
  BY DEF ShownNow
<1>3. c \in Found[market][i][lost][now] /\ c.typed
  BY <1>2 DEF Typed, Visible
<1>4. Whole(Length[i], now, lost)
  BY DEF SeenToTheEnd, Whole
<1> HIDE DEF i, lost
<1>5. ASSUME NEW t \in now..Horizon PROVE Pattern(r) \in Holding[market][i][t]
  <2>1. t \in 0..Horizon /\ now <= t
    BY <1>1, WorkspaceAssumption
  <2> QED
    BY <1>1, <1>2, <1>3, <1>4, <2>1, ShownIsHeld
<1> QED
  BY <1>5, Zenon DEF HeldFromNow, Pattern, i

\* A record that enters the ledger from a chart that got the last update of every candle is
\* of a pattern which every later chart of that interval holds as confirmed: neither the next
\* candles nor the rest of the forming one take it back.
THEOREM NothingRepainted == Spec => NoRepaint
<1>1. WorkInv /\ [Next]_vars =>
        (page.up /\ page'.up /\ ~confirmRestore /\ SeenToTheEnd =>
           \A i \in DOMAIN store'.shadow.records :
             LET r == store'.shadow.records[i]
             IN  ~Known(store.shadow, r.id) => HeldFromNow(r))
  <2> SUFFICES ASSUME WorkInv, [Next]_vars, page.up, page'.up, ~confirmRestore, SeenToTheEnd,
                      NEW i \in DOMAIN store'.shadow.records,
                      ~Known(store.shadow, store'.shadow.records[i].id)
               PROVE  HeldFromNow(store'.shadow.records[i])
    OBVIOUS
  <2>1. Pattern(store'.shadow.records[i]) \in ShownNow
    BY LivingLedger
  <2> QED
    BY <2>1, NewIsHeld
<1> QED
  BY <1>1, WorkAlways, PTL DEF Spec, NoRepaint

==============================================================================
