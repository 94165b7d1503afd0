-------------------------- MODULE PaperTradingProofs --------------------------
(***************************************************************************)
(* The store keeps what PaperTrading promises, after any sequence of gaps, *)
(* kills, failed answers, dropped quotes and commands, for every value of  *)
(* the constants.                                                          *)
(*                                                                         *)
(* Shape is the inductive invariant the rest stands on: the types, the     *)
(* ledger in step with the campaigns, no cursor in the future, and a page  *)
(* whose buffer, task and gap belong together.  Three invariants are added *)
(* to it.                                                                  *)
(*   Replays:  the candles that were replayed close no later than the      *)
(*             cursor of candles, and a replay asks only for later ones.   *)
(*   Orderly:  what the books hold of a symbol is not later than its       *)
(*             candle cursor or than a moment all other cursors have       *)
(*             passed, so that what is replayed or flushed comes after it. *)
(*   Coverage: a minute within the reach of a replay that was neither seen *)
(*             nor replayed is after the cursors a replay starts from,     *)
(*             asked for by the replay under way, or waits in its buffer.  *)
(*             The buffer is why this is not a matter of cursors alone:    *)
(*             while a replay runs, quotes only wait, the minute they      *)
(*             began in was seen (Fronted), and they keep coming as long   *)
(*             as no gap is marked (Attended).                             *)
(***************************************************************************)
EXTENDS PaperReplayProofs

------------------------------------------------------------------------------
(* The beginning of a gap                                                   *)

\* All but the campaigns, the ledger, the gap and the checkpoint.
SameCursors(x, y) ==
  /\ y.at = x.at /\ y.rec = x.rec /\ y.since = x.since /\ y.replayed = x.replayed
  /\ y.again = x.again /\ y.early = x.early

\* What markPaperGap writes: the gap moves back, and no further than it must.
Gapping(st, x, t) ==
  /\ SameBooks(st, x) /\ SameCursors(st, x) /\ x.live = st.live
  /\ x.slipped = st.slipped /\ x.mixed = st.mixed
  /\ x.chk = t /\ x.gap \in Clock /\ x.gap # Never /\ x.gap <= t
  /\ st.gap # Never => x.gap <= st.gap
  /\ \A s \in ActiveSymbols(st) : st.at[s] # Never => x.gap <= st.at[s]
  /\ \A b \in Int : /\ b <= t /\ (st.gap # Never => b <= st.gap)
                    /\ \A s \in Symbols : st.at[s] # Never /\ b <= st.at[s]
                    => b <= x.gap

\* Times are numbers, and a time that is none is before the clock.
LEMMA TimesIs == /\ \A t \in Times : t \in Int /\ (t # Never => t \in Clock /\ t \in Nat)
                 /\ \A t \in Clock : t \in Times /\ t # Never /\ t \in Int /\ t \in Nat
                 /\ Never \in Times /\ 0 \in Clock
BY PaperTradingAssumption DEF Times, Clock, Never

\* markPaperGap writes what Gapping says.
LEMMA MarkGapIs ==
  ASSUME NEW st \in StoreSet, NEW t \in Clock
  PROVE  Gapping(st, markPaperGap(st, t), t)
<1> DEFINE f == [s \in ActiveSymbols(st) |-> IF st.at[s] = Never THEN 0 ELSE st.at[s]]
           had == {IF st.at[s] = Never THEN 0 ELSE st.at[s] : s \in ActiveSymbols(st)}
           all == {t} \cup had
           start == Min(all)
           gap == IF st.gap = Never THEN start ELSE Min({st.gap, start})
           x == [st EXCEPT !.gap = gap, !.chk = t]
<1>1. ActiveSymbols(st) \subseteq Symbols /\ IsFiniteSet(ActiveSymbols(st))
  <2>1. ActiveSymbols(st) \subseteq Symbols
    BY DEF ActiveSymbols
  <2> QED
    BY <2>1, SymbolsFinite, FS_Subset
<1>2. \A s \in Symbols : st.at[s] \in Times
  BY DEF StoreSet
<1>3. had = {f[s] : s \in ActiveSymbols(st)} /\ IsFiniteSet(had)
  <2>1. had = {f[s] : s \in ActiveSymbols(st)}
    OBVIOUS
  <2>2. IsFiniteSet({f[s] : s \in ActiveSymbols(st)})
    BY <1>1, FiniteImage, Zenon
  <2> QED
    BY <2>1, <2>2
<1>4. all \in SUBSET Clock /\ all # {} /\ IsFiniteSet(all) /\ t \in all
  <2>1. had \subseteq Clock
    BY <1>1, <1>2, TimesIs
  <2>2. IsFiniteSet(had \cup {t})
    BY <1>3, FS_AddElement
  <2>3. had \cup {t} = all
    OBVIOUS
  <2> QED
    BY <2>1, <2>2, <2>3
<1>5. \A s \in ActiveSymbols(st) : st.at[s] # Never => st.at[s] \in all
  OBVIOUS
<1>6. \A e \in all : e = t \/ \E s \in Symbols : st.at[s] = Never \/ e = st.at[s]
  BY <1>1
<1> HIDE DEF f, had, all
<1>7. all \in SUBSET Int
  BY <1>4, TimesIs
<1>8. start \in all /\ \A e \in all : start <= e
  BY <1>4, <1>7, MinMaxOfFinite
<1>9. start \in Clock /\ start \in Int
  BY <1>4, <1>8, TimesIs
<1> HIDE DEF start
<1>10. st.gap \in Times /\ t \in Int
  BY TimesIs DEF StoreSet
<1>11. /\ gap \in Clock /\ gap \in Int /\ gap <= start
       /\ st.gap # Never => gap <= st.gap
       /\ gap = start \/ (st.gap # Never /\ gap = st.gap)
  <2>1. CASE st.gap = Never
    BY <1>9, <2>1
  <2>2. CASE st.gap # Never
    <3> DEFINE two == {st.gap, start}
    <3>1. st.gap \in Clock /\ st.gap \in Int
      BY <1>10, <2>2, TimesIs
    <3>2. two \in SUBSET Int /\ two # {} /\ IsFiniteSet(two)
      <4>1. IsFiniteSet({st.gap} \cup {start})
        BY FS_Singleton, FS_Union
      <4>2. two = {st.gap} \cup {start}
        OBVIOUS
      <4> QED
        BY <1>9, <3>1, <4>1, <4>2
    <3> HIDE DEF two
    <3>3. Min(two) \in two /\ \A e \in two : Min(two) <= e
      BY <3>2, MinMaxOfFinite
    <3>4. Min({st.gap, start}) \in {st.gap, start} /\ Min({st.gap, start}) <= st.gap
          /\ Min({st.gap, start}) <= start
      BY <3>3 DEF two
    <3> QED
      BY <1>9, <2>2, <3>1, <3>4
  <2> QED
    BY <2>1, <2>2
<1>12. markPaperGap(st, t) = x
  BY Zenon DEF markPaperGap, x, gap, start, all, had
<1> HIDE DEF gap
<1>13. gap \in Times /\ t \in Times
  BY <1>11, TimesIs
<1>14. /\ x \in StoreSet /\ x.camp = st.camp /\ x.trades = st.trades
       /\ x.at = st.at /\ x.rec = st.rec /\ x.since = st.since /\ x.replayed = st.replayed
       /\ x.again = st.again /\ x.early = st.early /\ x.live = st.live
       /\ x.slipped = st.slipped /\ x.mixed = st.mixed /\ x.gap = gap /\ x.chk = t
  BY <1>13 DEF StoreSet
<1> HIDE DEF x
<1>15. gap <= t /\ \A s \in ActiveSymbols(st) : st.at[s] # Never => gap <= st.at[s]
  <2>1. \A e \in all : e \in Int /\ gap <= e
    BY <1>7, <1>8, <1>9, <1>11
  <2> QED
    BY <1>4, <1>5, <2>1
<1>16. ASSUME NEW b \in Int, b <= t, st.gap # Never => b <= st.gap,
              \A s \in Symbols : st.at[s] # Never /\ b <= st.at[s]
       PROVE  b <= gap
  <2>1. \A e \in all : b <= e
    BY <1>6, <1>16
  <2>2. b <= start
    BY <1>8, <2>1
  <2> QED
    BY <1>11, <1>16, <2>2
<1>17. gap # Never
  BY <1>11, TimesIs
<1>18. Gapping(st, x, t)
  BY <1>11, <1>14, <1>15, <1>16, <1>17 DEF Gapping, SameBooks, SameCursors
<1> QED
  BY <1>12, <1>18

------------------------------------------------------------------------------
(* The starting point of a replay                                           *)

\* The cursors a starting point is taken from.
CursorsOf(st, s) == {st.gap, st.at[s], st.chk} \ {Never}

\* A starting point, by what it is not before.
Starts(st, s, t, start) ==
  /\ start \in Int /\ start >= st.rec[s] + 1 /\ start >= st.camp[s].createdAt
  /\ \E least \in Int :
       /\ start \in {least, st.rec[s] + 1, t - MaxRecovery, st.camp[s].createdAt}
       /\ start >= least
       /\ \A e \in CursorsOf(st, s) : least <= e
       /\ least = t \/ least \in CursorsOf(st, s)

\* recoveryStartForSymbol is such a starting point.
LEMMA StartIs ==
  ASSUME NEW st \in StoreSet, NEW s \in Symbols, NEW t \in Clock
  PROVE  Starts(st, s, t, recoveryStartForSymbol(st, s, t))
<1> DEFINE cursors == CursorsOf(st, s)
           least == IF cursors = {} THEN t ELSE Min(cursors)
           r == st.rec[s] + 1
           old == t - MaxRecovery
           c == st.camp[s].createdAt
<1>1. cursors \in SUBSET Int /\ IsFiniteSet(cursors)
  <2>1. IsFiniteSet({st.gap} \cup ({st.at[s]} \cup {st.chk}))
    BY FS_Singleton, FS_Union
  <2>2. cursors \subseteq {st.gap} \cup ({st.at[s]} \cup {st.chk})
    BY DEF CursorsOf
  <2>3. st.gap \in Times /\ st.at[s] \in Times /\ st.chk \in Times
    BY DEF StoreSet
  <2> QED
    BY <2>1, <2>2, <2>3, FS_Subset, TimesIs DEF CursorsOf
<1>2. r \in Int /\ c \in Int /\ old \in Int
  <2>1. st.rec[s] \in Times
    BY DEF StoreSet
  <2>2. t \in Int /\ MaxRecovery \in Int
    BY TimesIs, PaperTradingAssumption
  <2> QED
    BY <2>1, <2>2, TimesIs, CampIn DEF CampSet
<1> HIDE DEF cursors
<1>3. /\ least \in Int /\ (least = t \/ least \in cursors) /\ \A e \in cursors : least <= e
  BY <1>1, MinMaxOfFinite, TimesIs
<1>4. recoveryStartForSymbol(st, s, t) = Max({least, r, old, c})
  BY Zenon DEF recoveryStartForSymbol, CursorsOf, cursors
<1> HIDE DEF least, r, old, c
<1> DEFINE start == Max({least, r, old, c})
<1>5. /\ start \in {least, r, old, c} /\ start \in Int
      /\ start >= least /\ start >= r /\ start >= c
  BY <1>2, <1>3, MaxOfFour
<1> HIDE DEF start
<1>6. /\ start \in {least, r, old, c} /\ start \in Int
      /\ start >= least /\ start >= r /\ start >= c
  BY <1>5 DEF start
<1>7. Starts(st, s, t, start)
  BY <1>3, <1>6 DEF Starts, r, old, c, cursors
<1> QED
  BY <1>4, <1>7 DEF start

\* What the task is after catchUp.
TaskSet ==
  [phase : {"idle", "fetch", "charts"}, end : Int, at : Clock, gapped : BOOLEAN,
   after : [Symbols -> Int]]

\* A replay that begins.
Begins(st, tk) ==
  /\ tk \in TaskSet /\ tk.phase = "fetch" /\ tk.end = LastClosed(now) /\ tk.at = now /\ ~tk.gapped
  /\ \A s \in Symbols : IF Active(st.camp[s]) THEN Starts(st, s, now, tk.after[s])
                                              ELSE tk.after[s] = Skip

\* catchUp begins a replay, unless one is under way.
LEMMA CatchUpIs ==
  ASSUME NEW st \in StoreSet, now \in Clock
  PROVE  IF Recovering THEN catchUp(st) = task ELSE Begins(st, catchUp(st))
<1>1. CASE Recovering
  BY <1>1 DEF catchUp
<1>2. CASE ~Recovering
  <2> DEFINE after == [s \in Symbols |-> IF Active(st.camp[s])
                                         THEN recoveryStartForSymbol(st, s, now) ELSE Skip]
             tk == [phase |-> "fetch", end |-> LastClosed(now), at |-> now, gapped |-> FALSE,
                    after |-> after]
  <2>1. catchUp(st) = tk
    BY <1>2 DEF catchUp
  <2>2. \A s \in Symbols : Starts(st, s, now, recoveryStartForSymbol(st, s, now))
    BY StartIs
  <2>3. after \in [Symbols -> Int]
    BY <2>2 DEF Starts, Skip
  <2>4. \A s \in Symbols : IF Active(st.camp[s]) THEN Starts(st, s, now, after[s])
                                                 ELSE after[s] = Skip
    BY <2>2
  <2> HIDE DEF after
  <2>5. LastClosed(now) \in Int
    BY TimesIs, PaperEngineAssumption DEF LastClosed
  <2>6. Begins(st, tk)
    BY <2>3, <2>4, <2>5 DEF Begins, TaskSet
  <2> QED
    BY <1>2, <2>1, <2>6
<1> QED
  BY <1>1, <1>2

\* The page follows the quotes again.
Following(st, x) ==
  /\ SameBooks(st, x) /\ SameCursors(st, x)
  /\ x.chk = st.chk /\ x.gap = st.gap /\ x.mixed = st.mixed /\ x.slipped = st.slipped
  /\ \A s \in Symbols : x.live[s] = st.live[s] \cup {now \div Minute}

\* Follow adds the minute under way to those that were seen.
LEMMA FollowIs ==
  ASSUME NEW st \in StoreSet, now \in Clock
  PROVE  Following(st, Follow(st))
<1> DEFINE live == [s \in Symbols |-> st.live[s] \cup {now \div Minute}]
           x == [st EXCEPT !.live = live]
<1>1. st.live \in [Symbols -> SUBSET Minutes] /\ now \div Minute \in Minutes
  BY MinuteOf DEF StoreSet
<1>2. live \in [Symbols -> SUBSET Minutes]
      /\ \A s \in Symbols : live[s] = st.live[s] \cup {now \div Minute}
  BY <1>1
<1>3. Follow(st) = x
  BY Zenon DEF Follow
<1> HIDE DEF live
<1>4. /\ x \in StoreSet /\ x.live = live /\ x.camp = st.camp /\ x.trades = st.trades
      /\ x.at = st.at /\ x.rec = st.rec /\ x.since = st.since /\ x.replayed = st.replayed
      /\ x.again = st.again /\ x.early = st.early
      /\ x.chk = st.chk /\ x.gap = st.gap /\ x.mixed = st.mixed /\ x.slipped = st.slipped
  BY <1>2 DEF StoreSet
<1> QED
  BY <1>2, <1>3, <1>4 DEF Following, SameBooks, SameCursors

\* The store when the page is shown or connected while a replay runs, or not.
Awake(st, x, slips, follows) ==
  /\ SameBooks(st, x) /\ SameCursors(st, x)
  /\ x.chk = st.chk /\ x.gap = st.gap /\ x.mixed = st.mixed
  /\ x.slipped = IF slips THEN Symbols ELSE st.slipped
  /\ \A s \in Symbols : x.live[s] = IF follows THEN st.live[s] \cup {now \div Minute} ELSE st.live[s]

\* A store that is followed again, or not, is one of these.
LEMMA AwakeIs ==
  ASSUME NEW st \in StoreSet, now \in Clock, NEW slips \in BOOLEAN, NEW follows \in BOOLEAN
  PROVE  LET seen == IF follows THEN Follow(st) ELSE st
         IN  Awake(st, IF slips THEN [seen EXCEPT !.slipped = Symbols] ELSE seen, slips, follows)
<1> DEFINE seen == IF follows THEN Follow(st) ELSE st
           x == [seen EXCEPT !.slipped = Symbols]
<1>1. /\ SameBooks(st, seen) /\ SameCursors(st, seen)
      /\ seen.chk = st.chk /\ seen.gap = st.gap /\ seen.mixed = st.mixed
      /\ seen.slipped = st.slipped
      /\ \A s \in Symbols :
           seen.live[s] = IF follows THEN st.live[s] \cup {now \div Minute} ELSE st.live[s]
  BY FollowIs DEF Following, SameBooks, SameCursors
<1> HIDE DEF seen
<1>2. seen \in StoreSet
  BY <1>1 DEF SameBooks
<1>3. /\ x \in StoreSet /\ x.slipped = Symbols /\ x.camp = seen.camp /\ x.trades = seen.trades
      /\ x.at = seen.at /\ x.rec = seen.rec /\ x.since = seen.since
      /\ x.replayed = seen.replayed /\ x.again = seen.again /\ x.early = seen.early
      /\ x.chk = seen.chk /\ x.gap = seen.gap /\ x.mixed = seen.mixed /\ x.live = seen.live
  BY <1>2 DEF StoreSet
<1> HIDE DEF x
<1>4. Awake(st, seen, FALSE, follows) /\ Awake(st, x, TRUE, follows)
  BY <1>1, <1>3 DEF Awake, SameBooks, SameCursors
<1>5. Awake(st, IF slips THEN x ELSE seen, slips, follows)
  BY <1>4
<1> QED
  BY <1>5 DEF x, seen

------------------------------------------------------------------------------
(* The buffer of a replay                                                   *)

\* The buffers, with the moment of the oldest quote dropped.
Buffers == {x \in [b : Seq(MomentSet), at : Times] : Len(x.b) <= MaxBuffer}

\* One step of Buffered.
BufferStep(x, m) ==
  LET drop == IF Len(x.b) < MaxBuffer THEN 0 ELSE Max({1, MaxBuffer \div 4})
      gone == {x.b[i][1] : i \in 1..drop}
  IN  [b |-> Append(SubSeq(x.b, drop + 1, Len(x.b)), m),
       at |-> IF gone = {} THEN x.at ELSE Min(gone \cup ({x.at} \ {Never}))]

\* The oldest d moments are dropped, if any.
Pushed(x, z, m, d) ==
  /\ z \in Buffers /\ d \in 0..Len(x.b) /\ Len(z.b) = Len(x.b) - d + 1
  /\ z.b[Len(z.b)] = m
  /\ \A i \in 1..(Len(x.b) - d) : z.b[i] = x.b[d + i]
  /\ d = 0 => z.at = x.at
  /\ d # 0 => /\ Len(x.b) - d >= NSymbols - 1
              /\ z.at # Never
              /\ z.at = x.at \/ \E i \in 1..d : z.at = x.b[i][1]
              /\ x.at # Never => z.at <= x.at
              /\ \A i \in 1..d : z.at <= x.b[i][1]

\* One more quote is appended, and a full buffer drops its oldest quarter first.
LEMMA BufferStepIs ==
  ASSUME NEW x \in Buffers, NEW m \in MomentSet
  PROVE  \E d \in 0..Len(x.b) : Pushed(x, BufferStep(x, m), m, d)
<1> DEFINE len == Len(x.b)
           b == x.b
           at == x.at
           d == IF len < MaxBuffer THEN 0 ELSE Max({1, MaxBuffer \div 4})
           gone == {b[i][1] : i \in 1..d}
           rest == SubSeq(b, d + 1, len)
           all == gone \cup ({at} \ {Never})
           n == Append(rest, m)
           o == IF gone = {} THEN at ELSE Min(all)
           z == [b |-> n, at |-> o]
<1>1. b \in Seq(MomentSet) /\ len \in Nat /\ len <= MaxBuffer /\ at \in Times
      /\ \A i \in 1..len : b[i] \in MomentSet
  BY LenProperties, ElementOfSeq DEF Buffers
<1>2. MaxBuffer \in Nat \ {0} /\ NSymbols \in Nat \ {0} /\ MaxBuffer >= NSymbols + MaxBuffer \div 4
  BY PaperTradingAssumption
<1>3. BufferStep(x, m) = z
  BY Zenon DEF BufferStep
<1>4. /\ d \in 0..len /\ (d = 0 \/ d \in 1..len) /\ len - d + 1 <= MaxBuffer
      /\ d # 0 => len - d >= NSymbols - 1
  <2>1. CASE len < MaxBuffer
    BY <1>1, <1>2, <2>1
  <2>2. CASE ~(len < MaxBuffer)
    <3> DEFINE q == MaxBuffer \div 4
               e == Max({1, q})
    <3>1. q \in Int /\ q <= MaxBuffer
      BY <1>2
    <3> HIDE DEF q
    <3>2. e \in {1, q} /\ e \in Int /\ e >= 1
      <4>1. 1 \in Int
        OBVIOUS
      <4>2. Max({1, q}) \in {1, q} /\ Max({1, q}) \in Int /\ Max({1, q}) >= 1
        BY <3>1, <4>1, MaxOfTwo, Zenon
      <4> QED
        BY <4>2 DEF e
    <3> HIDE DEF e
    <3>3. len = MaxBuffer /\ d = e
      BY <1>1, <1>2, <2>2 DEF e, q
    <3>4. MaxBuffer >= NSymbols + q
      BY <1>2 DEF q
    <3> HIDE DEF d
    <3> QED
      BY <1>1, <1>2, <3>1, <3>2, <3>3, <3>4
  <2> QED
    BY <2>1, <2>2
<1> HIDE DEF d, len, b, at
<1>5. d \in Nat /\ len - d \in Nat
  BY <1>1, <1>4
<1>6. rest \in Seq(MomentSet) /\ Len(rest) = len - d /\ \A i \in 1..(len - d) : rest[i] = b[d + i]
  <2>1. \A i \in (d + 1)..len : b[i] \in MomentSet
    BY <1>1, <1>5
  <2> QED
    BY <1>1, <1>5, SubSeqProperties DEF len
<1> HIDE DEF rest
<1>7. /\ n \in Seq(MomentSet) /\ Len(n) = len - d + 1 /\ n[Len(n)] = m
      /\ \A i \in 1..(len - d) : n[i] = b[d + i]
  <2>1. n \in Seq(MomentSet) /\ Len(n) = Len(rest) + 1
        /\ \A i \in 1..Len(rest) : n[i] = rest[i]
        /\ n[Len(rest) + 1] = m
    BY <1>6, AppendProperties
  <2> QED
    BY <1>5, <1>6, <2>1
<1>8. \A i \in 1..d : b[i][1] \in Clock /\ b[i][1] \in gone
  BY <1>1, <1>4, MomentIs
<1>9. gone = {} <=> d = 0
  <2>1. CASE d = 0
    <3>1. 1..d = {}
      BY <2>1
    <3> QED
      BY <2>1, <3>1
  <2>2. CASE d # 0
    <3>1. 1 \in 1..d
      BY <1>5, <2>2
    <3>2. b[1][1] \in gone
      BY <1>8, <3>1
    <3> QED
      BY <2>2, <3>2
  <2> QED
    BY <2>1, <2>2
<1>10. ASSUME d # 0
       PROVE  /\ o \in Clock /\ o # Never
              /\ o = at \/ \E i \in 1..d : o = b[i][1]
              /\ at # Never => o <= at
              /\ \A i \in 1..d : o <= b[i][1]
  <2>1. all \in SUBSET Clock /\ all # {}
    BY <1>1, <1>8, <1>9, <1>10, TimesIs
  <2>2. IsFiniteSet(gone)
    <3> DEFINE f == [i \in 1..d |-> b[i][1]]
    <3>1. IsFiniteSet(1..d)
      BY <1>5, FS_Interval
    <3>2. gone = {f[i] : i \in 1..d}
      OBVIOUS
    <3>3. IsFiniteSet({f[i] : i \in 1..d})
      BY <3>1, FiniteImage, Zenon
    <3> QED
      BY <3>2, <3>3
  <2>3. IsFiniteSet(all)
    BY <2>2, FS_Singleton, FS_Subset, FS_Union
  <2>4. all \in SUBSET Int /\ \A i \in 1..d : b[i][1] \in all
    BY <1>8, <2>1, TimesIs
  <2>5. at # Never => at \in all
    OBVIOUS
  <2>6. \A e \in all : e = at \/ \E i \in 1..d : e = b[i][1]
    OBVIOUS
  <2> HIDE DEF all, gone
  <2>7. Min(all) \in all /\ \A e \in all : Min(all) <= e
    BY <2>1, <2>3, <2>4, MinMaxOfFinite
  <2>8. o = Min(all)
    BY <1>9, <1>10
  <2>9. o \in Clock
    BY <2>1, <2>7, <2>8
  <2> HIDE DEF o
  <2> QED
    BY <2>4, <2>5, <2>6, <2>7, <2>8, <2>9, TimesIs
<1>11. d = 0 => o = at
  BY <1>9
<1>12. o \in Times
  BY <1>1, <1>10, <1>11, TimesIs
<1> HIDE DEF o, n
<1>13. z \in Buffers /\ z.b = n /\ z.at = o
  BY <1>1, <1>4, <1>5, <1>7, <1>12 DEF Buffers
<1> HIDE DEF z
<1>14. Pushed(x, z, m, d)
  BY <1>4, <1>7, <1>10, <1>11, <1>13 DEF Pushed, len, b, at
<1> QED
  BY <1>3, <1>4, <1>14 DEF len, b

\* The fold of Buffered as a function on sets of symbols.
OneBuffer(g, s, base) ==
  IF s = {} THEN base ELSE BufferStep(g[s \ {Max(s)}], Moments[Max(s)])

\* The function is one of these,
IsBuffer(g, base) == g = [s \in SUBSET DOMAIN Moments |-> OneBuffer(g, s, base)]

\* and this is it.
BufferOf(base) == CHOOSE g : IsBuffer(g, base)

\* The fold of the library is this function.
LEMMA BufferFold ==
  ASSUME NEW b PROVE Buffered(b) = BufferOf(b)[DOMAIN Moments]
BY Zenon DEF Buffered, FoldLeft, MapThenFoldSet, BufferOf, IsBuffer, OneBuffer, BufferStep

\* The buffers that the quotes of one moment run through.
BufferRun(h, base) ==
  /\ h[0] = base
  /\ \A k \in 1..NSymbols : h[k] = BufferStep(h[k - 1], <<now', k>>)
  /\ Buffered(base) = h[NSymbols]

\* There is such a run.
LEMMA BufferRunExists ==
  ASSUME NEW base \in Buffers, now' \in Clock
  PROVE  \E h : BufferRun(h, base)
<1> DEFINE V == Buffers
           len == NSymbols
           F == [p \in V \X (1..len) |-> BufferStep(p[1], Moments[p[2]])]
<1>1. len \in Nat /\ Symbols = 1..len /\ DOMAIN Moments = 1..len
      /\ \A i \in 1..len : Moments[i] = <<now', i>> /\ Moments[i] \in MomentSet
  BY SymbolsFinite DEF Symbols, Moments, MomentSet
<1>2. \A v \in V : \A i \in 1..len : BufferStep(v, Moments[i]) \in V
  BY <1>1, BufferStepIs DEF Pushed
<1>3. \A v \in V : \A i \in 1..len : F[<<v, i>>] = BufferStep(v, Moments[i])
  OBVIOUS
<1>4. base \in V /\ \A v \in V : \A i \in 1..len : F[<<v, i>>] \in V
  BY <1>2, <1>3
<1> HIDE DEF V, F, len
<1>5. \E g : IsBuffer(g, base)
  <2>a. PICK g \in [SUBSET (1..len) -> V] : IsLeftFold(g, len, V, base, F)
    BY <1>1, <1>4, LeftFoldExists
  <2>1. \A s \in SUBSET (1..len) :
           /\ s # {} => Max(s) \in 1..len /\ g[s \ {Max(s)}] \in V
           /\ g[s] = IF s = {} THEN base ELSE F[<<g[s \ {Max(s)}], Max(s)>>]
    BY <2>a, Zenon DEF IsLeftFold
  <2>2. ASSUME NEW s \in SUBSET (1..len) PROVE g[s] = OneBuffer(g, s, base)
    <3>1. CASE s = {}
      BY <2>1, <3>1 DEF OneBuffer
    <3>2. CASE s # {}
      <4>1. Max(s) \in 1..len /\ g[s \ {Max(s)}] \in V
        BY <2>1, <3>2
      <4>2. g[s] = F[<<g[s \ {Max(s)}], Max(s)>>]
        BY <2>1, <3>2
      <4>3. g[s] = BufferStep(g[s \ {Max(s)}], Moments[Max(s)])
        BY <1>3, <4>1, <4>2
      <4> QED
        BY <3>2, <4>3 DEF OneBuffer
    <3> QED
      BY <3>1, <3>2
  <2>3. g = [s \in SUBSET (1..len) |-> OneBuffer(g, s, base)]
    BY <2>1, <2>2
  <2>4. SUBSET DOMAIN Moments = SUBSET (1..len)
    BY <1>1
  <2>5. IsBuffer(g, base)
    BY <2>3, <2>4, Zenon DEF IsBuffer
  <2> QED
    BY <2>5
<1> DEFINE g == BufferOf(base)
<1>6. IsBuffer(g, base)
  BY <1>5, Zenon DEF BufferOf
<1>7. Buffered(base) = g[1..len]
  BY <1>1, BufferFold, Zenon
<1> HIDE DEF g
<1>8. \A s \in SUBSET (1..len) : g[s] = OneBuffer(g, s, base)
  BY <1>1, <1>6, Zenon DEF IsBuffer
<1> DEFINE h == [k \in 0..len |-> g[1..k]]
<1>9. h[0] = base
  <2>1. 1..0 = {} /\ {} \in SUBSET (1..len) /\ 0 \in 0..len
    BY <1>1
  <2>2. g[{}] = base
    BY <1>8, <2>1 DEF OneBuffer
  <2> QED
    BY <2>1, <2>2
<1>10. ASSUME NEW k \in 1..len PROVE h[k] = BufferStep(h[k - 1], <<now', k>>)
  <2>1. /\ k \in Nat \ {0} /\ k \in 0..len /\ k - 1 \in 0..len /\ 1..k \in SUBSET (1..len)
    BY <1>1
  <2>2. 1..k # {} /\ Max(1..k) = k /\ (1..k) \ {k} = 1..(k - 1)
    BY <2>1, LastOfPrefix
  <2>3. g[1..k] = OneBuffer(g, 1..k, base)
    BY <1>8, <2>1
  <2>4. g[1..k] = BufferStep(g[1..(k - 1)], Moments[k])
    BY <2>2, <2>3, Zenon DEF OneBuffer
  <2> QED
    BY <1>1, <2>1, <2>4
<1>11. h[len] = g[1..len]
  BY <1>1
<1> HIDE DEF h
<1>12. BufferRun(h, base)
  BY <1>7, <1>9, <1>10, <1>11 DEF BufferRun, len
<1> QED
  BY <1>12

\* The moment at which what waits begins.
FrontAt(x, f) ==
  /\ x.at # Never => x.at = f
  /\ x.at = Never => IF Len(x.b) = 0 THEN f = now' ELSE x.b[1][1] = f
  /\ \A j \in 1..Len(x.b) : f <= x.b[j][1]
  /\ f <= now'

\* A buffer that took the quotes of the first k symbols.
Filling(base, f, x, k) ==
  /\ x \in Buffers /\ k <= Len(x.b)
  /\ \A i \in 1..k : x.b[Len(x.b) - k + i] = <<now', i>>
  /\ x.at = Never => /\ base.at = Never
                     /\ \A i \in 1..Len(base.b) : \E j \in 1..Len(x.b) : x.b[j] = base.b[i]
  /\ \A j \in 1..Len(x.b) : x.b[j][1] = now' \/ \E i \in 1..Len(base.b) : x.b[j] = base.b[i]
  /\ Sorted(x.b)
  /\ \A j \in 1..Len(x.b) : x.b[j][1] <= now'
  /\ FrontAt(x, f)

\* A buffer has its types.
LEMMA BuffersIs ==
  ASSUME NEW x \in Buffers
  PROVE  /\ x.b \in Seq(MomentSet) /\ Len(x.b) \in Nat /\ x.at \in Times /\ x.at \in Int
         /\ \A i \in 1..Len(x.b) : x.b[i] \in MomentSet /\ x.b[i][1] \in Int
<1>1. x.b \in Seq(MomentSet) /\ x.at \in Times /\ x.at \in Int
  BY TimesIs DEF Buffers
<1>2. Len(x.b) \in Nat /\ \A i \in 1..Len(x.b) : x.b[i] \in MomentSet
  BY <1>1, LenProperties, ElementOfSeq
<1> QED
  BY <1>1, <1>2, MomentIs

\* The quote of one more symbol: what drops out is older than this moment.
LEMMA FillingStep ==
  ASSUME NEW base, NEW f \in Int, now' \in Clock, NEW k \in 1..NSymbols,
         NEW x, Filling(base, f, x, k - 1)
  PROVE  Filling(base, f, BufferStep(x, <<now', k>>), k)
<1> DEFINE m == <<now', k>>
           z == BufferStep(x, m)
           len == Len(x.b)
<1>0. NSymbols \in Nat /\ k \in Nat /\ k >= 1 /\ k <= NSymbols /\ now' \in Int
  BY SymbolsFinite, TimesIs
<1>1. x \in Buffers /\ m \in MomentSet /\ m[1] = now' /\ m[2] = k
  BY DEF Filling, MomentSet, Symbols
<1>2. PICK d \in 0..len : Pushed(x, z, m, d)
  BY <1>1, BufferStepIs
<1> HIDE DEF z, m
<1>3. len \in Nat /\ d \in Nat /\ d <= len /\ Len(z.b) = len - d + 1 /\ z \in Buffers
      /\ len - d \in Nat
  BY <1>1, <1>2, BuffersIs DEF Pushed
<1> HIDE DEF len
<1>4. len = Len(x.b)
  BY DEF len
<1>5. /\ \A j \in 1..len : x.b[j][1] \in Int
      /\ \A j \in 1..(len - d + 1) : z.b[j][1] \in Int
      /\ x.at \in Int /\ z.at \in Int
  BY <1>1, <1>3, <1>4, BuffersIs
<1>6. z.b[len - d + 1] = m /\ \A i \in 1..(len - d) : z.b[i] = x.b[d + i] /\ d + i \in 1..len
  BY <1>2, <1>3, <1>4 DEF Pushed
<1>7. k <= len - d + 1
  BY <1>0, <1>2, <1>3, <1>4 DEF Pushed, Filling
<1>8. ASSUME NEW i \in 1..k PROVE z.b[(len - d + 1) - k + i] = <<now', i>>
  <2>1. CASE i = k
    <3>1. (len - d + 1) - k + i = len - d + 1
      BY <1>0, <1>3, <2>1
    <3> QED
      BY <1>6, <2>1, <3>1 DEF m
  <2>2. CASE i # k
    <3> DEFINE e == (len - d + 1) - k + i
    <3>1. i \in 1..(k - 1) /\ e \in 1..(len - d) /\ d + e = len - (k - 1) + i
      BY <1>0, <1>3, <1>7, <2>2
    <3>2. z.b[e] = x.b[d + e]
      BY <1>6, <3>1
    <3>3. x.b[len - (k - 1) + i] = <<now', i>>
      BY <1>4, <3>1 DEF Filling
    <3> QED
      BY <3>1, <3>2, <3>3
  <2> QED
    BY <2>1, <2>2
<1>9. ASSUME z.at = Never
      PROVE  /\ base.at = Never
             /\ \A i \in 1..Len(base.b) : \E j \in 1..(len - d + 1) : z.b[j] = base.b[i]
  <2>1. d = 0 /\ x.at = Never
    BY <1>2, <1>9 DEF Pushed
  <2>2. base.at = Never
    BY <2>1 DEF Filling
  <2>3. ASSUME NEW i \in 1..Len(base.b) PROVE \E j \in 1..(len - d + 1) : z.b[j] = base.b[i]
    <3>1. PICK j \in 1..len : x.b[j] = base.b[i]
      BY <1>4, <2>1 DEF Filling
    <3>2. j \in 1..(len - d) /\ j \in 1..(len - d + 1) /\ d + j = j
      BY <1>3, <2>1
    <3> QED
      BY <1>6, <3>1, <3>2
  <2> QED
    BY <2>2, <2>3
<1>10. ASSUME NEW j \in 1..(len - d + 1)
       PROVE  \/ j = len - d + 1 /\ z.b[j] = m
              \/ j \in 1..(len - d) /\ d + j \in 1..len /\ z.b[j] = x.b[d + j]
  BY <1>3, <1>6
<1>11. ASSUME NEW j \in 1..(len - d + 1)
       PROVE  /\ z.b[j][1] = now' \/ \E i \in 1..Len(base.b) : z.b[j] = base.b[i]
              /\ z.b[j][1] <= now' /\ f <= z.b[j][1]
  <2>1. CASE z.b[j] = m
    BY <1>0, <1>1, <2>1 DEF Filling, FrontAt
  <2>2. CASE d + j \in 1..len /\ z.b[j] = x.b[d + j]
    <3> DEFINE e == d + j
    <3>1. e \in 1..Len(x.b) /\ z.b[j] = x.b[e]
      BY <1>4, <2>2
    <3> HIDE DEF e
    <3>2. x.b[e][1] = now' \/ \E i \in 1..Len(base.b) : x.b[e] = base.b[i]
      BY <3>1 DEF Filling
    <3>3. x.b[e][1] <= now' /\ f <= x.b[e][1]
      BY <3>1 DEF Filling, FrontAt
    <3> QED
      BY <3>1, <3>2, <3>3
  <2> QED
    BY <1>10, <2>1, <2>2
<1>12. ASSUME NEW i \in 1..(len - d + 1), NEW j \in 1..(len - d + 1), i <= j
       PROVE  z.b[i][1] <= z.b[j][1]
  <2>1. CASE j = len - d + 1
    BY <1>1, <1>6, <1>11, <2>1
  <2>2. CASE j # len - d + 1
    <3>1. i \in 1..(len - d) /\ j \in 1..(len - d) /\ d + i <= d + j
      BY <1>3, <1>12, <2>2
    <3>2. d + i \in 1..len /\ d + j \in 1..len /\ z.b[i] = x.b[d + i] /\ z.b[j] = x.b[d + j]
      BY <1>6, <3>1
    <3>3. x.b[d + i][1] <= x.b[d + j][1]
      BY <1>4, <3>1, <3>2 DEF Filling, Sorted
    <3> QED
      BY <3>2, <3>3
  <2> QED
    BY <2>1, <2>2
<1>13. z.at # Never => z.at = f
  <2>1. CASE d = 0
    BY <1>2, <2>1 DEF Pushed, Filling, FrontAt
  <2>2. CASE d # 0
    <3>1. 1 \in 1..d /\ 1 \in 1..len /\ len # 0 /\ \A i \in 1..d : i \in 1..len
      BY <1>3, <2>2
    <3>2. /\ z.at = x.at \/ \E i \in 1..d : z.at = x.b[i][1]
          /\ x.at # Never => z.at <= x.at
          /\ z.at <= x.b[1][1] /\ z.at # Never
      BY <1>2, <2>2, <3>1 DEF Pushed
    <3>3. /\ x.at # Never => x.at = f
          /\ x.at = Never => x.b[1][1] = f
          /\ \A i \in 1..len : f <= x.b[i][1]
      BY <1>4, <3>1 DEF Filling, FrontAt
    <3>4. x.b[1][1] \in Int
      BY <1>5, <3>1
    <3>5. z.at >= f
      BY <3>1, <3>2, <3>3
    <3>6. z.at <= f
      BY <3>2, <3>3
    <3> QED
      BY <1>5, <3>5, <3>6
  <2> QED
    BY <2>1, <2>2
<1>14. z.at = Never => z.b[1][1] = f /\ len - d + 1 # 0
  <2> SUFFICES ASSUME z.at = Never PROVE z.b[1][1] = f
    BY <1>3
  <2>1. d = 0 /\ x.at = Never
    BY <1>2 DEF Pushed
  <2>2. CASE len = 0
    <3>1. f = now' /\ len - d + 1 = 1
      BY <1>4, <2>1, <2>2 DEF Filling, FrontAt
    <3> QED
      BY <1>1, <1>6, <3>1
  <2>3. CASE len # 0
    <3>1. 1 \in 1..(len - d) /\ d + 1 = 1
      BY <1>3, <2>1, <2>3
    <3>2. x.b[1][1] = f
      BY <1>4, <2>1, <2>3 DEF Filling, FrontAt
    <3> QED
      BY <1>6, <3>1, <3>2
  <2> QED
    BY <2>2, <2>3
<1>15. FrontAt(z, f)
  <2>1. f <= now'
    BY DEF Filling, FrontAt
  <2> QED
    BY <1>3, <1>11, <1>13, <1>14, <2>1 DEF FrontAt
<1>16. Sorted(z.b)
  BY <1>3, <1>12 DEF Sorted
<1>17. Filling(base, f, z, k)
  BY <1>3, <1>7, <1>8, <1>9, <1>11, <1>15, <1>16 DEF Filling
<1> QED
  BY <1>17 DEF z, m

\* Buffered does what Filling says.
LEMMA BufferedIs ==
  ASSUME NEW base \in Buffers, now' \in Clock, NEW f \in Int, Sorted(base.b),
         \A j \in 1..Len(base.b) : base.b[j][1] <= now', FrontAt(base, f)
  PROVE  Filling(base, f, Buffered(base), NSymbols)
<1> DEFINE W == {p \in Nat \X Buffers : Filling(base, f, p[2], p[1])}
<1>1. PICK h : BufferRun(h, base)
  BY BufferRunExists
<1>2. NSymbols \in Nat
  BY SymbolsFinite
<1>3. \A k \in Nat : \A y : Filling(base, f, y, k) => <<k, y>> \in W
  BY DEF Filling
<1>4. <<0, h[0]>> \in W
  <2>1. h[0] = base
    BY <1>1 DEF BufferRun
  <2>2. Filling(base, f, base, 0)
    BY BuffersIs DEF Filling
  <2> QED
    BY <1>3, <2>1, <2>2
<1>5. ASSUME NEW k \in 1..NSymbols, <<k - 1, h[k - 1]>> \in W PROVE <<k, h[k]>> \in W
  <2>1. Filling(base, f, h[k - 1], k - 1)
    BY <1>5
  <2>2. h[k] = BufferStep(h[k - 1], <<now', k>>) /\ k \in Nat
    BY <1>1, <1>2 DEF BufferRun
  <2> HIDE DEF W
  <2>3. Filling(base, f, h[k], k)
    BY <2>1, <2>2, FillingStep
  <2> QED
    BY <1>3, <2>2, <2>3
<1> HIDE DEF W
<1>6. \A k \in 0..NSymbols : <<k, h[k]>> \in W
  BY <1>2, <1>4, <1>5, PrefixIn
<1>7. <<NSymbols, h[NSymbols]>> \in W
  BY <1>2, <1>6
<1> QED
  BY <1>1, <1>7 DEF W, BufferRun

------------------------------------------------------------------------------
(* What the rest of the argument stands on                                  *)

\* The types.
Typed ==
  /\ now \in Clock /\ market \in Tapes /\ ids \in Nat /\ store \in BookSet(ids)
  /\ page \in {"down", "shown", "hidden", "frozen"} /\ ws \in {"none", "open", "lost"}
  /\ quote \in [Symbols -> Int] /\ task \in TaskSet
  /\ buffer \in Seq(MomentSet) /\ Len(buffer) <= MaxBuffer
  /\ overflowAt \in Times /\ rerun \in BOOLEAN
  /\ modal \in [sym : Int, level : Int] /\ (modal # NoModal => modal.sym \in Symbols)

\* What the page keeps of itself: its task, its buffer and the gap.
Paged ==
  /\ page = "down" => ws = "none" /\ ~Recovering
  /\ ~Recovering => task = Idle /\ buffer = <<>> /\ overflowAt = Never
  /\ page \in {"hidden", "frozen"} => store.gap # Never
  /\ task.gapped => store.gap # Never
  /\ Recovering => task.at <= now /\ task.end = LastClosed(task.at)
  /\ \A i \in 1..Len(buffer) : buffer[i][1] > task.at /\ buffer[i][1] <= now
  /\ Sorted(buffer)
  /\ overflowAt # Never =>
       overflowAt <= now /\ \A i \in 1..Len(buffer) : overflowAt <= buffer[i][1]

\* What is known of the cursors: none is in the future, and they come together.
Cursors ==
  /\ store.chk <= now /\ store.gap <= now
  /\ \A s \in Symbols : store.at[s] <= now /\ store.rec[s] <= now /\ store.camp[s].createdAt <= now
  /\ store.chk = Never => store.gap = Never /\ page = "down"
  /\ store.chk = Never <=> store.since = Never
  /\ \A s \in Symbols : store.chk = Never <=> store.at[s] = Never
  /\ \A s \in Symbols : store.rec[s] = Never \/ \E m \in Minutes : store.rec[s] = CloseOf(m)
  /\ Recovering => \A s \in Symbols : store.rec[s] <= task.at
  /\ task.phase = "fetch" => \A s \in Symbols : task.after[s] <= task.at + 1

\* The invariant that the other arguments stand on.
Shape == Typed /\ Paged /\ Cursors

\* A store of Shape has its types.
LEMMA StoreIs ==
  ASSUME NEW n, NEW st \in BookSet(n)
  PROVE  /\ st \in StoreSet /\ LedgerOK(st, n)
         /\ st.chk \in Times /\ st.gap \in Times /\ st.since \in Times
         /\ \A s \in Symbols : /\ st.at[s] \in Times /\ st.rec[s] \in Times
                               /\ CampOK(st.camp[s]) /\ st.camp[s] \in CampSet
                               /\ st.camp[s].createdAt \in Int
BY CampIn DEF BookSet, StoreSet, CampSet

\* The last minute that is over closes before the minute under way.
LEMMA LastClosedIs ==
  ASSUME NEW t \in Clock
  PROVE  /\ LastClosed(t) \in Int /\ LastClosed(t) < t /\ LastClosed(t) <= Horizon
         /\ \A m \in Nat : CloseOf(m) < t /\ ~(m = t \div Minute) => CloseOf(m) <= LastClosed(t)
<1>1. /\ t \in Nat /\ Minute \in Nat /\ Minute >= 2 /\ t <= Horizon /\ Horizon \in Nat
  BY PaperEngineAssumption, PaperTradingAssumption, TimesIs DEF Clock
<1> DEFINE q == t \div Minute
<1>2. q \in Nat /\ q * Minute <= t
  BY <1>1
<1> HIDE DEF q
<1>3. LastClosed(t) = q * Minute - 1
  BY DEF LastClosed, q
<1>4. q * Minute \in Nat
  BY <1>1, <1>2
<1>5. ASSUME NEW m \in Nat, CloseOf(m) < t, ~(m = q) PROVE CloseOf(m) <= LastClosed(t)
  <2>1. CloseOf(m) \in Nat /\ m <= q
    BY <1>1, <1>5, MinutesIs DEF q
  <2>2. m + 1 <= q /\ (m + 1) * Minute <= q * Minute
    BY <1>1, <1>2, <1>5, <2>1
  <2>3. CloseOf(m) = m * Minute + Minute - 1 /\ (m + 1) * Minute = m * Minute + Minute
        /\ m * Minute \in Nat
    BY <1>1 DEF CloseOf
  <2> QED
    BY <1>1, <1>3, <1>4, <2>2, <2>3
<1> QED
  BY <1>1, <1>2, <1>3, <1>4, <1>5 DEF q

------------------------------------------------------------------------------
(* The end of a replay                                                      *)

\* What a replay leaves of a symbol it ran for.
Outcomes(st, r, a, s) ==
  /\ r.closed[s] = Never \/ (r.closed[s] <= task.end /\ \E m \in Minutes : r.closed[s] = CloseOf(m))
  /\ r.last[s] = Never \/ r.last[s] <= task.end
  /\ st.replayed[s] \subseteq r.st.replayed[s]
  /\ \A w \in r.st.replayed[s] :
       w \in st.replayed[s] \/ (w \in a[s] /\ CloseOf(w) <= r.closed[s])
  /\ Active(r.st.camp[s]) => a[s] \subseteq r.st.replayed[s]
  /\ \/ r.closed[s] = Never /\ Kept(st, r.st, s)
     \/ r.closed[s] # Never /\ (Calm(st, s) => Ordered(r.st, s) /\ NotAfter(r.st, s, r.closed[s]))

\* That is what ReplayInv comes to after the last instant.
LEMMA OutcomeIs ==
  ASSUME NEW n \in Nat, NEW st \in StoreSet, NEW a, NEW syms, Asked(a, syms), NEW r,
         ReplayInv(st, r, a, syms, n, NInstants), NEW s \in syms
  PROVE  Outcomes(st, r, a, s)
<1>1. s \in Symbols /\ SymbolOK(st, r, a, syms, s, NInstants) /\ r \in ReplayStates(n)
      /\ r.st \in StoreSet
  BY DEF ReplayInv, Asked, ReplayStates, BookSet
<1>2. r.last[s] \in Times /\ r.closed[s] \in Times /\ task.end \in Int
  BY <1>1 DEF ReplayStates, Asked
<1>3. Active(r.st.camp[s]) => a[s] \subseteq r.st.replayed[s]
  <2> SUFFICES ASSUME Active(r.st.camp[s]), NEW m \in a[s] PROVE m \in r.st.replayed[s]
    OBVIOUS
  <2>1. s \notin r.done
    BY <1>1, NoneOK DEF SymbolOK
  <2>2. m \in Minutes
    BY NeededIs
  <2>3. 4 * m + 4 <= NInstants
    <3> DEFINE q == Horizon \div Minute
    <3>1. q \in Nat /\ 0 \in Int
      BY PaperEngineAssumption, PaperTradingAssumption
    <3>2. Cardinality(Minutes) = q + 1
      BY <3>1, FS_Interval DEF Minutes
    <3>3. m \in 0..q
      BY <2>2 DEF Minutes
    <3> HIDE DEF q
    <3> QED
      BY <3>1, <3>2, <3>3 DEF NInstants
  <2> QED
    BY <1>1, <2>1, <2>3 DEF SymbolOK, Covered
<1>4. CASE r.prices[s] = Never
  <2>1. Unseen(st, r, s)
    BY <1>1, <1>4 DEF SymbolOK
  <2> QED
    BY <1>3, <2>1 DEF Unseen, Outcomes
<1>5. CASE r.prices[s] # Never
  <2>1. Played(st, r, a, s, NInstants)
    BY <1>1, <1>5 DEF SymbolOK
  <2>2. PICK m \in a[s] : r.closed[s] = CloseOf(m)
    BY <2>1 DEF Played, Reached
  <2>3. m \in Minutes /\ CloseOf(m) <= task.end /\ CloseOf(m) \in Nat
    BY NeededIs, MinutesIs
  <2>4. r.last[s] \in Int /\ r.closed[s] \in Int /\ r.last[s] <= r.closed[s]
        /\ r.closed[s] # Never
    BY <2>1, <2>2, <2>3 DEF Played, Never
  <2>5. r.last[s] <= task.end
    BY <1>2, <2>2, <2>3, <2>4
  <2>6. Calm(st, s) => Ordered(r.st, s) /\ NotAfter(r.st, s, r.closed[s])
    BY <1>1, <2>1, <2>4, NotAfterMore DEF Played
  <2> QED
    BY <1>3, <2>1, <2>2, <2>3, <2>4, <2>5, <2>6 DEF Played, Outcomes
<1> QED
  BY <1>4, <1>5

------------------------------------------------------------------------------
(* The answers arrive                                                       *)

\* The replay closes the gap.
Settled(good) == good = Fetched /\ ~task.gapped /\ page = "shown"

\* The books are those of the replay, the cursors move to its end.
Fetches(x, r, a, syms, good) ==
  /\ SameBooks(r.st, x)
  /\ x.since = store.since /\ x.live = store.live /\ x.mixed = store.mixed
  /\ x.replayed = r.st.replayed /\ x.early = r.st.early
  /\ x.again = store.again \cup {s \in syms : a[s] \cap store.replayed[s] # {}}
  /\ x.slipped = IF store.gap = Never THEN store.slipped \cup (Fetched \ good) ELSE store.slipped
  /\ \A s \in Symbols \ syms : x.rec[s] = store.rec[s] /\ x.at[s] = store.at[s]
  /\ \A s \in syms :
       /\ x.rec[s] \in {store.rec[s], r.closed[s]}
       /\ x.rec[s] >= store.rec[s] /\ x.rec[s] >= r.closed[s]
       /\ x.at[s] \in {store.at[s], r.last[s]} /\ x.at[s] >= store.at[s]
  /\ x.gap = IF Settled(good) THEN Never ELSE store.gap
  /\ x.chk = task.at

\* The whole of FetchReturns, with its replay named.
FetchStep(r, a, syms, good) ==
  /\ good \subseteq Fetched /\ syms = {s \in good : store.camp[s] # NoCampaign}
  /\ Asked(a, syms) /\ ReplayInv(store, r, a, syms, ids, NInstants)
  /\ Fetches(store', r, a, syms, good)

\* The store with its cursors advanced.
Advanced(st, r, syms, rec, at) ==
  /\ rec \in [Symbols -> Times] /\ at \in [Symbols -> Times]
  /\ \A s \in Symbols \ syms : rec[s] = st.rec[s] /\ at[s] = st.at[s]
  /\ \A s \in syms :
       /\ rec[s] \in {st.rec[s], r.closed[s]}
       /\ rec[s] >= st.rec[s] /\ rec[s] >= r.closed[s]
       /\ at[s] \in {st.at[s], r.last[s]} /\ at[s] >= st.at[s]

\* The candle cursors that FetchReturns writes.
RecOf(r, syms) ==
  [s \in Symbols |-> IF s \in syms THEN Max({r.st.rec[s], r.closed[s]}) ELSE r.st.rec[s]]

\* The market cursors that FetchReturns writes.
LastOf(r, syms) ==
  [s \in Symbols |-> IF s \in syms THEN Max({r.st.at[s], r.last[s]}) ELSE r.st.at[s]]

\* They stay where they were or move to the end of the replay.
LEMMA FetchCursors ==
  ASSUME NEW st \in StoreSet, NEW r \in ReplayStates(ids), NEW syms \in SUBSET Symbols,
         Still(st, r.st)
  PROVE  Advanced(st, r, syms, RecOf(r, syms), LastOf(r, syms))
<1> DEFINE rec == [s \in Symbols |-> IF s \in syms THEN Max({r.st.rec[s], r.closed[s]})
                                     ELSE r.st.rec[s]]
           at  == [s \in Symbols |-> IF s \in syms THEN Max({r.st.at[s], r.last[s]})
                                     ELSE r.st.at[s]]
<1>1. r.st.rec = st.rec /\ r.st.at = st.at
  BY DEF Still
<1>2. \A s \in Symbols : /\ st.rec[s] \in Times /\ st.at[s] \in Times
                         /\ r.closed[s] \in Times /\ r.last[s] \in Times
  BY DEF StoreSet, ReplayStates
<1>4. ASSUME NEW s \in Symbols
      PROVE  /\ rec[s] \in Times /\ at[s] \in Times
             /\ s \notin syms => rec[s] = st.rec[s] /\ at[s] = st.at[s]
             /\ s \in syms => /\ rec[s] \in {st.rec[s], r.closed[s]}
                              /\ rec[s] >= st.rec[s] /\ rec[s] >= r.closed[s]
                              /\ at[s] \in {st.at[s], r.last[s]} /\ at[s] >= st.at[s]
  <2> DEFINE e == r.last[s]
             b == st.at[s]
             c == st.rec[s]
             d == r.closed[s]
  <2>1. e \in Int /\ e \in Times /\ b \in Int /\ b \in Times /\ c \in Int /\ c \in Times
        /\ d \in Int /\ d \in Times
    BY <1>2, TimesIs
  <2>2. rec[s] = (IF s \in syms THEN Max({c, d}) ELSE c)
        /\ at[s] = (IF s \in syms THEN Max({b, e}) ELSE b)
    BY <1>1
  <2> HIDE DEF e, b, c, d, rec, at
  <2>3. Max({c, d}) \in {c, d} /\ Max({c, d}) >= c /\ Max({c, d}) >= d
    BY <2>1, MaxOfTwo, Zenon
  <2>4. Max({b, e}) \in {b, e} /\ Max({b, e}) >= b
    BY <2>1, MaxOfTwo, Zenon
  <2>5. CASE s \in syms
    <3>1. rec[s] \in {c, d} /\ rec[s] >= c /\ rec[s] >= d /\ at[s] \in {b, e} /\ at[s] >= b
      BY <2>2, <2>3, <2>4, <2>5
    <3>2. rec[s] \in Times /\ at[s] \in Times
      BY <2>1, <3>1
    <3> QED
      BY <2>1, <2>5, <3>1, <3>2 DEF b, c, d, e
  <2>6. CASE s \notin syms
    BY <2>1, <2>2, <2>6 DEF b, c
  <2> QED
    BY <2>5, <2>6
<1>5. rec \in [Symbols -> Times] /\ at \in [Symbols -> Times]
  <2>1. /\ rec = [s \in Symbols |-> rec[s]] /\ at = [s \in Symbols |-> at[s]]
    OBVIOUS
  <2> HIDE DEF rec, at
  <2> QED
    BY <1>4, <2>1
<1> HIDE DEF rec, at
<1>6. syms \subseteq Symbols
  OBVIOUS
<1>7. Advanced(st, r, syms, rec, at)
  BY <1>4, <1>5, <1>6 DEF Advanced
<1> QED
  BY <1>7, Zenon DEF RecOf, LastOf, rec, at

\* A task has its types.
LEMMA TaskIs ==
  ASSUME Typed
  PROVE  /\ task.end \in Int /\ task.at \in Clock /\ task.gapped \in BOOLEAN
         /\ \A s \in Symbols : task.after[s] \in Int
         /\ task.phase \in {"idle", "fetch", "charts"} /\ DOMAIN task = DOMAIN Idle
BY DEF Typed, TaskSet, Idle

\* FetchReturns does what FetchStep says.
LEMMA FetchIs ==
  ASSUME Shape, FetchReturns
  PROVE  \E r, a, syms, good : FetchStep(r, a, syms, good)
<1>1. /\ Typed /\ Paged /\ Recovering /\ store \in BookSet(ids) /\ ids \in Nat /\ market \in Tapes
      /\ quote \in [Symbols -> Int]
  BY DEF Shape, Typed, FetchReturns, Recovering
<1>2. task.end \in Int /\ task.at \in Clock /\ \A s \in Symbols : task.after[s] \in Int
  BY <1>1, TaskIs
<1>3. task.end = LastClosed(task.at)
  BY <1>1 DEF Paged
<1>4. -1 <= task.end /\ task.end <= Horizon
  <2>1. task.at \in Nat /\ Minute \in Nat /\ Minute >= 2
    BY <1>2, TimesIs, PaperEngineAssumption
  <2>2. task.at \div Minute \in Nat
    BY <2>1
  <2>3. (task.at \div Minute) * Minute \in Nat
    BY <2>1, <2>2
  <2> QED
    BY <1>2, <1>3, <2>3, LastClosedIs DEF LastClosed
<1>5. PICK a \in Answers :
       LET good == Good(a)
           syms == {s \in good : store.camp[s] # NoCampaign}
           r    == Replay(store, a, syms)
           done == good = Fetched /\ ~task.gapped /\ page = "shown"
       IN  store' = [r.st EXCEPT
                !.again = @ \cup {s \in syms : a[s] \cap store.replayed[s] # {}},
                !.slipped = IF store.gap = Never THEN @ \cup (Fetched \ good) ELSE @,
                !.rec = [s \in Symbols |-> IF s \in syms THEN Max({@[s], r.closed[s]}) ELSE @[s]],
                !.at  = [s \in Symbols |-> IF s \in syms THEN Max({@[s], r.last[s]}) ELSE @[s]],
                !.gap = IF done THEN Never ELSE @,
                !.chk = task.at]
  BY DEF FetchReturns
<1> DEFINE good == Good(a)
           syms == {s \in good : store.camp[s] # NoCampaign}
           r == Replay(store, a, syms)
           rec == RecOf(r, syms)
           at  == LastOf(r, syms)
           again == r.st.again \cup {s \in syms : a[s] \cap store.replayed[s] # {}}
           slipped == IF store.gap = Never THEN r.st.slipped \cup (Fetched \ good) ELSE r.st.slipped
           gap == IF Settled(good) THEN Never ELSE r.st.gap
           y == r.st
           x == [y EXCEPT !.again = again, !.slipped = slipped, !.rec = rec, !.at = at,
                          !.gap = gap, !.chk = task.at]
<1>6. store' = x
  BY <1>5, Zenon DEF Settled, RecOf, LastOf
<1>7. good \subseteq Fetched /\ Fetched \subseteq Symbols
      /\ \A s \in good : a[s] = Needed(task.after[s], task.end)
  BY DEF Good, Complete, Fetched
<1>8. Asked(a, syms)
  BY <1>2, <1>4, <1>7 DEF Asked
<1>9. ReplayInv(store, r, a, syms, ids, NInstants)
  BY <1>1, <1>8, ReplayIs
<1>10. r \in ReplayStates(ids) /\ y \in StoreSet /\ Still(store, y) /\ syms \subseteq Symbols
       /\ store \in StoreSet
  BY <1>1, <1>7, <1>9 DEF ReplayInv, ReplayStates, BookSet
<1> HIDE DEF r, y, good
<1>11. Advanced(store, r, syms, rec, at)
  BY <1>10, FetchCursors DEF y
<1>a. rec \in [Symbols -> Times] /\ at \in [Symbols -> Times]
  BY <1>11 DEF Advanced
<1>12. /\ again \in SUBSET Symbols /\ slipped \in SUBSET Symbols /\ gap \in Times
       /\ task.at \in Times
  BY <1>2, <1>7, <1>10, TimesIs DEF StoreSet, y
<1>13. /\ again = store.again \cup {s \in syms : a[s] \cap store.replayed[s] # {}}
       /\ slipped = (IF store.gap = Never THEN store.slipped \cup (Fetched \ good) ELSE store.slipped)
       /\ gap = IF Settled(good) THEN Never ELSE store.gap
       /\ y.since = store.since /\ y.live = store.live /\ y.mixed = store.mixed
  BY <1>10 DEF Still, y
<1> HIDE DEF rec, at, again, slipped, gap, syms
<1>14. /\ x \in StoreSet /\ x.camp = y.camp /\ x.trades = y.trades /\ x.since = y.since
       /\ x.live = y.live /\ x.mixed = y.mixed /\ x.replayed = y.replayed /\ x.early = y.early
       /\ x.again = again /\ x.slipped = slipped /\ x.rec = rec /\ x.at = at /\ x.gap = gap
       /\ x.chk = task.at
  BY <1>10, <1>a, <1>12 DEF StoreSet
<1> HIDE DEF x
<1>15. Fetches(x, r, a, syms, good)
  <2>1. /\ SameBooks(r.st, x) /\ x.since = store.since /\ x.live = store.live
        /\ x.mixed = store.mixed /\ x.replayed = r.st.replayed /\ x.early = r.st.early
    BY <1>13, <1>14 DEF SameBooks, y
  <2>2. /\ \A s \in Symbols \ syms : x.rec[s] = store.rec[s] /\ x.at[s] = store.at[s]
        /\ \A s \in syms :
             /\ x.rec[s] \in {store.rec[s], r.closed[s]}
             /\ x.rec[s] >= store.rec[s] /\ x.rec[s] >= r.closed[s]
             /\ x.at[s] \in {store.at[s], r.last[s]} /\ x.at[s] >= store.at[s]
    BY <1>11, <1>14 DEF Advanced
  <2> QED
    BY <1>13, <1>14, <2>1, <2>2, Zenon DEF Fetches
<1>16. FetchStep(r, a, syms, good)
  BY <1>6, <1>7, <1>8, <1>9, <1>15 DEF FetchStep, syms
<1> QED
  BY <1>16

------------------------------------------------------------------------------
(* Quotes that arrive, and those that waited                                *)

\* Quotes that are processed as they arrive.
LiveStep ==
  \E x : /\ store' = x.st /\ quote' = x.quote
         /\ Followed(store, quote, Moments, now', ids, NSymbols, x)

\* The clock advances by a tick.
LEMMA NowNext == ASSUME now \in Clock, Advance PROVE now' = now + 1 /\ now' \in Clock /\ market' = market
BY PaperTradingAssumption DEF Advance, Clock

\* The moments of one tick.
LEMMA MomentsIs ==
  ASSUME now' \in Clock
  PROVE  /\ Moments \in Seq(MomentSet) /\ Len(Moments) = NSymbols /\ Sorted(Moments)
         /\ \A s \in Symbols : Moments[s] = <<now', s>>
         /\ 1..NSymbols = Symbols
<1>1. NSymbols \in Nat
  BY SymbolsFinite
<1>2. Moments = [i \in 1..NSymbols |-> <<now', i>>]
  BY DEF Moments, Symbols
<1>3. \A i \in 1..NSymbols : <<now', i>> \in MomentSet
  BY DEF MomentSet, Symbols
<1>4. Moments \in Seq(MomentSet) /\ Len(Moments) = NSymbols
  BY <1>1, <1>2, <1>3
<1>5. \A s \in Symbols : Moments[s] = <<now', s>>
  BY DEF Moments
<1>6. now' \in Int
  BY TimesIs
<1>7. Sorted(Moments)
  BY <1>4, <1>5, <1>6 DEF Sorted, Symbols
<1> QED
  BY <1>4, <1>5, <1>7 DEF Symbols

\* TickLive does what LiveStep says.
LEMMA LiveIs == ASSUME Shape, TickLive PROVE LiveStep
<1>1. /\ now \in Clock /\ store \in BookSet(ids) /\ ids \in Nat /\ quote \in [Symbols -> Int]
      /\ market \in Tapes
  BY DEF Shape, Typed
<1>2. now' \in Clock
  BY <1>1, NowNext DEF TickLive
<1> DEFINE x == processQuotes(store, quote, Moments, market, now')
<1>3. store' = x.st /\ quote' = x.quote
  BY DEF TickLive
<1>4. Moments \in Seq(MomentSet) /\ Len(Moments) = NSymbols
  BY <1>2, MomentsIs
<1> HIDE DEF x
<1>5. Followed(store, quote, Moments, now', ids, NSymbols, x)
  BY <1>1, <1>2, <1>4, QuotesIs DEF x
<1> QED
  BY <1>3, <1>5 DEF LiveStep

\* Quotes were dropped: the gap is marked where they begin.
Reopens(st, x) ==
  \E y : Gapping(st, y, overflowAt) /\ x = [y EXCEPT !.mixed = Symbols]

\* The waiting quotes are processed, and the gap reopens if some were dropped.
ChartsStep ==
  \E x : /\ Followed(store, quote, buffer, now, ids, Len(buffer), x)
         /\ quote' = x.quote
         /\ IF overflowAt = Never THEN store' = x.st ELSE Reopens(x.st, store')

\* ChartsReturn does what ChartsStep says.
LEMMA ChartsIs == ASSUME Shape, ChartsReturn PROVE ChartsStep
<1>1. /\ now \in Clock /\ store \in BookSet(ids) /\ ids \in Nat /\ quote \in [Symbols -> Int]
      /\ market \in Tapes /\ buffer \in Seq(MomentSet) /\ overflowAt \in Times
  BY DEF Shape, Typed
<1> DEFINE x == processQuotes(store, quote, buffer, market, now)
           y == markPaperGap(x.st, overflowAt)
<1>2. /\ store' = IF overflowAt = Never THEN x.st ELSE [y EXCEPT !.mixed = Symbols]
      /\ quote' = x.quote
  BY DEF ChartsReturn, flushRecoveryQuotes
<1> HIDE DEF x, y
<1>3. Followed(store, quote, buffer, now, ids, Len(buffer), x)
  BY <1>1, QuotesIs DEF x
<1>4. x.st \in StoreSet
  BY <1>3 DEF Followed, QuoteStates, BookSet
<1>5. overflowAt # Never => Gapping(x.st, y, overflowAt)
  BY <1>1, <1>4, MarkGapIs, TimesIs DEF y
<1>6. overflowAt # Never => Reopens(x.st, store')
  BY <1>2, <1>5 DEF Reopens
<1>7. overflowAt = Never => store' = x.st
  BY <1>2
<1>8. /\ Followed(store, quote, buffer, now, ids, Len(buffer), x)
      /\ quote' = x.quote
      /\ IF overflowAt = Never THEN store' = x.st ELSE Reopens(x.st, store')
  BY <1>2, <1>3, <1>6, <1>7
<1> QED
  BY <1>8, Zenon DEF ChartsStep

\* The same as Gapping, of the store after the buffer was emptied.
Reopened(st, x) ==
  /\ SameBooks(st, x) /\ SameCursors(st, x) /\ x.live = st.live
  /\ x.slipped = st.slipped /\ x.mixed = Symbols
  /\ x.chk = overflowAt /\ x.gap \in Clock /\ x.gap # Never /\ x.gap <= overflowAt
  /\ st.gap # Never => x.gap <= st.gap
  /\ \A s \in ActiveSymbols(st) : st.at[s] # Never => x.gap <= st.at[s]

\* A gap that reopens leaves what Reopened says.
LEMMA ReopenedIs == ASSUME NEW st, NEW x, Reopens(st, x) PROVE Reopened(st, x)
<1>1. PICK y : Gapping(st, y, overflowAt) /\ x = [y EXCEPT !.mixed = Symbols]
  BY DEF Reopens
<1>2. y \in StoreSet
  BY <1>1 DEF Gapping, SameBooks
<1>3. /\ x \in StoreSet /\ x.mixed = Symbols /\ x.camp = y.camp /\ x.trades = y.trades
      /\ x.at = y.at /\ x.rec = y.rec /\ x.since = y.since /\ x.replayed = y.replayed
      /\ x.again = y.again /\ x.early = y.early /\ x.live = y.live /\ x.slipped = y.slipped
      /\ x.chk = y.chk /\ x.gap = y.gap
  BY <1>1, <1>2 DEF StoreSet
<1> QED
  BY <1>1, <1>3 DEF Gapping, Reopened, SameBooks, SameCursors

------------------------------------------------------------------------------
(* Commands of the user                                                     *)

\* A campaign that is replaced, dropped or moved holds nothing afterwards.
Recamped ==
  /\ store' \in BookSet(ids') /\ ids' \in Nat /\ Frame(store, store')
  /\ store'.trades = store.trades \/ store'.trades = <<>>
  /\ \A s \in Symbols :
       \/ store'.camp[s] = store.camp[s]
       \/ /\ Filled(store'.camp[s]) = {} /\ store'.camp[s].createdAt <= now
          /\ Active(store'.camp[s]) =>
               \/ store'.camp[s].createdAt = now
               \/ Active(store.camp[s]) /\ store'.camp[s].createdAt = store.camp[s].createdAt

\* A command that puts the campaign c in the place of that of s.
Places(s, c) ==
  /\ store' = Put(store, s, c) /\ CampOK(c) /\ Filled(c) = {} /\ c.createdAt <= now
  /\ Active(c) => \/ c.createdAt = now /\ ids' = ids + 1 /\ c.id = ids' /\ c.cycles = 0
                  \/ /\ ids' = ids /\ Active(store.camp[s])
                     /\ c.createdAt = store.camp[s].createdAt /\ c.id = store.camp[s].id
                     /\ c.cycles = store.camp[s].cycles
  /\ ~Active(c) => ids' = ids

\* Such a command is one of these.
LEMMA PlacesIs == ASSUME Shape, NEW s \in Symbols, NEW c, Places(s, c) PROVE Recamped
<1>1. store \in StoreSet /\ LedgerOK(store, ids) /\ ids \in Nat
  BY DEF Shape, Typed, BookSet
<1>2. c \in CampGood
  BY DEF Places, CampGood, CampOK
<1>3. Beside(store, store', s) /\ store'.camp[s] = c
  BY <1>1, <1>2, CampPut DEF Places
<1>4. /\ store' \in StoreSet /\ Frame(store, store') /\ store'.trades = store.trades
      /\ \A u \in Symbols \ {s} : store'.camp[u] = store.camp[u]
  BY <1>3 DEF Beside
<1>5. ids' \in Nat /\ ids' >= ids
  BY <1>1 DEF Places
<1>6. LedgerOK(store', ids')
  <2>1. \A i \in DOMAIN store.trades : store.trades[i].id \in 1..ids /\ store.trades[i].id \in 1..ids'
    BY <1>1, <1>5 DEF LedgerOK
  <2>2. \A i, j \in DOMAIN store.trades :
          store.trades[i].id = store.trades[j].id /\ store.trades[i].cycle = store.trades[j].cycle
            => i = j
    BY <1>1 DEF LedgerOK
  <2>3. \A k, id : Recorded(store', id, k) = Recorded(store, id, k)
    BY <1>4 DEF Recorded
  <2>4. ASSUME NEW u \in Symbols, u # s, Active(store.camp[u])
        PROVE  /\ store.camp[u].id \in 1..ids /\ store.camp[u].id \in 1..ids'
               /\ \A i \in DOMAIN store.trades :
                    store.trades[i].id = store.camp[u].id =>
                      store.trades[i].cycle \in 1..store.camp[u].cycles
               /\ \A k \in 1..store.camp[u].cycles : Recorded(store', store.camp[u].id, k)
    <3>1. /\ store.camp[u].id \in 1..ids
          /\ \A i \in DOMAIN store.trades :
               store.trades[i].id = store.camp[u].id =>
                 store.trades[i].cycle \in 1..store.camp[u].cycles
          /\ \A k \in 1..store.camp[u].cycles : Recorded(store, store.camp[u].id, k)
      BY <1>1, <2>4 DEF LedgerOK
    <3> QED
      BY <1>1, <1>5, <2>3, <3>1
  <2>5. ASSUME Active(c)
        PROVE  /\ c.id \in 1..ids'
               /\ \A i \in DOMAIN store.trades :
                    store.trades[i].id = c.id => store.trades[i].cycle \in 1..c.cycles
               /\ \A k \in 1..c.cycles : Recorded(store', c.id, k)
               /\ \A u \in Symbols : u # s /\ Active(store.camp[u]) => store.camp[u].id # c.id
    <3>1. CASE ids' = ids + 1 /\ c.id = ids' /\ c.cycles = 0
      <4>1. \A i \in DOMAIN store.trades : store.trades[i].id # c.id
        BY <1>1, <2>1, <3>1
      <4>2. \A u \in Symbols : u # s /\ Active(store.camp[u]) => store.camp[u].id # c.id
        BY <1>1, <2>4, <3>1
      <4> QED
        BY <1>1, <3>1, <4>1, <4>2
    <3>2. CASE /\ ids' = ids /\ Active(store.camp[s]) /\ c.id = store.camp[s].id
               /\ c.cycles = store.camp[s].cycles
      <4>1. /\ store.camp[s].id \in 1..ids
            /\ \A i \in DOMAIN store.trades :
                 store.trades[i].id = store.camp[s].id =>
                   store.trades[i].cycle \in 1..store.camp[s].cycles
            /\ \A k \in 1..store.camp[s].cycles : Recorded(store, store.camp[s].id, k)
            /\ \A u \in Symbols : u # s /\ Active(store.camp[u]) =>
                 store.camp[u].id # store.camp[s].id
        BY <1>1, <3>2 DEF LedgerOK
      <4> QED
        BY <2>3, <3>2, <4>1
    <3> QED
      BY <2>5, <3>1, <3>2 DEF Places
  <2>6. ASSUME NEW u \in Symbols, Active(store'.camp[u])
        PROVE  /\ store'.camp[u].id \in 1..ids'
               /\ \A i \in DOMAIN store.trades :
                    store.trades[i].id = store'.camp[u].id =>
                      store.trades[i].cycle \in 1..store'.camp[u].cycles
               /\ \A k \in 1..store'.camp[u].cycles : Recorded(store', store'.camp[u].id, k)
    <3>1. CASE u = s
      BY <1>3, <2>5, <2>6, <3>1
    <3>2. CASE u # s
      <4>1. store'.camp[u] = store.camp[u]
        BY <1>4, <3>2
      <4> QED
        BY <2>4, <2>6, <3>2, <4>1
    <3> QED
      BY <3>1, <3>2
  <2>7. ASSUME NEW u \in Symbols, NEW v \in Symbols, u # v, Active(store'.camp[u]),
               Active(store'.camp[v])
        PROVE  store'.camp[u].id # store'.camp[v].id
    <3>1. \A w \in Symbols : w # s => store'.camp[w] = store.camp[w]
      BY <1>4
    <3>2. CASE u = s
      BY <1>3, <2>5, <2>7, <3>1, <3>2
    <3>3. CASE v = s
      BY <1>3, <2>5, <2>7, <3>1, <3>3
    <3>4. CASE u # s /\ v # s
      BY <1>1, <2>7, <3>1, <3>4 DEF LedgerOK
    <3> QED
      BY <3>2, <3>3, <3>4
  <2> QED
    BY <1>4, <2>1, <2>2, <2>6, <2>7, Zenon DEF LedgerOK
<1>7. \A u \in Symbols :
        \/ store'.camp[u] = store.camp[u]
        \/ /\ Filled(store'.camp[u]) = {} /\ store'.camp[u].createdAt <= now
           /\ Active(store'.camp[u]) =>
               \/ store'.camp[u].createdAt = now
               \/ Active(store.camp[u]) /\ store'.camp[u].createdAt = store.camp[u].createdAt
  BY <1>3, <1>4 DEF Places
<1> QED
  BY <1>4, <1>5, <1>6, <1>7 DEF Recamped, BookSet

\* The commands of the user.
Commands ==
  \/ setManualGalka \/ confirmManualGalka \/ closePretrade
  \/ cancelManualSelection \/ updateManualLevel \/ resetPaper

\* The level that waits for its confirmation.
ModalOK(x) == x \in [sym : Int, level : Int] /\ (x # NoModal => x.sym \in Symbols)

\* What a command may do.
UserStep == Recamped /\ Quiet /\ ModalOK(modal')

\* A command that leaves the store alone.
LEMMA NotRecamped ==
  ASSUME Shape, store' = store, ids' = ids PROVE Recamped
BY DEF Shape, Typed, Recamped, Frame

\* cancelManualSelection drops a campaign that holds nothing.
LEMMA Dropped ==
  ASSUME Shape, NEW s \in Symbols, store' = [store EXCEPT !.camp[s] = NoCampaign], ids' = ids
  PROVE  Recamped
<1>1. NoCampaign.createdAt <= now
  <2>1. NoCampaign.createdAt = 0
    BY DEF NoCampaign, createCampaign
  <2> QED
    BY <2>1, TimesIs DEF Shape, Typed
<1>2. Places(s, NoCampaign)
  BY <1>1, NoneOK DEF Places, Put
<1> QED
  BY <1>2, PlacesIs

\* A new campaign.
Created(c, i, t) ==
  CampOK(c) /\ Active(c) /\ Filled(c) = {} /\ c.id = i /\ c.createdAt = t /\ c.cycles = 0

\* createCampaign makes one.
LEMMA CreatedIs ==
  ASSUME NEW i \in Nat, NEW level \in Int, NEW t \in Int
  PROVE  Created(createCampaign(i, "manual", level, t), i, t)
<1> DEFINE c == createCampaign(i, "manual", level, t)
<1>1. CampOK(c) /\ Active(c) /\ Filled(c) = {}
  BY CreatedOK
<1>2. c.id = i /\ c.createdAt = t /\ c.cycles = 0
  BY DEF createCampaign
<1> QED
  BY <1>1, <1>2 DEF Created

\* confirmManualGalka puts a new campaign in the place of one.
LEMMA ConfirmIs ==
  ASSUME Shape, confirmManualGalka PROVE Recamped /\ ModalOK(modal')
<1>1. modal \in [sym : Int, level : Int] /\ modal.sym \in Symbols /\ modal' = NoModal
  BY DEF confirmManualGalka, Shape, Typed
<1>2. ModalOK(modal')
  BY <1>1 DEF ModalOK, NoModal
<1>3. CASE ~Allowed(modal.sym, modal.level)
  BY <1>2, <1>3, NotRecamped DEF confirmManualGalka
<1>4. CASE Allowed(modal.sym, modal.level)
  <2>0. PICK i \in Nat : i = ids'
    BY <1>4 DEF confirmManualGalka, Shape, Typed
  <2> DEFINE s == modal.sym
             c == createCampaign(i, "manual", modal.level, now)
  <2>1. store' = [store EXCEPT !.camp[s] = c] /\ ids' = ids + 1
    BY <1>4, <2>0 DEF confirmManualGalka
  <2>2. i = ids' /\ ids \in Nat /\ now \in Int /\ modal.level \in Int /\ s \in Symbols
    BY <1>1, <2>0, <2>1, TimesIs DEF Shape, Typed
  <2>3. Created(c, i, now)
    BY <2>0, <2>2, CreatedIs, Zenon
  <2> HIDE DEF c, s
  <2>4. Places(s, c)
    BY <2>1, <2>2, <2>3 DEF Places, Put, Created
  <2> QED
    BY <1>2, <2>2, <2>4, PlacesIs
<1> QED
  BY <1>3, <1>4

\* updateManualLevel moves a level that holds nothing.
LEMMA UpdateIs ==
  ASSUME Shape, updateManualLevel PROVE Recamped
<1>1. PICK s \in Symbols, level \in GalkaLevels :
        /\ Editable(store.camp[s])
        /\ Command([store EXCEPT !.camp[s] = moveManualCampaign(@, level)])
  BY DEF updateManualLevel
<1> DEFINE c == store.camp[s]
           d == moveManualCampaign(c, level)
<1>2. store' = [store EXCEPT !.camp[s] = d] /\ ids' = ids
  BY <1>1 DEF Command
<1>3. CampOK(c) /\ c \in CampSet /\ level \in Int /\ c.createdAt <= now
  BY StoreIs, PaperTradingAssumption DEF Shape, Typed, Cursors
<1>4. Active(c)
  <2>1. c # NoCampaign
    BY <1>1 DEF Editable, NoCampaign, createCampaign
  <2> QED
    BY <1>3, <2>1 DEF CampOK, CampSet, Active
<1>5. CampOK(d) /\ Active(d) /\ Filled(d) = {}
  BY <1>1, <1>3, <1>4, MovedOK
<1>6. d.createdAt = c.createdAt /\ d.id = c.id /\ d.cycles = c.cycles
  BY <1>3 DEF moveManualCampaign, CampSet
<1> HIDE DEF d
<1>7. Places(s, d)
  BY <1>2, <1>3, <1>4, <1>5, <1>6 DEF Places, Put
<1> QED
  BY <1>7, PlacesIs

\* Without campaigns and trades the ledger is in step.
LEMMA NoneLedger ==
  ASSUME NEW x \in StoreSet, NEW n \in Nat, x.trades = <<>>,
         \A s \in Symbols : ~Active(x.camp[s])
  PROVE  LedgerOK(x, n)
BY DEF LedgerOK, Recorded

\* resetPaper leaves no campaign and no trade.
LEMMA ResetIs ==
  ASSUME Shape, resetPaper PROVE Recamped
<1>1. store' = [store EXCEPT !.camp = DefaultStore.camp, !.trades = <<>>, !.realized = 0]
      /\ ids' = ids
  BY DEF resetPaper, Command
<1>2. store \in StoreSet /\ ids \in Nat
  BY StoreIs DEF Shape, Typed
<1>3. DefaultStore.camp = [s \in Symbols |-> NoCampaign]
  BY DEF DefaultStore
<1>4. DefaultStore.camp \in [Symbols -> CampGood]
  BY <1>3, NoneOK DEF CampGood, CampOK
<1>5. /\ store' \in StoreSet /\ Frame(store, store') /\ store'.trades = <<>>
      /\ store'.camp = DefaultStore.camp
  <2> DEFINE camp == DefaultStore.camp
             x == [store EXCEPT !.camp = camp, !.trades = <<>>, !.realized = 0]
  <2>1. camp \in [Symbols -> CampGood] /\ <<>> \in Seq(TradeSet) /\ 0 \in Int
    BY <1>4
  <2> HIDE DEF camp
  <2>2. x \in StoreSet /\ Frame(store, x) /\ x.trades = <<>> /\ x.camp = camp
    BY <1>2, <2>1 DEF StoreSet, Frame
  <2> QED
    BY <1>1, <2>2 DEF camp
<1>6. \A s \in Symbols : store'.camp[s] = NoCampaign
  BY <1>3, <1>5
<1>7. LedgerOK(store', ids')
  BY <1>1, <1>2, <1>5, <1>6, NoneOK, NoneLedger
<1>8. NoCampaign.createdAt <= now
  <2>1. NoCampaign.createdAt = 0
    BY DEF NoCampaign, createCampaign
  <2> QED
    BY <2>1, TimesIs DEF Shape, Typed
<1> QED
  BY <1>1, <1>2, <1>5, <1>6, <1>7, <1>8, NoneOK DEF Recamped, BookSet

\* Every command does what UserStep says.
LEMMA UserIs ==
  ASSUME Shape, Commands PROVE UserStep
<1>0. ModalOK(modal) /\ ModalOK(NoModal)
  BY DEF Shape, Typed, ModalOK, NoModal
<1>1. CASE setManualGalka
  <2>1. PICK s \in Symbols, level \in GalkaLevels : modal' = [sym |-> s, level |-> level]
    BY <1>1 DEF setManualGalka
  <2>2. s \in Int /\ level \in Int
    BY PaperTradingAssumption DEF Symbols
  <2>3. ModalOK(modal')
    BY <2>1, <2>2 DEF ModalOK
  <2>4. Recamped
    BY <1>1, NotRecamped DEF setManualGalka
  <2> QED
    BY <1>1, <2>3, <2>4 DEF setManualGalka, UserStep
<1>2. CASE confirmManualGalka
  BY <1>2, ConfirmIs DEF confirmManualGalka, UserStep
<1>3. CASE closePretrade
  BY <1>0, <1>3, NotRecamped DEF closePretrade, UserStep
<1>4. CASE cancelManualSelection
  <2>1. PICK s \in Symbols : Command([store EXCEPT !.camp[s] = NoCampaign])
    BY <1>4 DEF cancelManualSelection
  <2> QED
    BY <1>0, <2>1, Dropped DEF Command, UserStep
<1>5. CASE updateManualLevel
  BY <1>0, <1>5, UpdateIs DEF updateManualLevel, Command, UserStep
<1>6. CASE resetPaper
  BY <1>0, <1>6, ResetIs DEF resetPaper, Command, UserStep
<1> QED
  BY <1>1, <1>2, <1>3, <1>4, <1>5, <1>6 DEF Commands

------------------------------------------------------------------------------
(* Shape is inductive                                                       *)

\* Either the books are those of st, or each campaign was one of st.
LEMMA HeirsCreated ==
  ASSUME NEW st \in StoreSet, NEW x \in StoreSet, Heirs(st, x), NEW t \in Int, 0 <= t,
         \A s \in Symbols : st.camp[s].createdAt <= t
  PROVE  \A s \in Symbols : x.camp[s].createdAt <= t
<1> SUFFICES ASSUME NEW s \in Symbols PROVE x.camp[s].createdAt <= t
  OBVIOUS
<1>1. CASE Active(x.camp[s])
  BY <1>1 DEF Heirs
<1>2. CASE ~Active(x.camp[s])
  <2>1. x.camp[s] = NoCampaign
    BY <1>2, CampIn, ActiveOrNone
  <2>2. NoCampaign.createdAt = 0
    BY DEF NoCampaign, createCampaign
  <2> QED
    BY <2>1, <2>2
<1> QED
  BY <1>1, <1>2

\* Gapped changes a task in nothing but its flag.
LEMMA GappedIs ==
  ASSUME Typed
  PROVE  /\ Gapped \in TaskSet /\ Gapped.phase = task.phase /\ Gapped.end = task.end
         /\ Gapped.at = task.at /\ Gapped.after = task.after /\ Gapped.gapped = Recovering
         /\ task = Idle => Gapped = Idle
<1>1. task \in TaskSet /\ Recovering \in BOOLEAN
  BY DEF Typed, Recovering
<1> DEFINE g == Recovering
           x == [task EXCEPT !.gapped = g]
<1>2. g \in BOOLEAN /\ (g = (task.phase # "idle"))
  BY <1>1 DEF Recovering
<1> HIDE DEF g
<1>3. /\ x \in TaskSet /\ x.phase = task.phase /\ x.end = task.end
      /\ x.at = task.at /\ x.after = task.after /\ x.gapped = g
  BY <1>1, <1>2 DEF TaskSet
<1>4. ASSUME task = Idle PROVE x = Idle
  <2>1. task.phase = "idle" /\ task.gapped = FALSE
    BY <1>4 DEF Idle
  <2>2. g = FALSE
    BY <1>2, <2>1
  <2>3. [task EXCEPT !.gapped = FALSE] = task
    BY <1>1, <2>1 DEF TaskSet
  <2> QED
    BY <1>4, <2>2, <2>3
<1> QED
  BY <1>3, <1>4 DEF x, g, Gapped

\* The idle task.
LEMMA IdleIs ==
  /\ Idle \in TaskSet /\ Idle.phase = "idle" /\ Idle.gapped = FALSE
  /\ Idle.at = 0 /\ Idle.end = 0
BY TimesIs DEF Idle, TaskSet, Skip

\* What a store must be for the cursors to be where they should.
Dated(st, t, p) ==
  /\ st.chk <= t /\ st.gap <= t
  /\ \A s \in Symbols : st.at[s] <= t /\ st.rec[s] <= t /\ st.camp[s].createdAt <= t
  /\ st.chk = Never => st.gap = Never /\ p = "down"
  /\ st.chk = Never <=> st.since = Never
  /\ \A s \in Symbols : st.chk = Never <=> st.at[s] = Never
  /\ \A s \in Symbols : st.rec[s] = Never \/ \E m \in Minutes : st.rec[s] = CloseOf(m)

\* No cursor of a candle is later than the replay, and no starting point.
Timed(st, tk) ==
  /\ tk.phase # "idle" => \A s \in Symbols : st.rec[s] <= tk.at
  /\ tk.phase = "fetch" => \A s \in Symbols : tk.after[s] <= tk.at + 1

\* Cursors, by its parts.
LEMMA CursorsAre == (Cursors <=> Dated(store, now, page) /\ Timed(store, task))
BY DEF Cursors, Dated, Timed, Recovering

\* The same of the next state.
LEMMA CursorsWill == (Cursors' <=> Dated(store', now', page') /\ Timed(store', task'))
BY DEF Cursors, Dated, Timed, Recovering

\* The page's own state.
Kempt(p, w, gap, tk, b, o, t) ==
  /\ p = "down" => w = "none" /\ tk.phase = "idle"
  /\ tk.phase = "idle" => tk = Idle /\ b = <<>> /\ o = Never
  /\ p \in {"hidden", "frozen"} => gap # Never
  /\ tk.gapped => gap # Never
  /\ tk.phase # "idle" => tk.at <= t /\ tk.end = LastClosed(tk.at)
  /\ \A i \in 1..Len(b) : b[i][1] > tk.at /\ b[i][1] <= t
  /\ Sorted(b)
  /\ o # Never => o <= t /\ \A i \in 1..Len(b) : o <= b[i][1]

\* Paged, by what it is about.
LEMMA PagedIs == Paged <=> Kempt(page, ws, store.gap, task, buffer, overflowAt, now)
BY DEF Paged, Kempt, Recovering

\* The same of the next state.
LEMMA PagedWill ==
  Paged' <=> Kempt(page', ws', store'.gap, task', buffer', overflowAt', now')
BY DEF Paged, Kempt, Recovering

\* Shape is kept by a step that changes nothing,
LEMMA StutterShape == ASSUME Shape, UNCHANGED vars PROVE Shape'
BY DEF Shape, Typed, Paged, Cursors, Recovering, vars, env, user

\* by a tick that nobody sees,
LEMMA TickUnseenShape == ASSUME Shape, TickUnseen PROVE Shape'
<1>1. Typed /\ now \in Clock
  BY DEF Shape, Typed
<1>2. now' = now + 1 /\ now' \in Clock /\ market' = market
  BY <1>1, NowNext DEF TickUnseen
<1>3. /\ store' = store /\ page' = page /\ ws' = ws /\ quote' = quote /\ task' = task
      /\ buffer' = buffer /\ overflowAt' = overflowAt /\ rerun' = rerun /\ modal' = modal
      /\ ids' = ids
  BY DEF TickUnseen, user
<1>4. now \in Int /\ now' \in Int
  BY <1>1, <1>2, TimesIs
<1>5. Typed'
  BY <1>1, <1>2, <1>3 DEF Typed
<1>6. Paged'
  <2>1. Kempt(page, ws, store.gap, task, buffer, overflowAt, now)
    BY PagedIs DEF Shape
  <2>2. task.at \in Int /\ overflowAt \in Int /\ \A i \in 1..Len(buffer) : buffer[i][1] \in Int
    BY <1>1, TimesIs, MomentIs DEF Typed, TaskSet
  <2>3. Kempt(page', ws', store'.gap, task', buffer', overflowAt', now')
    BY <1>2, <1>3, <1>4, <2>1, <2>2 DEF Kempt
  <2> QED
    BY <2>3, PagedWill
<1>7. Cursors'
  <2>1. Dated(store, now, page) /\ Timed(store, task)
    BY CursorsAre DEF Shape
  <2>2. /\ store.chk \in Int /\ store.gap \in Int
        /\ \A s \in Symbols : store.at[s] \in Int /\ store.rec[s] \in Int
                              /\ store.camp[s].createdAt \in Int
    BY <1>1, StoreIs, TimesIs DEF Typed
  <2>3. Dated(store', now', page')
    BY <1>2, <1>3, <1>4, <2>1, <2>2 DEF Dated
  <2> QED
    BY <1>3, <2>1, <2>3, CursorsWill
<1> QED
  BY <1>5, <1>6, <1>7 DEF Shape

\* by a tick whose quotes are processed,
LEMMA LiveShape == ASSUME Shape, TickLive PROVE Shape'
<1>1. Typed /\ now \in Clock /\ ids \in Nat
  BY DEF Shape, Typed
<1>2. now' = now + 1 /\ now' \in Clock /\ market' = market
  BY <1>1, NowNext DEF TickLive
<1>3. /\ page' = page /\ ws' = ws /\ task' = task /\ buffer' = buffer
      /\ overflowAt' = overflowAt /\ rerun' = rerun /\ modal' = modal /\ ids' = ids
      /\ ~Recovering /\ page # "down"
  BY DEF TickLive, user, Running
<1>4. now \in Int /\ now' \in Int /\ 0 <= now'
  BY <1>1, <1>2, TimesIs DEF Clock
<1>5. PICK x : /\ store' = x.st /\ quote' = x.quote
               /\ Followed(store, quote, Moments, now', ids, NSymbols, x)
  BY LiveIs DEF LiveStep
<1>6. /\ store' \in BookSet(ids) /\ quote' \in [Symbols -> Int] /\ Heirs(store, store')
      /\ Marks(store, store', Moments, now', NSymbols)
  BY <1>5 DEF Followed, QuoteStates, Follows
<1>7. Typed'
  BY <1>1, <1>2, <1>3, <1>6 DEF Typed
<1>8. /\ store'.gap = store.gap /\ store'.rec = store.rec /\ store'.since = store.since
      /\ store'.chk = now'
  <2>1. NSymbols # 0
    BY PaperTradingAssumption
  <2> QED
    BY <1>6, <2>1 DEF Marks
<1>9. \A s \in Symbols : store'.at[s] \in Times /\ store'.at[s] >= now' /\ store'.at[s] <= now'
  <2> SUFFICES ASSUME NEW s \in Symbols
               PROVE  store'.at[s] \in Times /\ store'.at[s] >= now' /\ store'.at[s] <= now'
    OBVIOUS
  <2>1. Moments[s] = <<now', s>> /\ s \in 1..NSymbols /\ \A i \in 1..NSymbols : Moments[i] = <<now', i>>
    BY <1>2, MomentsIs
  <2>2. store'.at[s] >= now'
    BY <1>6, <2>1 DEF Marks
  <2>3. store'.at[s] = store.at[s] \/ store'.at[s] = now'
    BY <1>6, <2>1 DEF Marks
  <2>4. store'.at[s] \in Times /\ store.at[s] <= now /\ store.at[s] \in Int
    BY <1>1, <1>6, StoreIs, TimesIs DEF Shape, Cursors, Typed
  <2> QED
    BY <1>2, <1>4, <2>2, <2>3, <2>4
<1>10. Paged'
  <2>1. Kempt(page, ws, store.gap, task, buffer, overflowAt, now)
    BY PagedIs DEF Shape
  <2>2. buffer = <<>> /\ overflowAt = Never /\ task.phase = "idle"
    BY <1>3 DEF Shape, Paged, Recovering
  <2>3. Kempt(page', ws', store'.gap, task', buffer', overflowAt', now')
    BY <1>3, <1>8, <2>1, <2>2 DEF Kempt
  <2> QED
    BY <2>3, PagedWill
<1>11. Cursors'
  <2>1. Dated(store, now, page) /\ Timed(store, task)
    BY CursorsAre DEF Shape
  <2>2. /\ store.gap \in Int /\ store \in StoreSet /\ store' \in StoreSet
        /\ \A s \in Symbols : store.rec[s] \in Int /\ store.camp[s].createdAt \in Int
    BY <1>1, <1>6, StoreIs, TimesIs DEF Typed
  <2>3. \A s \in Symbols : store'.camp[s].createdAt <= now'
    <3>1. \A s \in Symbols : store.camp[s].createdAt <= now'
      BY <1>2, <1>4, <2>1, <2>2 DEF Dated
    <3> QED
      BY <1>4, <1>6, <2>2, <3>1, HeirsCreated
  <2>4. now' # Never /\ now' \in Int /\ now' >= now' /\ \A s \in Symbols : store'.at[s] # Never
    BY <1>2, <1>4, <1>9, TimesIs DEF Never
  <2>5. store.chk # Never
    BY <1>3, <2>1 DEF Dated
  <2>6. Dated(store', now', page')
    BY <1>2, <1>3, <1>4, <1>8, <1>9, <2>1, <2>2, <2>3, <2>4, <2>5 DEF Dated
  <2>7. Timed(store', task')
    BY <1>3 DEF Timed, Recovering
  <2> QED
    BY <2>6, <2>7, CursorsWill
<1> QED
  BY <1>7, <1>10, <1>11 DEF Shape

\* The buffer as it is before a step.
Base == [b |-> buffer, at |-> overflowAt]

\* What waits before a tick begins somewhere.
LEMMA FrontIs ==
  ASSUME Shape, TickBuffered
  PROVE  /\ Base \in Buffers /\ Base.b = buffer /\ Base.at = overflowAt
         /\ \A j \in 1..Len(buffer) : buffer[j][1] <= now' /\ buffer[j][1] \in Int
         /\ overflowAt # Never => FrontAt(Base, overflowAt)
         /\ overflowAt = Never /\ Len(buffer) = 0 => FrontAt(Base, now')
         /\ overflowAt = Never /\ Len(buffer) # 0 => FrontAt(Base, buffer[1][1]) /\ 1 \in 1..Len(buffer)
<1>1. Typed /\ now \in Clock /\ buffer \in Seq(MomentSet) /\ Len(buffer) <= MaxBuffer
      /\ overflowAt \in Times
  BY DEF Shape, Typed
<1>2. now' = now + 1 /\ now \in Int /\ now' \in Int
  BY <1>1, NowNext, TimesIs DEF TickBuffered
<1>3. Base \in Buffers /\ Base.b = buffer /\ Base.at = overflowAt
  BY <1>1 DEF Buffers, Base
<1>4. Kempt(page, ws, store.gap, task, buffer, overflowAt, now)
  BY PagedIs DEF Shape
<1>5. overflowAt \in Int /\ \A i \in 1..Len(buffer) : buffer[i][1] \in Int /\ buffer[i][1] <= now
  BY <1>1, <1>4, TimesIs, MomentIs DEF Kempt
<1>6. overflowAt # Never => FrontAt(Base, overflowAt)
  BY <1>2, <1>3, <1>4, <1>5 DEF FrontAt, Kempt
<1>7. overflowAt = Never /\ Len(buffer) = 0 => FrontAt(Base, now')
  BY <1>2, <1>3 DEF FrontAt
<1>8. ASSUME overflowAt = Never, Len(buffer) # 0
      PROVE  FrontAt(Base, buffer[1][1]) /\ 1 \in 1..Len(buffer)
  <2>1. 1 \in 1..Len(buffer)
    BY <1>1, <1>8
  <2>2. \A i \in 1..Len(buffer) : buffer[1][1] <= buffer[i][1]
    BY <1>4, <2>1 DEF Kempt, Sorted
  <2> QED
    BY <1>2, <1>3, <1>5, <1>8, <2>1, <2>2 DEF FrontAt
<1> QED
  BY <1>2, <1>3, <1>5, <1>6, <1>7, <1>8

\* What the buffer is after a step, seen from a front of it.
Buffering(f, r) ==
  buffer' = r.b /\ overflowAt' = r.at /\ Filling(Base, f, r, NSymbols)

\* TickBuffered does what Filling says.
LEMMA FillsIs ==
  ASSUME Shape, TickBuffered, NEW f \in Int, FrontAt(Base, f)
  PROVE  \E r : Buffering(f, r)
<1>1. /\ Base \in Buffers /\ Base.b = buffer
      /\ \A j \in 1..Len(buffer) : buffer[j][1] <= now' /\ buffer[j][1] \in Int
  BY FrontIs
<1>2. Sorted(buffer) /\ now' \in Clock
  BY NowNext DEF Shape, Paged, Typed, TickBuffered
<1>3. Filling(Base, f, Buffered(Base), NSymbols)
  BY <1>1, <1>2, BufferedIs
<1>4. buffer' = Buffered(Base).b /\ overflowAt' = Buffered(Base).at
  BY DEF TickBuffered, Base
<1> QED
  BY <1>3, <1>4 DEF Buffering

\* There is such a place.
LEMMA FrontExists == ASSUME Shape, TickBuffered PROVE \E f \in Int : FrontAt(Base, f)
<1>1. overflowAt \in Int /\ now' \in Int
  BY NowNext, TimesIs DEF Shape, Typed, TickBuffered
<1>2. CASE overflowAt # Never
  BY <1>1, <1>2, FrontIs
<1>3. CASE overflowAt = Never /\ Len(buffer) = 0
  BY <1>1, <1>3, FrontIs
<1>4. CASE overflowAt = Never /\ Len(buffer) # 0
  BY <1>4, FrontIs
<1> QED
  BY <1>2, <1>3, <1>4

\* Shape is kept by a tick whose quotes wait,
LEMMA BufferedShape == ASSUME Shape, TickBuffered PROVE Shape'
<1>1. Typed /\ now \in Clock /\ buffer \in Seq(MomentSet) /\ Len(buffer) <= MaxBuffer
      /\ overflowAt \in Times
  BY DEF Shape, Typed
<1>2. now' = now + 1 /\ now' \in Clock /\ market' = market
  BY <1>1, NowNext DEF TickBuffered
<1>3. /\ store' = store /\ page' = page /\ ws' = ws /\ task' = task /\ rerun' = rerun
      /\ modal' = modal /\ ids' = ids /\ Recovering
      /\ quote' = [s \in Symbols |-> PriceIn(market, s, now')]
  BY DEF TickBuffered, user
<1>4. now \in Int /\ now' \in Int
  BY <1>1, <1>2, TimesIs
<1>7. Kempt(page, ws, store.gap, task, buffer, overflowAt, now)
  BY PagedIs DEF Shape
<1>8. /\ task.at \in Int /\ overflowAt \in Int /\ task.at <= now
      /\ \A i \in 1..Len(buffer) : buffer[i][1] \in Int /\ buffer[i][1] <= now
  <2>1. task.at \in Int /\ overflowAt \in Int /\ \A i \in 1..Len(buffer) : buffer[i][1] \in Int
    BY <1>1, TimesIs, MomentIs DEF Typed, TaskSet
  <2> QED
    BY <1>3, <1>7, <2>1 DEF Kempt, Recovering
<1>9. PICK f \in Int : FrontAt(Base, f)
  BY FrontExists
<1>10. PICK r : Buffering(f, r)
  BY <1>9, FillsIs
<1>11. /\ buffer' \in Seq(MomentSet) /\ Len(buffer') <= MaxBuffer /\ overflowAt' \in Times
       /\ Sorted(buffer') /\ \A j \in 1..Len(buffer') : buffer'[j][1] <= now'
       /\ \A j \in 1..Len(buffer') :
            buffer'[j][1] = now' \/ \E i \in 1..Len(buffer) : buffer'[j] = buffer[i]
       /\ overflowAt' # Never =>
            overflowAt' <= now' /\ \A i \in 1..Len(buffer') : overflowAt' <= buffer'[i][1]
  BY <1>10, FrontIs DEF Filling, Buffers, FrontAt, Buffering
<1>12. Typed'
  <2>1. quote' \in [Symbols -> Int]
    BY <1>1, <1>2, <1>3, PriceType DEF Typed
  <2> QED
    BY <1>1, <1>2, <1>3, <1>11, <2>1 DEF Typed
<1>13. Paged'
  <2>1. \A j \in 1..Len(buffer') : buffer'[j][1] > task.at
    BY <1>2, <1>4, <1>7, <1>8, <1>11 DEF Kempt
  <2>2. Kempt(page', ws', store'.gap, task', buffer', overflowAt', now')
    BY <1>2, <1>3, <1>4, <1>7, <1>8, <1>11, <2>1 DEF Kempt, Recovering
  <2> QED
    BY <2>2, PagedWill
<1>14. Cursors'
  <2>1. Dated(store, now, page) /\ Timed(store, task)
    BY CursorsAre DEF Shape
  <2>2. /\ store.chk \in Int /\ store.gap \in Int
        /\ \A s \in Symbols : store.at[s] \in Int /\ store.rec[s] \in Int
                              /\ store.camp[s].createdAt \in Int
    BY <1>1, StoreIs, TimesIs DEF Typed
  <2>3. Dated(store', now', page')
    BY <1>2, <1>3, <1>4, <2>1, <2>2 DEF Dated
  <2> QED
    BY <1>3, <2>1, <2>3, CursorsWill
<1> QED
  BY <1>12, <1>13, <1>14 DEF Shape

\* The gap is marked.
LEMMA MarkedDated ==
  ASSUME Shape, Gapping(store, store', now), now' = now, ids' = ids, page # "down"
  PROVE  /\ store' \in BookSet(ids') /\ store'.gap # Never /\ store'.rec = store.rec
         /\ \A p : Dated(store', now', p)
<1>1. /\ SameBooks(store, store') /\ SameCursors(store, store')
      /\ store'.chk = now /\ store'.gap \in Clock /\ store'.gap # Never /\ store'.gap <= now
  BY DEF Gapping
<1>2. store \in BookSet(ids) /\ now \in Clock /\ now # Never /\ now \in Int
  BY TimesIs DEF Shape, Typed
<1>3. store' \in BookSet(ids')
  BY <1>1, <1>2, SameBooksIs DEF BookSet, SameBooks
<1>4. Dated(store, now, page)
  BY CursorsAre DEF Shape
<1>5. \A p : Dated(store', now', p)
  BY <1>1, <1>2, <1>4 DEF Dated, SameBooks, SameCursors
<1> QED
  BY <1>1, <1>3, <1>5 DEF SameCursors

\* by a gap that begins,
LEMMA LostShape ==
  ASSUME Shape, page # "down", store' = markPaperGap(store, now), task' = Gapped,
         UNCHANGED <<env, quote, buffer, overflowAt, rerun, user>>,
         page' \in {"shown", "hidden"}, ws' \in {"none", "open", "lost"}
  PROVE  Shape'
<1>1. Typed /\ now \in Clock /\ store \in StoreSet
  BY StoreIs DEF Shape, Typed
<1>2. /\ now' = now /\ market' = market /\ quote' = quote /\ buffer' = buffer
      /\ overflowAt' = overflowAt /\ rerun' = rerun /\ modal' = modal /\ ids' = ids
  BY DEF env, user
<1>3. Gapping(store, store', now)
  BY <1>1, MarkGapIs
<1>4. /\ store' \in BookSet(ids') /\ store'.gap # Never /\ store'.rec = store.rec
      /\ Dated(store', now', page')
  BY <1>2, <1>3, MarkedDated
<1>5. /\ task' \in TaskSet /\ task'.phase = task.phase /\ task'.end = task.end
      /\ task'.at = task.at /\ task'.after = task.after /\ (task = Idle => task' = Idle)
  BY <1>1, GappedIs
<1>6. Typed'
  BY <1>1, <1>2, <1>4, <1>5 DEF Typed
<1>7. Paged'
  <2>1. Kempt(page, ws, store.gap, task, buffer, overflowAt, now)
    BY PagedIs DEF Shape
  <2>2. Kempt(page', ws', store'.gap, task', buffer', overflowAt', now')
    BY <1>2, <1>4, <1>5, <2>1 DEF Kempt
  <2> QED
    BY <2>2, PagedWill
<1>8. Cursors'
  <2>1. Timed(store, task)
    BY CursorsAre DEF Shape
  <2>2. Timed(store', task')
    BY <1>4, <1>5, <2>1 DEF Timed
  <2> QED
    BY <1>4, <2>2, CursorsWill
<1> QED
  BY <1>6, <1>7, <1>8 DEF Shape

\* by a socket that is lost and a page that is hidden,
LEMMA GapShape ==
  ASSUME Shape, SocketLost \/ Hide PROVE Shape'
<1>1. page # "down" /\ page' \in {"shown", "hidden"} /\ ws' \in {"none", "open", "lost"}
  BY DEF SocketLost, Hide, Running, Shape, Typed
<1>2. /\ store' = markPaperGap(store, now) /\ task' = Gapped
      /\ UNCHANGED <<env, quote, buffer, overflowAt, rerun, user>>
  BY DEF SocketLost, Hide
<1> QED
  BY <1>1, <1>2, LostShape

\* A replay begins, unless one is under way.
LEMMA CatchUpOK ==
  ASSUME Shape, NEW tk, tk = task \/ tk = catchUp(store)
  PROVE  /\ tk \in TaskSet /\ Timed(store, tk) /\ (tk.gapped => task.gapped)
         /\ tk = task \/ (~Recovering /\ tk.phase = "fetch" /\ tk.at = now /\ tk.end = LastClosed(now))
<1>1. Typed /\ now \in Clock /\ now \in Int /\ store \in StoreSet /\ Timed(store, task)
  BY StoreIs, TimesIs, CursorsAre DEF Shape, Typed
<1>2. CASE tk = task
  BY <1>1, <1>2 DEF Typed
<1>3. CASE tk # task
  <2>1. tk = catchUp(store) /\ ~Recovering /\ Begins(store, tk)
    BY <1>1, <1>3, CatchUpIs
  <2>2. /\ tk \in TaskSet /\ tk.phase = "fetch" /\ tk.at = now /\ tk.end = LastClosed(now)
        /\ ~tk.gapped
    BY <2>1 DEF Begins
  <2>3. \A s \in Symbols : tk.after[s] <= now + 1
    <3> SUFFICES ASSUME NEW s \in Symbols PROVE tk.after[s] <= now + 1
      OBVIOUS
    <3>1. /\ store.chk \in Int /\ store.gap \in Int /\ store.at[s] \in Int
          /\ store.rec[s] \in Int /\ store.camp[s].createdAt \in Int
      BY <1>1, StoreIs, TimesIs DEF Typed
    <3>2. /\ store.chk <= now /\ store.gap <= now /\ store.at[s] <= now /\ store.rec[s] <= now
          /\ store.camp[s].createdAt <= now
      BY DEF Shape, Cursors
    <3>3. CASE Active(store.camp[s])
      <4>1. Starts(store, s, now, tk.after[s])
        BY <2>1, <3>3 DEF Begins
      <4>2. PICK least \in Int :
              /\ tk.after[s] \in {least, store.rec[s] + 1, now - MaxRecovery,
                                  store.camp[s].createdAt}
              /\ least = now \/ least \in CursorsOf(store, s)
        BY <4>1 DEF Starts
      <4>3. least <= now
        BY <1>1, <3>1, <3>2, <4>2 DEF CursorsOf
      <4>4. now - MaxRecovery <= now /\ now - MaxRecovery \in Int
        BY <1>1, TimesIs, PaperTradingAssumption
      <4> QED
        BY <1>1, <3>1, <3>2, <4>2, <4>3, <4>4
    <3>4. CASE ~Active(store.camp[s])
      <4>1. tk.after[s] = Skip
        BY <2>1, <3>4 DEF Begins
      <4> QED
        BY <1>1, <4>1 DEF Skip, Clock
    <3> QED
      BY <3>3, <3>4
  <2>4. Timed(store, tk)
    BY <2>2, <2>3 DEF Timed, Shape, Cursors
  <2> QED
    BY <2>1, <2>2, <2>4
<1> QED
  BY <1>2, <1>3

\* The books and the cursors stay, or the store follows quotes again.
LEMMA SameDated ==
  ASSUME Shape, SameBooks(store, store'), SameCursors(store, store'), store'.chk = store.chk,
         store'.gap = store.gap, now' = now, ids' = ids, page # "down"
  PROVE  store' \in BookSet(ids') /\ \A p : Dated(store', now', p)
<1>1. store \in BookSet(ids)
  BY DEF Shape, Typed
<1>2. store' \in BookSet(ids')
  BY <1>1, SameBooksIs DEF BookSet, SameBooks
<1>3. Dated(store, now, page)
  BY CursorsAre DEF Shape
<1>4. \A p : Dated(store', now', p)
  BY <1>3 DEF Dated, SameBooks, SameCursors
<1> QED
  BY <1>2, <1>4

\* by what starts a replay,
LEMMA RunShape ==
  ASSUME Shape, page # "down" \/ (page' # "down" /\ store.chk # Never),
         SameBooks(store, store'), SameCursors(store, store'),
         store'.chk = store.chk, store'.gap = store.gap,
         task' = task \/ task' = catchUp(store),
         UNCHANGED <<env, quote, buffer, overflowAt, user>>, rerun' \in BOOLEAN,
         page' \in {"shown", "hidden", "frozen"}, page' \in {"hidden", "frozen"} => store.gap # Never,
         ws' \in {"none", "open", "lost"}
  PROVE  Shape'
<1>1. Typed /\ now \in Clock /\ store \in StoreSet /\ store \in BookSet(ids)
  BY StoreIs DEF Shape, Typed
<1>2. /\ now' = now /\ market' = market /\ quote' = quote /\ buffer' = buffer
      /\ overflowAt' = overflowAt /\ modal' = modal /\ ids' = ids
  BY DEF env, user
<1>3. /\ task' \in TaskSet /\ Timed(store, task') /\ (task'.gapped => task.gapped)
      /\ task' = task \/ (~Recovering /\ task'.phase = "fetch" /\ task'.at = now
                          /\ task'.end = LastClosed(now))
  BY CatchUpOK
<1>4. store' \in BookSet(ids')
  BY <1>1, <1>2, SameBooksIs DEF BookSet, SameBooks
<1>5. Typed'
  BY <1>1, <1>2, <1>3, <1>4 DEF Typed
<1>6. Paged'
  <2>1. Kempt(page, ws, store.gap, task, buffer, overflowAt, now) /\ page' # "down"
    BY PagedIs DEF Shape
  <2>2. CASE task' = task
    <3>1. Kempt(page', ws', store'.gap, task', buffer', overflowAt', now')
      BY <1>2, <2>1, <2>2 DEF Kempt
    <3> QED
      BY <3>1, PagedWill
  <2>3. CASE task' # task
    <3>1. buffer = <<>> /\ overflowAt = Never /\ ~task'.gapped
      BY <1>3, <2>1, <2>3 DEF Kempt, Recovering, Shape, Paged, Idle
    <3>2. now \in Int /\ task'.phase # "idle" /\ task'.at = now /\ task'.end = LastClosed(now)
      BY <1>1, <1>3, <2>3, TimesIs
    <3>3. Kempt(page', ws', store'.gap, task', buffer', overflowAt', now')
      BY <1>2, <2>1, <3>1, <3>2 DEF Kempt, Sorted
    <3> QED
      BY <3>3, PagedWill
  <2> QED
    BY <2>2, <2>3
<1>7. Cursors'
  <2>1. Dated(store, now, page)
    BY CursorsAre DEF Shape
  <2>2. Dated(store', now', page')
    BY <1>2, <2>1 DEF Dated, SameBooks, SameCursors
  <2>3. Timed(store', task')
    BY <1>3 DEF Timed, SameCursors
  <2> QED
    BY <2>2, <2>3, CursorsWill
<1> QED
  BY <1>5, <1>6, <1>7 DEF Shape

\* A store has its own books and cursors.
LEMMA SelfBooks == ASSUME NEW st \in StoreSet PROVE SameBooks(st, st) /\ SameCursors(st, st)
BY DEF SameBooks, SameCursors

\* The two ways of following quotes again.
OpensAwake ==
  \E slips, follows \in BOOLEAN :
    /\ Awake(store, store', slips, follows)
    /\ SocketOpens => follows /\ (slips <=> Recovering /\ ~task.gapped)
    /\ Show => (follows <=> ws = "open") /\ (slips <=> Recovering /\ ~task.gapped)

\* SocketOpens and Show follow quotes again in one of these ways.
LEMMA OpensIs == ASSUME Shape, SocketOpens \/ Show PROVE OpensAwake
<1>1. store \in StoreSet /\ now \in Clock /\ ws \in {"none", "open", "lost"}
      /\ task.gapped \in BOOLEAN
  BY StoreIs, TaskIs DEF Shape, Typed
<1>2. CASE SocketOpens
  <2> DEFINE slips == Recovering /\ ~task.gapped
  <2>1. slips \in BOOLEAN /\ TRUE \in BOOLEAN /\ FALSE \in BOOLEAN
    BY <1>1 DEF Recovering
  <2>2. store' = LET seen == IF TRUE THEN Follow(store) ELSE store
                 IN  IF slips THEN [seen EXCEPT !.slipped = Symbols] ELSE seen
    BY <1>2 DEF SocketOpens
  <2>3. Awake(store, store', slips, TRUE)
    <3> HIDE DEF slips
    <3> QED
      BY <1>1, <2>1, <2>2, AwakeIs
  <2>4. ~Show
    BY <1>2 DEF SocketOpens, Show, Running
  <2> QED
    BY <2>1, <2>3, <2>4 DEF OpensAwake
<1>3. CASE Show
  <2> DEFINE slips == Recovering /\ ~task.gapped
             follows == ws = "open"
  <2>1. slips \in BOOLEAN /\ follows \in BOOLEAN
    BY <1>1 DEF Recovering
  <2>2. store' = LET seen == IF follows THEN Follow(store) ELSE store
                 IN  IF slips THEN [seen EXCEPT !.slipped = Symbols] ELSE seen
    BY <1>3 DEF Show
  <2>3. Awake(store, store', slips, follows)
    <3> HIDE DEF slips, follows
    <3> QED
      BY <1>1, <2>1, <2>2, AwakeIs
  <2>4. ~SocketOpens
    BY <1>3 DEF SocketOpens, Show
  <2> QED
    BY <2>1, <2>3, <2>4 DEF OpensAwake
<1> QED
  BY <1>2, <1>3

\* Shape is kept when the page is connected or shown again,
LEMMA AwakeShape == ASSUME Shape, SocketOpens \/ Show PROVE Shape'
<1>1. PICK slips, follows \in BOOLEAN : Awake(store, store', slips, follows)
  BY OpensIs DEF OpensAwake
<1>2. SameBooks(store, store') /\ SameCursors(store, store') /\ store'.chk = store.chk
      /\ store'.gap = store.gap
  BY <1>1 DEF Awake
<1>3. CASE SocketOpens
  <2>1. /\ page # "down" /\ page' = page /\ ws' = "open" /\ rerun' = rerun
        /\ UNCHANGED <<env, quote, buffer, overflowAt, user>>
        /\ task' = task \/ task' = catchUp(store)
    BY <1>3 DEF SocketOpens, Running
  <2>2. /\ rerun \in BOOLEAN /\ page' \in {"shown", "hidden", "frozen"}
        /\ page' \in {"hidden", "frozen"} => store.gap # Never
    BY <2>1 DEF Shape, Typed, Paged
  <2> QED
    BY <1>2, <2>1, <2>2, RunShape
<1>4. CASE Show
  <2>1. /\ page # "down" /\ page' = "shown" /\ ws' = ws /\ rerun' = rerun
        /\ UNCHANGED <<env, quote, buffer, overflowAt, user>>
        /\ task' = task \/ task' = catchUp(store)
    BY <1>4 DEF Show
  <2>2. rerun \in BOOLEAN /\ ws \in {"none", "open", "lost"}
    BY DEF Shape, Typed
  <2> QED
    BY <1>2, <2>1, <2>2, RunShape
<1> QED
  BY <1>3, <1>4

\* by the replay after an overflow,
LEMMA OverflowShape == ASSUME Shape, OverflowReplay PROVE Shape'
<1>1. /\ page # "down" /\ page' = page /\ ws' = ws /\ rerun' = FALSE /\ store' = store
      /\ UNCHANGED <<env, quote, buffer, overflowAt, user>>
      /\ task' = catchUp(store)
  BY DEF OverflowReplay, Running
<1>2. /\ page' \in {"shown", "hidden", "frozen"} /\ ws \in {"none", "open", "lost"}
      /\ page' \in {"hidden", "frozen"} => store.gap # Never
      /\ SameBooks(store, store) /\ SameCursors(store, store)
  BY <1>1, StoreIs, SelfBooks DEF Shape, Typed, Paged
<1> QED
  BY <1>1, <1>2, RunShape

\* by a page that is frozen,
LEMMA FreezeShape == ASSUME Shape, Freeze PROVE Shape'
<1>1. /\ page = "hidden" /\ page' = "frozen" /\ store' = store /\ task' = task /\ rerun' = rerun
      /\ UNCHANGED <<env, quote, buffer, overflowAt, user>>
  BY DEF Freeze
<1>2. /\ ws' \in {"none", "open", "lost"} /\ rerun \in BOOLEAN /\ store.gap # Never
      /\ SameBooks(store, store) /\ SameCursors(store, store)
  BY <1>1, StoreIs, SelfBooks DEF Freeze, Shape, Typed, Paged
<1> QED
  BY <1>1, <1>2, RunShape

\* A store that gets its cursors when the page starts.
Based(st, x) ==
  /\ SameBooks(st, x) /\ x.chk = now /\ x.since = now /\ x.gap = Never /\ x.rec = st.rec
  /\ \A s \in Symbols : x.at[s] = now
  /\ x.live = st.live /\ x.replayed = st.replayed /\ x.again = st.again
  /\ x.slipped = st.slipped /\ x.mixed = st.mixed /\ x.early = st.early

\* Start gives the store its baseline, or leaves it and may begin a replay.
LEMMA StartBase ==
  ASSUME Shape, Start
  PROVE  \/ store.chk = Never /\ Based(store, store') /\ task' = task
         \/ store.chk # Never /\ store' = store /\ (task' = task \/ task' = catchUp(store))
<1>1. store \in StoreSet /\ now \in Times /\ Cursors
  BY StoreIs, TimesIs DEF Shape, Typed
<1>2. CASE store.chk # Never
  BY <1>2 DEF Start
<1>3. CASE store.chk = Never
  <2>1. store.gap = Never /\ \A s \in Symbols : store.at[s] = Never
    BY <1>1, <1>3 DEF Cursors
  <2> DEFINE at == [s \in Symbols |-> IF store.at[s] = Never THEN now ELSE store.at[s]]
             x == [store EXCEPT !.chk = now, !.since = now, !.at = at]
  <2>2. store' = x /\ task' = task
    BY <1>3, <2>1 DEF Start
  <2>3. at \in [Symbols -> Times] /\ \A s \in Symbols : at[s] = now
    BY <1>1, <2>1
  <2> HIDE DEF at
  <2>4. /\ x \in StoreSet /\ x.camp = store.camp /\ x.trades = store.trades
        /\ x.chk = now /\ x.since = now /\ x.gap = store.gap /\ x.rec = store.rec /\ x.at = at
        /\ x.live = store.live /\ x.replayed = store.replayed /\ x.again = store.again
        /\ x.slipped = store.slipped /\ x.mixed = store.mixed /\ x.early = store.early
    BY <1>1, <2>3 DEF StoreSet
  <2>5. Based(store, x)
    BY <2>1, <2>3, <2>4 DEF Based, SameBooks
  <2> QED
    BY <1>3, <2>2, <2>5
<1> QED
  BY <1>2, <1>3

\* Shape is kept by a start,
LEMMA StartShape == ASSUME Shape, Start PROVE Shape'
<1>1. /\ page = "down" /\ page' = "shown" /\ ws' = ws /\ rerun' = rerun
      /\ UNCHANGED <<env, quote, buffer, overflowAt, user>>
  BY DEF Start
<1>2. /\ ws \in {"none", "open", "lost"} /\ rerun \in BOOLEAN
      /\ SameBooks(store, store) /\ SameCursors(store, store)
  BY StoreIs, SelfBooks DEF Shape, Typed
<1>3. CASE store.chk # Never
  <2>1. store' = store /\ (task' = task \/ task' = catchUp(store))
    BY <1>3, StartBase
  <2> QED
    BY <1>1, <1>2, <1>3, <2>1, RunShape
<1>4. CASE store.chk = Never
  <2>1. Based(store, store') /\ task' = task
    BY <1>4, StartBase
  <2>2. /\ now' = now /\ market' = market /\ quote' = quote /\ buffer' = buffer
        /\ overflowAt' = overflowAt /\ modal' = modal /\ ids' = ids
    BY <1>1 DEF env, user
  <2>3. Typed /\ now \in Clock /\ now # Never /\ now \in Int /\ store \in BookSet(ids) /\ 0 <= now
    BY TimesIs DEF Shape, Typed, Clock
  <2>4. store' \in BookSet(ids')
    BY <2>1, <2>2, <2>3, SameBooksIs DEF BookSet, SameBooks, Based
  <2>5. Typed'
    BY <1>1, <1>2, <2>1, <2>2, <2>3, <2>4 DEF Typed
  <2>6. Paged'
    <3>1. Kempt(page, ws, store.gap, task, buffer, overflowAt, now)
      BY PagedIs DEF Shape
    <3>2. task = Idle /\ ~task.gapped
      BY <1>1, <3>1, IdleIs DEF Kempt
    <3>3. Kempt(page', ws', store'.gap, task', buffer', overflowAt', now')
      BY <1>1, <2>1, <2>2, <3>1, <3>2 DEF Kempt
    <3> QED
      BY <3>3, PagedWill
  <2>7. Cursors'
    <3>1. Dated(store, now, page) /\ Timed(store, task)
      BY CursorsAre DEF Shape
    <3>2. Dated(store', now', page')
      BY <2>1, <2>2, <2>3, <3>1 DEF Dated, Based, SameBooks, Never
    <3>3. Timed(store', task')
      BY <2>1, <3>1 DEF Timed, Based
    <3> QED
      BY <3>2, <3>3, CursorsWill
  <2> QED
    BY <2>5, <2>6, <2>7 DEF Shape
<1> QED
  BY <1>3, <1>4

\* by the end of the page,
LEMMA DownShape == ASSUME Shape, Leave \/ Kill PROVE Shape'
<1>1. page # "down" /\ Volatile /\ now' = now /\ market' = market /\ ids' = ids
  BY DEF Leave, Kill, env, Running
<1>2. Typed /\ now \in Clock /\ store \in StoreSet
  BY StoreIs DEF Shape, Typed
<1>3. store' \in BookSet(ids') /\ Dated(store', now', page')
  <2>1. CASE Leave
    <3>1. Gapping(store, store', now)
      BY <1>2, <2>1, MarkGapIs DEF Leave
    <3> QED
      BY <1>1, <3>1, MarkedDated
  <2>2. CASE Kill
    <3>1. store' = store
      BY <2>2 DEF Kill
    <3> QED
      BY <1>1, <1>2, <3>1, SelfBooks, SameDated
  <2> QED
    BY <2>1, <2>2
<1>4. /\ page' = "down" /\ ws' = "none" /\ quote' = [s \in Symbols |-> Never] /\ task' = Idle
      /\ buffer' = <<>> /\ overflowAt' = Never /\ rerun' = FALSE /\ modal' = NoModal
  BY <1>1 DEF Volatile
<1>5. Typed'
  <2>1. quote' \in [Symbols -> Int] /\ <<>> \in Seq(MomentSet) /\ Len(<<>>) = 0
    BY <1>4 DEF Never
  <2>2. Never \in Times /\ task' \in TaskSet /\ 0 <= MaxBuffer
    BY <1>4, TimesIs, IdleIs, PaperTradingAssumption
  <2>3. modal' \in [sym : Int, level : Int]
    BY <1>4 DEF NoModal
  <2> QED
    BY <1>1, <1>2, <1>3, <1>4, <2>1, <2>2, <2>3 DEF Typed
<1>6. Paged'
  <2>1. Kempt(page', ws', store'.gap, task', buffer', overflowAt', now')
    BY <1>4, IdleIs DEF Kempt, Sorted
  <2> QED
    BY <2>1, PagedWill
<1>7. Cursors'
  <2>1. Timed(store', task')
    BY <1>4, IdleIs DEF Timed
  <2> QED
    BY <1>3, <2>1, CursorsWill
<1> QED
  BY <1>5, <1>6, <1>7 DEF Shape

\* by a command of the user,
LEMMA UserShape == ASSUME Shape, Commands PROVE Shape'
<1>1. Recamped /\ Quiet /\ ModalOK(modal')
  BY UserIs DEF UserStep
<1>2. /\ now' = now /\ market' = market /\ page' = page /\ ws' = ws /\ quote' = quote
      /\ task' = task /\ buffer' = buffer /\ overflowAt' = overflowAt /\ rerun' = rerun
  BY <1>1 DEF Quiet, env
<1>3. Typed
  BY DEF Shape
<1>4. Typed'
  BY <1>1, <1>2, <1>3 DEF Typed, Recamped, ModalOK
<1>5. Frame(store, store') /\ \A s \in Symbols : store'.camp[s].createdAt <= now
  BY <1>1 DEF Recamped, Shape, Cursors
<1>6. Paged'
  <2>1. Kempt(page, ws, store.gap, task, buffer, overflowAt, now)
    BY PagedIs DEF Shape
  <2>2. Kempt(page', ws', store'.gap, task', buffer', overflowAt', now')
    BY <1>2, <1>5, <2>1 DEF Kempt, Frame
  <2> QED
    BY <2>2, PagedWill
<1>7. Cursors'
  <2>1. Dated(store, now, page) /\ Timed(store, task)
    BY CursorsAre DEF Shape
  <2>2. Dated(store', now', page') /\ Timed(store', task')
    BY <1>2, <1>5, <2>1 DEF Dated, Timed, Frame
  <2> QED
    BY <2>2, CursorsWill
<1> QED
  BY <1>4, <1>6, <1>7 DEF Shape

\* What is known of a step that ends a replay's requests.
LEMMA FetchFacts ==
  ASSUME Shape, FetchReturns, NEW r, NEW a, NEW syms, NEW good, FetchStep(r, a, syms, good)
  PROVE  /\ r \in ReplayStates(ids) /\ r.st \in BookSet(ids) /\ Follows(store, r.st, ids)
         /\ Still(store, r.st) /\ syms \in SUBSET Symbols /\ good \subseteq Fetched
         /\ store' \in BookSet(ids) /\ SameBooks(r.st, store')
         /\ \A s \in syms : Outcomes(store, r, a, s)
         /\ task.at \in Clock /\ task.end = LastClosed(task.at) /\ task.end < task.at
         /\ task.end \in Int /\ task.at <= now
         /\ \A s \in Symbols : /\ r.closed[s] \in Times /\ r.last[s] \in Times
                               /\ r.closed[s] \in Int /\ r.last[s] \in Int
<1>1. /\ ReplayInv(store, r, a, syms, ids, NInstants) /\ Asked(a, syms)
      /\ SameBooks(r.st, store') /\ good \subseteq Fetched
  BY DEF FetchStep, Fetches
<1>2. r \in ReplayStates(ids) /\ Follows(store, r.st, ids) /\ Still(store, r.st)
  BY <1>1 DEF ReplayInv
<1>3. r.st \in BookSet(ids) /\ syms \in SUBSET Symbols
  BY <1>1, <1>2 DEF ReplayStates, Asked
<1>4. store' \in BookSet(ids)
  BY <1>1, <1>3, SameBooksIs DEF BookSet, SameBooks
<1>5. ids \in Nat /\ store \in StoreSet /\ Typed /\ Paged
  BY StoreIs DEF Shape, Typed
<1>6. \A s \in syms : Outcomes(store, r, a, s)
  BY <1>1, <1>5, OutcomeIs
<1>7. Recovering
  BY DEF FetchReturns, Recovering
<1>8. task.at \in Clock /\ task.end = LastClosed(task.at) /\ task.at <= now
  BY <1>5, <1>7, TaskIs DEF Paged
<1>9. task.end < task.at /\ task.end \in Int
  BY <1>8, LastClosedIs
<1>10. \A s \in Symbols : r.closed[s] \in Times /\ r.last[s] \in Times
  BY <1>2 DEF ReplayStates
<1> QED
  BY <1>1, <1>2, <1>3, <1>4, <1>6, <1>8, <1>9, <1>10, TimesIs

\* What FetchReturns leaves alone.
LEMMA FetchRest ==
  ASSUME Shape, FetchReturns
  PROVE  /\ now' = now /\ market' = market /\ page' = page /\ ws' = ws /\ quote' = quote
         /\ buffer' = buffer /\ overflowAt' = overflowAt /\ rerun' = rerun /\ modal' = modal
         /\ ids' = ids /\ page \in {"shown", "hidden"}
         /\ task' \in TaskSet /\ task'.phase = "charts" /\ task.phase = "fetch"
         /\ task'.at = task.at /\ task'.end = task.end
         /\ task'.gapped = task.gapped /\ task'.after = task.after
<1>1. task \in TaskSet
  BY DEF Shape, Typed
<1>2. task' = [task EXCEPT !.phase = "charts"]
  BY DEF FetchReturns
<1>3. /\ task' \in TaskSet /\ task'.phase = "charts" /\ task'.at = task.at
      /\ task'.end = task.end /\ task'.gapped = task.gapped /\ task'.after = task.after
  BY <1>1, <1>2 DEF TaskSet
<1> QED
  BY <1>3 DEF FetchReturns, Running, env, user

\* Shape is kept by the answers of the service,
LEMMA FetchShape == ASSUME Shape, FetchReturns PROVE Shape'
<1>1. PICK r, a, syms, good : FetchStep(r, a, syms, good)
  BY FetchIs
<1>2. Fetches(store', r, a, syms, good)
  BY <1>1 DEF FetchStep
<1>3. /\ r.st \in BookSet(ids) /\ Follows(store, r.st, ids) /\ syms \in SUBSET Symbols
      /\ store' \in BookSet(ids) /\ SameBooks(r.st, store')
      /\ \A s \in syms : Outcomes(store, r, a, s)
      /\ task.at \in Clock /\ task.end < task.at /\ task.end \in Int /\ task.at <= now
      /\ task.end = LastClosed(task.at)
      /\ \A s \in Symbols : r.closed[s] \in Int /\ r.last[s] \in Int
  BY <1>1, FetchFacts
<1>4. Typed /\ now \in Clock /\ now \in Int /\ 0 <= now /\ store \in StoreSet /\ r.st \in StoreSet
      /\ task.at # Never /\ task.at \in Int
  BY <1>3, StoreIs, TimesIs DEF Shape, Typed, Clock
<1>5. Typed'
  BY <1>3, <1>4, FetchRest DEF Typed
<1>6. Kempt(page, ws, store.gap, task, buffer, overflowAt, now)
  BY PagedIs DEF Shape
<1>7. Dated(store, now, page) /\ Timed(store, task)
  BY CursorsAre DEF Shape
<1>8. Paged'
  <2>1. store'.gap = IF Settled(good) THEN Never ELSE store.gap
    BY <1>2 DEF Fetches
  <2>2. page \in {"hidden", "frozen"} \/ task.gapped => store'.gap # Never
    BY <1>6, <2>1 DEF Settled, Kempt
  <2>3. Kempt(page', ws', store'.gap, task', buffer', overflowAt', now')
    BY <1>6, <2>2, FetchRest DEF Kempt
  <2> QED
    BY <2>3, PagedWill
<1>9. Cursors'
  <2>1. \A s \in Symbols : store'.rec[s] <= task.at
                           /\ (store'.rec[s] = Never \/ \E m \in Minutes : store'.rec[s] = CloseOf(m))
    <3> SUFFICES ASSUME NEW s \in Symbols
                 PROVE  /\ store'.rec[s] <= task.at
                        /\ store'.rec[s] = Never \/ \E m \in Minutes : store'.rec[s] = CloseOf(m)
      OBVIOUS
    <3>1. /\ store.rec[s] <= task.at
          /\ store.rec[s] = Never \/ \E m \in Minutes : store.rec[s] = CloseOf(m)
      BY <1>7, FetchRest DEF Dated, Timed
    <3>2. CASE s \notin syms
      BY <1>2, <3>1, <3>2 DEF Fetches
    <3>3. CASE s \in syms
      <4>1. store'.rec[s] \in {store.rec[s], r.closed[s]}
        BY <1>2, <3>3 DEF Fetches
      <4>2. /\ r.closed[s] = Never \/ r.closed[s] <= task.end
            /\ r.closed[s] = Never \/ \E m \in Minutes : r.closed[s] = CloseOf(m)
        BY <1>3, <3>3 DEF Outcomes
      <4>3. r.closed[s] <= task.at
        BY <1>3, <1>4, <4>2, TimesIs DEF Never, Clock
      <4> QED
        BY <3>1, <4>1, <4>2, <4>3
    <3> QED
      BY <3>2, <3>3
  <2>2. \A s \in Symbols : store'.at[s] <= now /\ store'.at[s] # Never
    <3> SUFFICES ASSUME NEW s \in Symbols PROVE store'.at[s] <= now /\ store'.at[s] # Never
      OBVIOUS
    <3>1. /\ store.at[s] <= now /\ store.at[s] # Never /\ store.at[s] \in Nat
          /\ store'.at[s] \in Times
      BY <1>3, <1>4, <1>7, FetchRest, StoreIs, TimesIs DEF Dated, Typed
    <3>2. CASE s \notin syms
      BY <1>2, <3>1, <3>2 DEF Fetches
    <3>3. CASE s \in syms
      <4>1. store'.at[s] \in {store.at[s], task.end, r.last[s]} /\ store'.at[s] >= store.at[s]
        BY <1>2, <3>3 DEF Fetches
      <4>2. r.last[s] = Never \/ r.last[s] <= task.end
        BY <1>3, <3>3 DEF Outcomes
      <4>3. r.last[s] <= now /\ task.end <= now
        BY <1>3, <1>4, <4>2 DEF Never
      <4> QED
        BY <1>4, <3>1, <4>1, <4>3 DEF Never
    <3> QED
      BY <3>2, <3>3
  <2>3. \A s \in Symbols : store'.camp[s].createdAt <= now
    <3>1. Heirs(store, r.st) /\ store'.camp = r.st.camp
      BY <1>3 DEF Follows, SameBooks
    <3>2. \A s \in Symbols : store.camp[s].createdAt <= now
      BY <1>7 DEF Dated
    <3> QED
      BY <1>4, <3>1, <3>2, HeirsCreated
  <2>4. store'.chk = task.at /\ store'.since = store.since /\ store'.gap \in {Never, store.gap}
    BY <1>2 DEF Fetches
  <2>5. store.chk # Never /\ Never <= now /\ store.gap \in Int
    BY <1>4, <1>7, FetchRest, StoreIs, TimesIs DEF Dated, Never, Typed
  <2>6. \A s \in Symbols : store'.rec[s] \in Int
    BY <1>3, StoreIs, TimesIs
  <2>7. Dated(store', now', page')
    BY <1>3, <1>4, <1>7, <2>1, <2>2, <2>3, <2>4, <2>5, <2>6, FetchRest DEF Dated
  <2>8. Timed(store', task')
    BY <2>1, FetchRest DEF Timed
  <2> QED
    BY <2>7, <2>8, CursorsWill
<1> QED
  BY <1>5, <1>8, <1>9 DEF Shape

\* What ChartsReturn leaves alone.
LEMMA ChartsRest ==
  ASSUME Shape, ChartsReturn
  PROVE  /\ now' = now /\ market' = market /\ page' = page /\ ws' = ws
         /\ buffer' = <<>> /\ overflowAt' = Never /\ rerun' \in BOOLEAN /\ modal' = modal
         /\ ids' = ids /\ page \in {"shown", "hidden"} /\ task' = Idle /\ task.phase = "charts"
BY DEF ChartsReturn, flushRecoveryQuotes, Shape, Typed, env, user, Running

\* The flush of the buffer, and what it does to the books and to the cursors.
LEMMA FlushFacts ==
  ASSUME Shape, ChartsReturn, NEW x,
         Followed(store, quote, buffer, now, ids, Len(buffer), x)
  PROVE  /\ x.st \in BookSet(ids) /\ Follows(store, x.st, ids) /\ x.quote \in [Symbols -> Int]
         /\ Marks(store, x.st, buffer, now, Len(buffer)) /\ InTime(store, x.st, buffer, Len(buffer))
         /\ x.st.gap = store.gap /\ x.st.rec = store.rec /\ x.st.since = store.since
         /\ x.st.chk \in {store.chk, now}
         /\ \A s \in Symbols : x.st.at[s] \in Times /\ x.st.at[s] >= store.at[s] /\ x.st.at[s] <= now
<1>1. /\ x \in QuoteStates(ids) /\ Follows(store, x.st, ids) /\ Sorted(buffer)
      /\ Marks(store, x.st, buffer, now, Len(buffer))
      /\ Sorted(buffer) => InTime(store, x.st, buffer, Len(buffer))
  BY DEF Followed, Shape, Paged
<1>2. x.st \in BookSet(ids) /\ x.quote \in [Symbols -> Int]
  BY <1>1 DEF QuoteStates
<1>3. /\ x.st.gap = store.gap /\ x.st.rec = store.rec /\ x.st.since = store.since
      /\ x.st.chk \in {store.chk, now}
  BY <1>1 DEF Marks
<1>4. ASSUME NEW s \in Symbols
      PROVE  x.st.at[s] \in Times /\ x.st.at[s] >= store.at[s] /\ x.st.at[s] <= now
  <2>1. /\ x.st.at[s] >= store.at[s]
        /\ x.st.at[s] = store.at[s] \/ \E i \in 1..Len(buffer) : x.st.at[s] = buffer[i][1]
    BY <1>1 DEF Marks
  <2>2. x.st.at[s] \in Times /\ store.at[s] <= now
    BY <1>2, StoreIs DEF Shape, Cursors
  <2>3. \A i \in 1..Len(buffer) : buffer[i][1] <= now
    BY DEF Shape, Paged
  <2> QED
    BY <2>1, <2>2, <2>3
<1> QED
  BY <1>1, <1>2, <1>3, <1>4

\* Shape is kept by the flush of the buffer,
LEMMA ChartsShape == ASSUME Shape, ChartsReturn PROVE Shape'
<1>1. PICK x : /\ Followed(store, quote, buffer, now, ids, Len(buffer), x)
               /\ quote' = x.quote
               /\ IF overflowAt = Never THEN store' = x.st ELSE Reopens(x.st, store')
  BY ChartsIs DEF ChartsStep
<1>2. /\ x.st \in BookSet(ids) /\ Follows(store, x.st, ids) /\ x.quote \in [Symbols -> Int]
      /\ x.st.gap = store.gap /\ x.st.rec = store.rec /\ x.st.since = store.since
      /\ x.st.chk \in {store.chk, now}
      /\ \A s \in Symbols : x.st.at[s] \in Times /\ x.st.at[s] >= store.at[s] /\ x.st.at[s] <= now
  BY <1>1, FlushFacts
<1>3. Typed /\ now \in Clock /\ now \in Int /\ 0 <= now /\ store \in StoreSet /\ x.st \in StoreSet
      /\ now # Never /\ overflowAt \in Times
  BY <1>2, StoreIs, TimesIs DEF Shape, Typed, Clock
<1>4. /\ SameBooks(x.st, store') /\ store'.rec = store.rec /\ store'.since = store.since
      /\ store'.at = x.st.at
      /\ store'.chk = store.chk \/ (store'.chk # Never /\ store'.chk <= now)
      /\ store.gap # Never => store'.gap # Never
      /\ store'.gap \in Int /\ store'.gap <= now
  <2>1. CASE overflowAt = Never
    <3>1. SameBooks(x.st, x.st) /\ store' = x.st /\ store.gap \in Int /\ store.gap <= now
      BY <1>1, <1>3, <2>1, SelfBooks, StoreIs, TimesIs DEF Shape, Cursors, Typed
    <3> QED
      BY <1>2, <1>3, <3>1
  <2>2. CASE overflowAt # Never
    <3>1. Reopened(x.st, store')
      BY <1>1, <2>2, ReopenedIs
    <3>2. overflowAt <= now /\ overflowAt \in Int
      BY <1>3, <2>2, TimesIs DEF Shape, Paged
    <3>3. SameBooks(x.st, store') /\ SameCursors(x.st, store') /\ store'.chk = overflowAt
          /\ store'.gap \in Clock /\ store'.gap # Never /\ store'.gap <= overflowAt
      BY <3>1 DEF Reopened
    <3>4. store'.gap \in Int /\ store'.gap <= now
      <4>1. store'.gap \in Clock /\ store'.gap <= overflowAt
        BY <3>3, Zenon
      <4>2. store'.gap \in Int
        BY <4>1, TimesIs, Zenon
      <4>3. now \in Int
        BY <1>3, Zenon
      <4> QED
        BY <3>2, <4>1, <4>2, <4>3
    <3>5. store'.rec = store.rec /\ store'.since = store.since /\ store'.at = x.st.at
      BY <1>2, <3>3 DEF SameCursors
    <3> QED
      BY <2>2, <3>2, <3>3, <3>4, <3>5
  <2> QED
    BY <2>1, <2>2
<1>5. store' \in BookSet(ids)
  BY <1>2, <1>4, SameBooksIs DEF BookSet, SameBooks
<1>6. Typed'
  <2>1. <<>> \in Seq(MomentSet) /\ Len(<<>>) = 0 /\ Never \in Times /\ 0 <= MaxBuffer
    BY TimesIs, PaperTradingAssumption
  <2> QED
    BY <1>1, <1>2, <1>3, <1>5, <2>1, ChartsRest, IdleIs DEF Typed
<1>7. Paged'
  <2>1. Kempt(page, ws, store.gap, task, buffer, overflowAt, now)
    BY PagedIs DEF Shape
  <2>2. Kempt(page', ws', store'.gap, task', buffer', overflowAt', now')
    BY <1>4, <2>1, ChartsRest, IdleIs DEF Kempt, Sorted
  <2> QED
    BY <2>2, PagedWill
<1>8. Cursors'
  <2>1. Dated(store, now, page)
    BY CursorsAre DEF Shape
  <2>2. \A s \in Symbols : store'.camp[s].createdAt <= now
    <3>1. Heirs(store, x.st) /\ store'.camp = x.st.camp
      BY <1>2, <1>4 DEF Follows, SameBooks
    <3>2. \A s \in Symbols : store.camp[s].createdAt <= now
      BY <2>1 DEF Dated
    <3> QED
      BY <1>3, <3>1, <3>2, HeirsCreated
  <2>4. store.chk # Never
    BY <2>1, ChartsRest DEF Dated
  <2>3. \A s \in Symbols : store'.at[s] # Never
    <3>1. store'.at = x.st.at
      BY <1>4
    <3>2. \A s \in Symbols : store.at[s] # Never /\ store.at[s] \in Times
      BY <1>3, <2>1, <2>4 DEF Dated, StoreSet
    <3>3. \A s \in Symbols : store.at[s] \in Int /\ store.at[s] >= 0
      BY <3>2, PaperTradingAssumption DEF Times, Never
    <3> QED
      BY <1>2, <1>3, <3>1, <3>3, TimesIs DEF Never
  <2>5. Dated(store', now', page')
    BY <1>2, <1>3, <1>4, <2>1, <2>2, <2>3, <2>4, ChartsRest DEF Dated
  <2>6. Timed(store', task')
    BY ChartsRest, IdleIs DEF Timed
  <2> QED
    BY <2>5, <2>6, CursorsWill
<1> QED
  BY <1>6, <1>7, <1>8 DEF Shape

\* A campaign that a first start finds is new.
LEMMA StoredIs ==
  ASSUME NEW s \in Symbols, NEW kind \in {"none", "manual", "auto"}
  PROVE  /\ CampOK(StoredCampaign(s, kind)) /\ Filled(StoredCampaign(s, kind)) = {}
         /\ StoredCampaign(s, kind).createdAt = 0
         /\ Active(StoredCampaign(s, kind)) =>
              StoredCampaign(s, kind).id = s /\ StoredCampaign(s, kind).cycles = 0
<1>0. s \in Nat /\ 3 \in Int /\ 2 \in Int /\ 0 \in Int
  BY PaperTradingAssumption DEF Symbols
<1>1. CASE kind = "none"
  <2>1. StoredCampaign(s, kind) = NoCampaign
    BY <1>1 DEF StoredCampaign
  <2>2. NoCampaign.createdAt = 0
    BY DEF NoCampaign, createCampaign
  <2> QED
    BY <2>1, <2>2, NoneOK
<1>2. CASE kind = "manual"
  <2> DEFINE c == createCampaign(s, "manual", 3, 0)
  <2>1. StoredCampaign(s, kind) = c
    BY <1>2 DEF StoredCampaign
  <2>2. CampOK(c) /\ Filled(c) = {}
    BY <1>0, CreatedOK
  <2>3. c.createdAt = 0 /\ c.id = s /\ c.cycles = 0
    BY DEF createCampaign
  <2> QED
    BY <2>1, <2>2, <2>3
<1>3. CASE kind = "auto"
  <2> DEFINE c == createCampaign(s, "auto", 2, 0)
  <2>1. StoredCampaign(s, kind) = c
    BY <1>3 DEF StoredCampaign
  <2>2. CampOK(c) /\ Filled(c) = {}
    BY <1>0, CreatedOK
  <2>3. c.createdAt = 0 /\ c.id = s /\ c.cycles = 0
    BY DEF createCampaign
  <2> QED
    BY <2>1, <2>2, <2>3
<1> QED
  BY <1>1, <1>2, <1>3

\* The store a first start finds.
Initial(st) ==
  /\ st \in StoreSet /\ st.trades = <<>> /\ st.chk \in {Never, 0} /\ st.gap = Never
  /\ st.since = st.chk /\ st.again = {} /\ st.mixed = {} /\ st.slipped = {}
  /\ \A s \in Symbols :
       /\ st.at[s] = st.chk /\ st.rec[s] = Never
       /\ st.live[s] = {} /\ st.replayed[s] = {}
       /\ Filled(st.camp[s]) = {} /\ st.camp[s].createdAt = 0
       /\ Active(st.camp[s]) => st.camp[s].id = s /\ st.camp[s].cycles = 0

\* The first store is such a store.
LEMMA InitialIs == ASSUME Init PROVE Initial(store)
<1>1. PICK kinds \in Stored :
        LET t == IF \A s \in Symbols : kinds[s] = "none" THEN Never ELSE 0
        IN  store = [DefaultStore EXCEPT !.camp = [s \in Symbols |-> StoredCampaign(s, kinds[s])],
                                         !.chk = t, !.since = t, !.at = [s \in Symbols |-> t]]
  BY DEF Init
<1> DEFINE t == IF \A s \in Symbols : kinds[s] = "none" THEN Never ELSE 0
           camp == [s \in Symbols |-> StoredCampaign(s, kinds[s])]
           at == [s \in Symbols |-> t]
           none == [s \in Symbols |-> Never]
           empty == [s \in Symbols |-> {}]
           camp0 == [s \in Symbols |-> NoCampaign]
<1>2. store = [DefaultStore EXCEPT !.camp = camp, !.chk = t, !.since = t, !.at = at]
  BY <1>1
<1>3. \A s \in Symbols : kinds[s] \in {"none", "manual", "auto"}
  BY PaperTradingAssumption
<1>4. camp \in [Symbols -> CampGood]
  BY <1>3, StoredIs DEF CampGood, CampOK
<1>5. \A s \in Symbols : /\ Filled(camp[s]) = {} /\ camp[s].createdAt = 0
                         /\ Active(camp[s]) => camp[s].id = s /\ camp[s].cycles = 0
  BY <1>3, StoredIs
<1>6. t \in {Never, 0} /\ t \in Times /\ Never \in Times
  BY TimesIs
<1>7. /\ at \in [Symbols -> Times] /\ \A s \in Symbols : at[s] = t
      /\ none \in [Symbols -> Times] /\ \A s \in Symbols : none[s] = Never
      /\ empty \in [Symbols -> SUBSET Minutes] /\ \A s \in Symbols : empty[s] = {}
  BY <1>6
<1> HIDE DEF t, camp, at
<1>8. DefaultStore =
        [camp |-> camp0, trades |-> <<>>, realized |-> 0, chk |-> Never, gap |-> Never,
         at |-> none, rec |-> none, since |-> Never, live |-> empty, replayed |-> empty,
         again |-> {}, slipped |-> {}, mixed |-> {}, early |-> {}]
  BY DEF DefaultStore
<1> HIDE DEF none, empty, camp0
<1>9. store = [camp |-> camp, trades |-> <<>>, realized |-> 0, chk |-> t, gap |-> Never,
               at |-> at, rec |-> none, since |-> t, live |-> empty, replayed |-> empty,
               again |-> {}, slipped |-> {}, mixed |-> {}, early |-> {}]
  BY <1>2, <1>8
<1>10. /\ store.camp = camp /\ store.trades = <<>> /\ store.chk = t /\ store.gap = Never
       /\ store.since = t /\ store.at = at /\ store.rec = none /\ store.live = empty
       /\ store.replayed = empty /\ store.again = {} /\ store.mixed = {} /\ store.slipped = {}
  BY <1>9
<1>11. store \in StoreSet
  <2>1. <<>> \in Seq(TradeSet) /\ 0 \in Int /\ {} \in SUBSET Symbols
    OBVIOUS
  <2> QED
    BY <1>4, <1>6, <1>7, <1>9, <2>1 DEF StoreSet
<1> QED
  BY <1>5, <1>6, <1>7, <1>10, <1>11 DEF Initial

\* and it holds in the initial states.
LEMMA InitShape == ASSUME Init PROVE Shape
<1>1. Initial(store)
  BY InitialIs
<1>2. /\ now = 0 /\ market \in Tapes /\ page = "down" /\ ws = "none"
      /\ quote = [s \in Symbols |-> Never] /\ task = Idle /\ buffer = <<>> /\ overflowAt = Never
      /\ rerun = FALSE /\ modal = NoModal /\ ids = NSymbols
  BY DEF Init
<1>3. LedgerOK(store, ids)
  <2>1. DOMAIN store.trades = {}
    BY <1>1 DEF Initial
  <2>2. \A s \in Symbols : s \in 1..ids
    BY <1>2 DEF Symbols
  <2>3. ASSUME NEW s \in Symbols, Active(store.camp[s])
        PROVE  store.camp[s].id = s /\ store.camp[s].cycles = 0 /\ 1..store.camp[s].cycles = {}
    BY <1>1, <2>3 DEF Initial
  <2> QED
    BY <2>1, <2>2, <2>3 DEF LedgerOK
<1>4. Typed
  <2>1. quote \in [Symbols -> Int] /\ <<>> \in Seq(MomentSet) /\ Len(<<>>) = 0
    BY <1>2 DEF Never
  <2>2. 0 \in Clock /\ Never \in Times /\ Idle \in TaskSet /\ 0 <= MaxBuffer /\ NSymbols \in Nat
    BY TimesIs, IdleIs, PaperTradingAssumption
  <2>3. modal \in [sym : Int, level : Int]
    BY <1>2 DEF NoModal
  <2>4. store \in BookSet(ids)
    BY <1>1, <1>3 DEF BookSet, Initial
  <2> QED
    BY <1>2, <2>1, <2>2, <2>3, <2>4 DEF Typed
<1>5. Paged
  <2>1. Kempt(page, ws, store.gap, task, buffer, overflowAt, now)
    BY <1>2, IdleIs DEF Kempt, Sorted
  <2> QED
    BY <2>1, PagedIs
<1>6. Cursors
  <2>1. Dated(store, now, page)
    BY <1>1, <1>2 DEF Initial, Dated, Never
  <2>2. Timed(store, task)
    BY <1>2, IdleIs DEF Timed
  <2> QED
    BY <2>1, <2>2, CursorsAre
<1> QED
  BY <1>4, <1>5, <1>6 DEF Shape

\* The disjuncts of Next, the commands together.
LEMMA NextCases ==
  ASSUME [Next]_vars
  PROVE  \/ TickUnseen \/ TickLive \/ TickBuffered \/ SocketLost \/ SocketOpens
         \/ FetchReturns \/ ChartsReturn \/ OverflowReplay \/ Start \/ Hide \/ Freeze \/ Show
         \/ Leave \/ Kill \/ Commands \/ UNCHANGED vars
BY DEF Next, Commands

\* Shape is inductive.
LEMMA NextShape == ASSUME Shape, [Next]_vars PROVE Shape'
<1>1. CASE TickUnseen
  BY <1>1, TickUnseenShape
<1>2. CASE TickLive
  BY <1>2, LiveShape
<1>3. CASE TickBuffered
  BY <1>3, BufferedShape
<1>4. CASE SocketLost \/ Hide
  BY <1>4, GapShape
<1>5. CASE SocketOpens \/ Show
  BY <1>5, AwakeShape
<1>6. CASE FetchReturns
  BY <1>6, FetchShape
<1>7. CASE ChartsReturn
  BY <1>7, ChartsShape
<1>8. CASE OverflowReplay
  BY <1>8, OverflowShape
<1>9. CASE Start
  BY <1>9, StartShape
<1>10. CASE Freeze
  BY <1>10, FreezeShape
<1>11. CASE Leave \/ Kill
  BY <1>11, DownShape
<1>12. CASE Commands
  BY <1>12, UserShape
<1>13. CASE UNCHANGED vars
  BY <1>13, StutterShape
<1> QED
  BY <1>1, <1>2, <1>3, <1>4, <1>5, <1>6, <1>7, <1>8, <1>9, <1>10, <1>11, <1>12, <1>13, NextCases

\* Shape always holds.
LEMMA ShapeHolds == Spec => []Shape
<1>1. Init => Shape
  BY InitShape
<1>2. Shape /\ [Next]_vars => Shape'
  BY NextShape
<1> QED
  BY <1>1, <1>2, PTL DEF Spec

\* Shape includes the type invariant.
LEMMA TypeFromShape == ASSUME Shape PROVE PaperTypeOK
<1>1. Typed /\ store \in StoreSet /\ task \in TaskSet
  BY StoreIs DEF Shape, Typed
<1>2. StoreOK(store)
  <2>1. ASSUME NEW s \in Symbols
        PROVE  /\ store.camp[s].status \in {"none", "waiting", "open", "trailing"}
               /\ (store.camp[s].status = "none") = (store.camp[s] = NoCampaign)
               /\ store.camp[s].status = "open" => Filled(store.camp[s]) # {}
               /\ store.camp[s].armed = (store.camp[s].status = "trailing")
               /\ store.camp[s].armed => /\ store.camp[s].source = "auto"
                                         /\ store.camp[s].stop >= store.camp[s].vLow
                                         /\ store.camp[s].high >= store.camp[s].reclaim
    <3>1. CampOK(store.camp[s]) /\ store.camp[s] \in CampSet
      BY <1>1, CampIn
    <3> QED
      BY <3>1 DEF CampOK, CampSet
  <2>2. /\ store.gap \in Times /\ store.chk \in Times
        /\ \A s \in Symbols : store.at[s] \in Times /\ store.rec[s] \in Times
    BY <1>1 DEF StoreSet
  <2> QED
    BY <2>1, <2>2 DEF StoreOK
<1>3. task.phase \in {"idle", "fetch", "charts"} /\ (buffer # <<>> => Recovering)
  BY <1>1 DEF TaskSet, Shape, Paged
<1> QED
  BY <1>1, <1>2, <1>3 DEF PaperTypeOK, Typed

\* As many cycles are on the books as the campaign counts.
LEMMA CountIs ==
  ASSUME NEW T, IsFiniteSet(T), NEW n \in Nat, NEW f,
         \A i \in T : f[i] \in 1..n,
         \A i, j \in T : f[i] = f[j] => i = j,
         \A k \in 1..n : \E i \in T : f[i] = k
  PROVE  Cardinality(T) = n
<1> DEFINE g == [i \in T |-> f[i]]
<1>1. g \in Bijection(T, 1..n)
  BY DEF Bijection, Injection, Surjection, IsInjective
<1>2. Cardinality(1..n) = n
  BY FS_Interval
<1>3. Cardinality(1..n) = Cardinality(T)
  BY <1>1, FS_Bijection DEF ExistsBijection
<1> QED
  BY <1>2, <1>3

\* The ledger of Shape is the one of LedgerMatches.
LEMMA LedgerFromShape == ASSUME Shape PROVE LedgerMatches
<1>1. store \in StoreSet /\ LedgerOK(store, ids)
  BY StoreIs DEF Shape, Typed
<1>2. DOMAIN store.trades = 1..Len(store.trades) /\ Len(store.trades) \in Nat
  BY <1>1, TradesIn
<1>3. ASSUME NEW s \in ActiveSymbols(store)
      PROVE  LET own == {i \in DOMAIN store.trades : store.trades[i].id = store.camp[s].id}
             IN  /\ Cardinality(own) = store.camp[s].cycles
                 /\ \A i \in own : store.trades[i].cycle # Final
  <2> DEFINE own == {i \in DOMAIN store.trades : store.trades[i].id = store.camp[s].id}
             n == store.camp[s].cycles
             f == [i \in DOMAIN store.trades |-> store.trades[i].cycle]
  <2>1. s \in Symbols /\ Active(store.camp[s])
    BY <1>3 DEF ActiveSymbols
  <2>2. n \in Nat
    BY <1>1, <2>1, CampIn DEF CampSet
  <2>3. IsFiniteSet(own)
    <3>1. IsFiniteSet(DOMAIN store.trades)
      BY <1>2, FS_Interval
    <3> QED
      BY <3>1, FS_Subset
  <2>4. \A i \in own : f[i] \in 1..n
    BY <1>1, <2>1 DEF LedgerOK
  <2>5. \A i, j \in own : f[i] = f[j] => i = j
    BY <1>1 DEF LedgerOK
  <2>6. \A k \in 1..n : \E i \in own : f[i] = k
    BY <1>1, <2>1 DEF LedgerOK, Recorded
  <2>7. Cardinality(own) = n
    <3> HIDE DEF own, f, n
    <3> QED
      BY <2>2, <2>3, <2>4, <2>5, <2>6, CountIs
  <2>8. \A i \in own : store.trades[i].cycle # Final
    <3>1. \A i \in own : store.trades[i].cycle \in 1..n
      BY <1>1, <2>1 DEF LedgerOK
    <3> HIDE DEF own, n
    <3> QED
      BY <2>2, <3>1 DEF Final
  <2> QED
    BY <2>7, <2>8
<1>4. \A i, j \in DOMAIN store.trades :
        /\ store.trades[i].id = store.trades[j].id
        /\ store.trades[i].cycle = store.trades[j].cycle
        => i = j
  BY <1>1 DEF LedgerOK
<1> QED
  BY <1>3, <1>4 DEF LedgerMatches

------------------------------------------------------------------------------
(* Positions                                                                *)

\* The position of s is where it was, or it left by a trade, the reset or a new level.
Left(s) ==
  LET c == store.camp[s]
  IN  (Filled(c) # {} /\ store'.camp[s].id # c.id) =>
        \/ SoldNow(c)
        \/ store'.trades = <<>> /\ store'.realized = 0 /\ store'.camp = DefaultStore.camp
        \/ ids' # ids

\* A position that was sold on the way left by a trade.
LEMMA LeadsLeft ==
  ASSUME NEW x, SameBooks(x, store'), Leads(store, x), NEW s \in Symbols PROVE Left(s)
BY DEF SameBooks, Leads, SoldSince, SoldNow, Left

\* A store with the same books lost no position.
LEMMA SameLeft ==
  ASSUME store'.camp = store.camp, NEW s \in Symbols PROVE Left(s)
BY DEF Left

\* A command loses a position by the reset or by a new level only.
LEMMA UserLeft == ASSUME Shape, Commands, NEW s \in Symbols PROVE Left(s)
<1>1. store \in StoreSet /\ store.camp \in [Symbols -> CampGood] /\ ids \in Nat
  BY StoreIs DEF Shape, Typed, StoreSet
<1>2. CASE setManualGalka \/ closePretrade
  BY <1>2, SameLeft DEF setManualGalka, closePretrade
<1>3. CASE confirmManualGalka
  <2>1. ids' = ids + 1 \/ store' = store
    BY <1>3 DEF confirmManualGalka
  <2> QED
    BY <1>1, <2>1 DEF Left
<1>4. CASE cancelManualSelection
  <2>1. PICK u \in Symbols : /\ Filled(store.camp[u]) = {}
                             /\ store' = [store EXCEPT !.camp[u] = NoCampaign]
    BY <1>4 DEF cancelManualSelection, Command
  <2>2. s # u => store'.camp[s] = store.camp[s]
    BY <1>1, <2>1 DEF StoreSet
  <2> QED
    BY <2>1, <2>2 DEF Left
<1>5. CASE updateManualLevel
  <2>1. PICK u \in Symbols, level \in GalkaLevels :
          /\ Editable(store.camp[u])
          /\ store' = [store EXCEPT !.camp[u] = moveManualCampaign(@, level)]
    BY <1>5 DEF updateManualLevel, Command
  <2>2. s # u => store'.camp[s] = store.camp[s]
    BY <1>1, <2>1 DEF StoreSet
  <2> QED
    BY <2>1, <2>2 DEF Left, Editable
<1>6. CASE resetPaper
  <2>1. store' = [store EXCEPT !.camp = DefaultStore.camp, !.trades = <<>>, !.realized = 0]
    BY <1>6 DEF resetPaper, Command
  <2> DEFINE camp == DefaultStore.camp
  <2>2. store'.trades = <<>> /\ store'.realized = 0 /\ store'.camp = camp
    <3> HIDE DEF camp
    <3> QED
      BY <1>1, <2>1 DEF StoreSet, camp
  <2> QED
    BY <2>2 DEF Left
<1> QED
  BY <1>2, <1>3, <1>4, <1>5, <1>6 DEF Commands

\* No other step loses one but by a trade.
LEMMA NextLeft == ASSUME Shape, [Next]_vars, NEW s \in Symbols PROVE Left(s)
<1>0. store \in StoreSet /\ now \in Clock
  BY StoreIs DEF Shape, Typed
<1>1. CASE TickUnseen \/ TickBuffered \/ OverflowReplay \/ Freeze \/ Kill \/ UNCHANGED vars
  BY <1>1, SameLeft DEF TickUnseen, TickBuffered, OverflowReplay, Freeze, Kill, vars
<1>2. CASE TickLive
  <2>1. PICK x : store' = x.st /\ Followed(store, quote, Moments, now', ids, NSymbols, x)
    BY <1>2, LiveIs DEF LiveStep
  <2>2. Leads(store, x.st) /\ SameBooks(x.st, x.st)
    BY <2>1, SelfBooks DEF Followed, Follows, QuoteStates, BookSet
  <2> QED
    BY <2>1, <2>2, LeadsLeft
<1>3. CASE SocketLost \/ Hide \/ Leave
  <2>1. Gapping(store, store', now)
    BY <1>0, <1>3, MarkGapIs DEF SocketLost, Hide, Leave
  <2> QED
    BY <2>1, SameLeft DEF Gapping, SameBooks
<1>4. CASE SocketOpens \/ Show
  <2>1. PICK slips, follows \in BOOLEAN : Awake(store, store', slips, follows)
    BY <1>4, OpensIs DEF OpensAwake
  <2> QED
    BY <2>1, SameLeft DEF Awake, SameBooks
<1>5. CASE FetchReturns
  <2>1. PICK r, a, syms, good : FetchStep(r, a, syms, good)
    BY <1>5, FetchIs
  <2>2. Leads(store, r.st) /\ SameBooks(r.st, store')
    BY <2>1 DEF FetchStep, ReplayInv, Follows, Fetches
  <2> QED
    BY <2>2, LeadsLeft
<1>6. CASE ChartsReturn
  <2>1. PICK x : /\ Followed(store, quote, buffer, now, ids, Len(buffer), x)
                 /\ IF overflowAt = Never THEN store' = x.st ELSE Reopens(x.st, store')
    BY <1>6, ChartsIs DEF ChartsStep
  <2>2. Leads(store, x.st) /\ SameBooks(x.st, x.st)
    BY <2>1, SelfBooks DEF Followed, Follows, QuoteStates, BookSet
  <2>3. SameBooks(x.st, store')
    BY <2>1, <2>2, ReopenedIs DEF Reopened
  <2> QED
    BY <2>2, <2>3, LeadsLeft
<1>7. CASE Start
  BY <1>7, SameLeft, StartBase DEF Based, SameBooks
<1>8. CASE Commands
  BY <1>8, UserLeft
<1> QED
  BY <1>1, <1>2, <1>3, <1>4, <1>5, <1>6, <1>7, <1>8, NextCases

\* A campaign, the ledger, the cursors, the task and the buffer always have the shape
\* PaperTypeOK says (store.js, and the runtime of pro.js).
THEOREM PaperTyped == Spec => []PaperTypeOK
<1>1. Shape => PaperTypeOK
  BY TypeFromShape
<1> QED
  BY <1>1, ShapeHolds, PTL

\* The ledger and the campaigns always tell the same story: no trade is there twice, an
\* active campaign has as many trades as cycles and no final one (recordL1Cycle,
\* closeCampaign, and what a kill leaves of them).
THEOREM LedgerStays == Spec => []LedgerMatches
<1>1. Shape => LedgerMatches
  BY LedgerFromShape
<1> QED
  BY <1>1, ShapeHolds, PTL

\* No step loses a position: one that leaves a campaign is on the books, or the user reset
\* the store or set a new level (expiry, replay, flush and restart included).
THEOREM PositionsLeaveByTrade == Spec => PositionLeavesByTrade
<1>1. Shape /\ [Next]_vars =>
        [\A s \in Symbols :
           LET c == store.camp[s]
           IN  (Filled(c) # {} /\ store'.camp[s].id # c.id) =>
                 \/ SoldNow(c)
                 \/ store'.trades = <<>> /\ store'.realized = 0 /\ store'.camp = DefaultStore.camp
                 \/ ids' # ids]_vars
  BY NextLeft DEF Left
<1> QED
  BY <1>1, ShapeHolds, PTL DEF PositionLeavesByTrade, Spec

------------------------------------------------------------------------------
(* No candle is replayed twice                                              *)

\* No minute was replayed twice: those replayed close no later than the cursor.
Replays ==
  /\ store.again = {}
  /\ \A s \in Symbols :
       /\ \A m \in store.replayed[s] : CloseOf(m) <= store.rec[s]
       /\ task.phase = "fetch" /\ task.after[s] # Skip => task.after[s] > store.rec[s]

\* A step that moves neither keeps it.
LEMMA ReplaysKept ==
  ASSUME Shape, Replays, store'.again = store.again, store'.replayed = store.replayed,
         store'.rec = store.rec, task' \in {task, Gapped, Idle, catchUp(store)}
  PROVE  Replays'
<1>1. Typed /\ now \in Clock /\ store \in StoreSet
  BY StoreIs DEF Shape, Typed
<1>2. CASE task' \in {task, Gapped, Idle}
  <2>1. task'.phase = "fetch" => task.phase = "fetch" /\ task'.after = task.after
    BY <1>1, <1>2, GappedIs, IdleIs
  <2> QED
    BY <2>1 DEF Replays
<1>3. CASE task' = catchUp(store) /\ task' # task
  <2>1. Begins(store, task')
    BY <1>1, <1>3, CatchUpIs
  <2>2. \A s \in Symbols : task'.after[s] # Skip => task'.after[s] > store.rec[s]
    <3> SUFFICES ASSUME NEW s \in Symbols, task'.after[s] # Skip
                 PROVE  task'.after[s] > store.rec[s]
      OBVIOUS
    <3>1. Starts(store, s, now, task'.after[s]) /\ store.rec[s] \in Int
      BY <1>1, <2>1, StoreIs, TimesIs DEF Begins, Typed
    <3> QED
      BY <3>1 DEF Starts
  <2> QED
    BY <2>2 DEF Replays
<1> QED
  BY <1>2, <1>3

\* A replay takes candles that close after the cursor.
LEMMA FetchReplays == ASSUME Shape, Replays, FetchReturns PROVE Replays'
<1>1. PICK r, a, syms, good : FetchStep(r, a, syms, good)
  BY FetchIs
<1>2. /\ Fetches(store', r, a, syms, good) /\ Asked(a, syms) /\ syms \subseteq good
      /\ ReplayInv(store, r, a, syms, ids, NInstants)
  BY <1>1 DEF FetchStep
<1>3. /\ syms \in SUBSET Symbols /\ good \subseteq Fetched
      /\ \A s \in syms : Outcomes(store, r, a, s)
      /\ \A s \in Symbols : r.closed[s] \in Int
      /\ store' \in BookSet(ids) /\ store \in StoreSet /\ task.end \in Int
  BY <1>1, FetchFacts, StoreIs DEF Shape, Typed
<1>4. /\ \A s \in Symbols : /\ store'.rec[s] \in Int /\ store.rec[s] \in Int
                            /\ store'.rec[s] >= store.rec[s]
      /\ \A s \in syms : store'.rec[s] >= r.closed[s]
  BY <1>2, <1>3, StoreIs, TimesIs DEF Fetches, Shape, Typed
<1>5. \A m \in Minutes : m \in Nat /\ CloseOf(m) \in Int
  BY PaperEngineAssumption, PaperTradingAssumption DEF Minutes, CloseOf
<1>6. ASSUME NEW s \in Symbols, NEW m \in store'.replayed[s]
      PROVE  CloseOf(m) <= store'.rec[s]
  <2>1. store'.replayed[s] = r.st.replayed[s] /\ m \in Minutes
    BY <1>2, <1>3, <1>6 DEF Fetches, BookSet, StoreSet
  <2>2. CASE m \in store.replayed[s]
    <3>1. CloseOf(m) <= store.rec[s]
      BY <2>2 DEF Replays
    <3> QED
      BY <1>4, <1>5, <2>1, <3>1
  <2>3. CASE m \notin store.replayed[s]
    <3>1. CASE s \in syms
      <4>1. CloseOf(m) <= r.closed[s]
        BY <1>3, <1>6, <2>1, <2>3, <3>1 DEF Outcomes
      <4> QED
        BY <1>3, <1>4, <1>5, <2>1, <3>1, <4>1
    <3>2. CASE s \notin syms
      <4>1. Aside(store, r, s)
        BY <1>2, <3>2 DEF ReplayInv, SymbolOK
      <4> QED
        BY <1>6, <2>1, <2>3, <4>1 DEF Aside
    <3> QED
      BY <3>1, <3>2
  <2> QED
    BY <2>2, <2>3
<1>7. ASSUME NEW s \in syms PROVE a[s] \cap store.replayed[s] = {}
  <2>1. s \in Symbols /\ task.after[s] # Skip /\ task.after[s] \in Int
    BY <1>2, <1>3, <1>7 DEF Fetched, Asked
  <2>2. task.after[s] > store.rec[s] /\ a[s] = Needed(task.after[s], task.end)
    BY <1>2, <2>1, FetchRest DEF Replays, Asked
  <2>3. ASSUME NEW m \in a[s], m \in store.replayed[s] PROVE FALSE
    <3>1. CloseOf(m) > task.after[s]
      BY <2>2, <2>3 DEF Needed
    <3>2. CloseOf(m) <= store.rec[s] /\ m \in Minutes
      BY <1>3, <2>1, <2>3 DEF Replays, StoreSet
    <3> QED
      BY <1>4, <1>5, <2>1, <2>2, <3>1, <3>2
  <2> QED
    BY <2>3
<1>8. store'.again = {}
  BY <1>2, <1>7 DEF Fetches, Replays
<1> QED
  BY <1>6, <1>8, FetchRest DEF Replays

\* Replays is inductive.
LEMMA NextReplays == ASSUME Shape, Replays, [Next]_vars PROVE Replays'
<1>0. store \in StoreSet /\ now \in Clock
  BY StoreIs DEF Shape, Typed
<1>1. CASE TickUnseen \/ TickBuffered \/ OverflowReplay \/ Freeze \/ Kill \/ UNCHANGED vars
  <2>1. store' = store /\ task' \in {task, Gapped, Idle, catchUp(store)}
    BY <1>1 DEF TickUnseen, TickBuffered, OverflowReplay, Freeze, Kill, Volatile, vars
  <2> QED
    BY <2>1, ReplaysKept
<1>2. CASE TickLive
  <2>1. PICK x : store' = x.st /\ Followed(store, quote, Moments, now', ids, NSymbols, x)
    BY <1>2, LiveIs DEF LiveStep
  <2>2. /\ store'.again = store.again /\ store'.replayed = store.replayed
        /\ store'.rec = store.rec /\ task' = task
    BY <1>2, <2>1 DEF Followed, Marks, TickLive
  <2> QED
    BY <2>2, ReplaysKept
<1>3. CASE SocketLost \/ Hide \/ Leave
  <2>1. Gapping(store, store', now)
    BY <1>0, <1>3, MarkGapIs DEF SocketLost, Hide, Leave
  <2>2. task' \in {task, Gapped, Idle, catchUp(store)}
    BY <1>3 DEF SocketLost, Hide, Leave, Volatile
  <2> QED
    BY <2>1, <2>2, ReplaysKept DEF Gapping, SameCursors
<1>4. CASE SocketOpens \/ Show
  <2>1. PICK slips, follows \in BOOLEAN : Awake(store, store', slips, follows)
    BY <1>4, OpensIs DEF OpensAwake
  <2>2. task' \in {task, Gapped, Idle, catchUp(store)}
    BY <1>4 DEF SocketOpens, Show
  <2> QED
    BY <2>1, <2>2, ReplaysKept DEF Awake, SameCursors
<1>5. CASE FetchReturns
  BY <1>5, FetchReplays
<1>6. CASE ChartsReturn
  <2>1. PICK x : /\ Followed(store, quote, buffer, now, ids, Len(buffer), x)
                 /\ IF overflowAt = Never THEN store' = x.st ELSE Reopens(x.st, store')
    BY <1>6, ChartsIs DEF ChartsStep
  <2>2. /\ x.st.again = store.again /\ x.st.replayed = store.replayed
        /\ x.st.rec = store.rec
    BY <2>1 DEF Followed, Marks
  <2>3. /\ store'.again = x.st.again /\ store'.replayed = x.st.replayed
        /\ store'.rec = x.st.rec
    BY <2>1, ReopenedIs DEF Reopened, SameCursors
  <2>4. task' = Idle
    BY <1>6 DEF ChartsReturn
  <2> QED
    BY <2>2, <2>3, <2>4, ReplaysKept
<1>7. CASE Start
  <2>1. task' \in {task, Gapped, Idle, catchUp(store)}
    BY <1>7, StartBase
  <2>2. /\ store'.again = store.again /\ store'.replayed = store.replayed
        /\ store'.rec = store.rec
    BY <1>7, StartBase DEF Based
  <2> QED
    BY <2>1, <2>2, ReplaysKept
<1>8. CASE Commands
  <2>1. Frame(store, store') /\ task' = task
    BY <1>8, UserIs DEF UserStep, Recamped, Quiet
  <2> QED
    BY <2>1, ReplaysKept DEF Frame
<1> QED
  BY <1>1, <1>2, <1>3, <1>4, <1>5, <1>6, <1>7, <1>8, NextCases

\* It holds in the initial states.
LEMMA InitReplays == ASSUME Init PROVE Replays
BY InitialIs, IdleIs DEF Init, Initial, Replays

\* No candle is replayed twice for a symbol, by whatever retry, later gap or other page
\* (recoveryStartForSymbol and the cursor of candles).
THEOREM CandlesReplayOnce == Spec => []ReplayedOnce
<1>1. Init => Replays
  BY InitReplays
<1>2. Shape /\ Replays /\ [Next]_vars => Replays'
  BY NextReplays
<1>3. Replays => ReplayedOnce
  BY DEF Replays, ReplayedOnce
<1> QED
  BY <1>1, <1>2, <1>3, ShapeHolds, PTL DEF Spec

------------------------------------------------------------------------------
(* The spans of the trades                                                  *)

\* The symbols whose trades HoldingsDisjoint speaks of.
CalmSymbols == Symbols \ (store.mixed \cup store.early)

\* A moment that nothing still to be applied precedes.
Known(st, tk, b) ==
  /\ b <= st.chk /\ (st.gap # Never => b <= st.gap)
  /\ \A s \in Symbols : b <= st.at[s]
  /\ tk.phase # "idle" => b <= tk.at

\* Nothing the books hold of s is later than a known moment.
Bounded(st, tk, s) ==
  NotAfter(st, s, st.rec[s]) \/ \E b \in Times : Known(st, tk, b) /\ NotAfter(st, s, b)

\* The last moment of the buffer is there for every symbol.
Full(b) == b # <<>> => \A s \in Symbols : \E i \in 1..Len(b) : b[i] = <<b[Len(b)][1], s>>

\* The trades of s are in order, and what is still to be applied comes after them.
InTurn(s) ==
  /\ Ordered(store, s) /\ Bounded(store, task, s)
  /\ task.phase = "fetch" /\ task.after[s] # Skip => NotAfter(store, s, task.after[s])

\* What HoldingsDisjoint needs to be inductive.
Orderly == Full(buffer) /\ \A s \in CalmSymbols : InTurn(s)

\* The books of s say no more than before.
Carries(s) ==
  /\ Ordered(store, s) => Ordered(store', s)
  /\ \A b \in Int : NotAfter(store, s, b) => NotAfter(store', s, b)

\* The same books say the same.
LEMMA CarriesSame == ASSUME SameBooks(store, store'), NEW s PROVE Carries(s)
BY SameBooksIs DEF Carries

\* The starting point of a replay is not before anything the books hold.
LEMMA AfterBooks ==
  ASSUME Shape, NEW s \in Symbols, Bounded(store, task, s), NEW start,
         Starts(store, s, now, start)
  PROVE  NotAfter(store, s, start)
<1>1. /\ store \in StoreSet /\ now \in Clock /\ store.rec[s] \in Int
      /\ store.gap \in Int /\ store.chk \in Int /\ store.at[s] \in Int /\ store.chk <= now
      /\ now \in Int
  BY StoreIs, TimesIs DEF Shape, Typed, Cursors
<1>2. /\ start \in Int /\ start >= store.rec[s] + 1
      /\ \E least \in Int : start >= least /\ (least = now \/ least \in CursorsOf(store, s))
  BY DEF Starts
<1>3. CASE NotAfter(store, s, store.rec[s])
  <2>1. store.rec[s] <= start
    BY <1>1, <1>2
  <2> QED
    BY <1>1, <1>2, <1>3, <2>1, NotAfterMore
<1>4. CASE \E b \in Times : Known(store, task, b) /\ NotAfter(store, s, b)
  <2>1. PICK b \in Times : Known(store, task, b) /\ NotAfter(store, s, b)
    BY <1>4
  <2>2. b \in Int
    BY TimesIs
  <2>3. PICK least \in Int : start >= least /\ (least = now \/ least \in CursorsOf(store, s))
    BY <1>2
  <2>4. b <= least
    BY <1>1, <2>1, <2>2, <2>3 DEF Known, CursorsOf
  <2>5. b <= start
    BY <1>2, <2>2, <2>3, <2>4
  <2> QED
    BY <1>1, <1>2, <2>1, <2>2, <2>5, NotAfterMore
<1> QED
  BY <1>3, <1>4 DEF Bounded

\* A step that books nothing new keeps the order.
LEMMA OrderlyKept ==
  ASSUME Shape, Orderly, \A s \in Symbols : Carries(s), store'.rec = store.rec,
         store.mixed \subseteq store'.mixed, store.early \subseteq store'.early,
         \A b \in Times : Known(store, task, b) => Known(store', task', b),
         Full(buffer'), task' \in {task, Gapped, Idle, catchUp(store)}
  PROVE  Orderly'
<1>1. Typed /\ now \in Clock /\ store \in StoreSet
  BY StoreIs DEF Shape, Typed
<1>2. ASSUME NEW s \in Symbols, s \notin store'.mixed \cup store'.early
      PROVE  /\ Ordered(store', s) /\ Bounded(store', task', s)
             /\ task'.phase = "fetch" /\ task'.after[s] # Skip => NotAfter(store', s, task'.after[s])
  <2>1. InTurn(s)
    BY <1>2 DEF Orderly, CalmSymbols
  <2>2. Carries(s) /\ store.rec[s] \in Int
    BY <1>1, StoreIs, TimesIs DEF Typed
  <2>3. Ordered(store', s) /\ Bounded(store', task', s)
    BY <2>1, <2>2, TimesIs DEF InTurn, Bounded, Carries
  <2>4. ASSUME task'.phase = "fetch", task'.after[s] # Skip
        PROVE  NotAfter(store', s, task'.after[s])
    <3>1. CASE task' \in {task, Gapped, Idle}
      <4>1. task.phase = "fetch" /\ task'.after = task.after
        BY <1>1, <2>4, <3>1, GappedIs, IdleIs
      <4>2. task.after[s] \in Int
        BY <1>1, TaskIs
      <4> QED
        BY <2>1, <2>2, <2>4, <4>1, <4>2 DEF InTurn, Carries
    <3>2. CASE task' = catchUp(store) /\ task' # task
      <4>1. Starts(store, s, now, task'.after[s])
        BY <1>1, <2>4, <3>2, CatchUpIs DEF Begins
      <4>2. NotAfter(store, s, task'.after[s]) /\ task'.after[s] \in Int
        BY <2>1, <4>1, AfterBooks DEF InTurn, Starts
      <4> QED
        BY <2>2, <4>2 DEF Carries
    <3> QED
      BY <3>1, <3>2
  <2> QED
    BY <2>3, <2>4
<1> QED
  BY <1>2 DEF Orderly, CalmSymbols, InTurn

------------------------------------------------------------------------------
(* Quotes                                                                   *)

\* Nothing the books hold is after the quotes that are about to be processed.
LEMMA BeforeQuotes ==
  ASSUME Shape, NEW s \in Symbols, Bounded(store, task, s), NEW t \in Int,
         IF task.phase = "idle" THEN t > now ELSE t > task.at
  PROVE  NotAfter(store, s, t)
<1>1. /\ store \in StoreSet /\ now \in Int /\ task.at \in Int
      /\ store.rec[s] \in Int /\ store.chk \in Int
      /\ store.chk <= now /\ store.rec[s] <= now /\ (task.phase # "idle" => store.rec[s] <= task.at)
  BY StoreIs, TimesIs, TaskIs DEF Shape, Typed, Cursors, Recovering
<1>2. CASE NotAfter(store, s, store.rec[s])
  <2>1. store.rec[s] <= t
    BY <1>1
  <2> QED
    BY <1>1, <1>2, <2>1, NotAfterMore
<1>3. CASE \E b \in Times : Known(store, task, b) /\ NotAfter(store, s, b)
  <2>1. PICK b \in Times : Known(store, task, b) /\ NotAfter(store, s, b)
    BY <1>3
  <2>2. b \in Int /\ b <= t
    BY <1>1, <2>1, TimesIs DEF Known
  <2> QED
    BY <1>1, <2>1, <2>2, NotAfterMore
<1> QED
  BY <1>2, <1>3 DEF Bounded

\* Quotes that are processed as they arrive keep the order,
LEMMA LiveOrderly == ASSUME Shape, Orderly, TickLive PROVE Orderly'
<1>1. PICK x : store' = x.st /\ Followed(store, quote, Moments, now', ids, NSymbols, x)
  BY LiveIs DEF LiveStep
<1>2. /\ now \in Clock /\ now' = now + 1 /\ now' \in Clock /\ now \in Int /\ now' \in Int
      /\ now' \in Times
  BY NowNext, TimesIs DEF TickLive, Shape, Typed
<1>3. /\ Len(Moments) = NSymbols /\ Sorted(Moments) /\ NSymbols \in 1..NSymbols
      /\ \A i \in 1..NSymbols : Moments[i] = <<now', i>>
  BY <1>2, MomentsIs, PaperTradingAssumption
<1>4. /\ Marks(store, store', Moments, now', NSymbols)
      /\ InTime(store, store', Moments, NSymbols)
  BY <1>1, <1>3 DEF Followed
<1>5. /\ ~Recovering /\ task' = task /\ buffer' = buffer /\ task.phase = "idle"
  BY DEF TickLive, Recovering
<1>6. ASSUME NEW s \in Symbols, s \notin store'.mixed \cup store'.early
      PROVE  Ordered(store', s) /\ Bounded(store', task', s)
  <2>1. s \notin store.mixed /\ s \notin store.early /\ store.gap = Never /\ store'.gap = Never
    BY <1>3, <1>4, <1>6 DEF Marks, Symbols
  <2>2. InTurn(s)
    BY <1>6, <2>1 DEF Orderly, CalmSymbols
  <2>3. NotAfter(store, s, now')
    BY <1>2, <1>5, <2>2, BeforeQuotes DEF InTurn
  <2>4. \A i \in 1..NSymbols : Moments[i][1] = now'
    BY <1>3
  <2>5. Ordered(store', s) /\ NotAfter(store', s, now')
    BY <1>3, <1>4, <2>2, <2>3, <2>4 DEF InTime, InTurn
  <2>6. Known(store', task', now')
    <3>1. \A u \in Symbols : store'.at[u] >= now'
      BY <1>3, <1>4 DEF Marks, Symbols
    <3>2. store'.chk = now'
      BY <1>3, <1>4 DEF Marks
    <3>3. \A u \in Symbols : store'.at[u] \in Int
      <4>1. Typed'
        BY LiveShape DEF Shape
      <4> QED
        BY <4>1, StoreIs, TimesIs DEF Typed
    <3> QED
      BY <1>2, <1>5, <2>1, <3>1, <3>2, <3>3 DEF Known
  <2> QED
    BY <1>2, <2>5, <2>6 DEF Bounded
<1> QED
  BY <1>5, <1>6 DEF Orderly, CalmSymbols, InTurn

\* so do quotes that wait,
LEMMA BufferedOrderly == ASSUME Shape, Orderly, TickBuffered PROVE Orderly'
<1>1. PICK f \in Int : FrontAt(Base, f)
  BY FrontExists
<1>2. PICK r : Buffering(f, r)
  BY <1>1, FillsIs
<1>3. /\ buffer' \in Seq(MomentSet) /\ NSymbols <= Len(buffer') /\ Len(buffer') \in Nat
      /\ \A i \in 1..NSymbols : buffer'[Len(buffer') - NSymbols + i] = <<now', i>>
  BY <1>2, LenProperties DEF Buffering, Filling, Buffers
<1>4. Full(buffer')
  <2>1. NSymbols \in Nat /\ NSymbols >= 1
    BY PaperTradingAssumption
  <2>2. buffer'[Len(buffer')] = <<now', NSymbols>>
    <3>1. NSymbols \in 1..NSymbols /\ Len(buffer') - NSymbols + NSymbols = Len(buffer')
      BY <1>3, <2>1
    <3> QED
      BY <1>3, <3>1
  <2>3. ASSUME NEW s \in Symbols PROVE \E i \in 1..Len(buffer') : buffer'[i] = <<now', s>>
    <3>1. Len(buffer') - NSymbols + s \in 1..Len(buffer') /\ s \in 1..NSymbols
      BY <1>3, <2>1, <2>3 DEF Symbols
    <3> QED
      BY <1>3, <3>1
  <2> QED
    BY <2>2, <2>3 DEF Full
<1>5. store' = store /\ task' = task
  BY DEF TickBuffered
<1>6. \A s \in Symbols : Carries(s)
  BY <1>5 DEF Carries
<1> QED
  BY <1>4, <1>5, <1>6, OrderlyKept

\* a replay,
LEMMA FetchOrderly == ASSUME Shape, Orderly, FetchReturns PROVE Orderly'
<1>1. PICK r, a, syms, good : FetchStep(r, a, syms, good)
  BY FetchIs
<1>2. /\ Fetches(store', r, a, syms, good) /\ syms \subseteq good
      /\ ReplayInv(store, r, a, syms, ids, NInstants)
  BY <1>1 DEF FetchStep
<1>3. /\ syms \in SUBSET Symbols /\ good \subseteq Fetched /\ r \in ReplayStates(ids)
      /\ \A s \in syms : Outcomes(store, r, a, s)
      /\ \A s \in Symbols : r.closed[s] \in Int
      /\ store' \in BookSet(ids) /\ store \in StoreSet /\ task.at \in Int
      /\ r.st \in StoreSet /\ SameBooks(r.st, store')
  BY <1>1, FetchFacts, StoreIs, TimesIs DEF Shape, Typed
<1>4. ASSUME NEW s \in Symbols
      PROVE  /\ store'.rec[s] \in Int /\ store.rec[s] \in Int /\ store'.rec[s] >= store.rec[s]
             /\ store'.at[s] \in Int /\ store.at[s] \in Int /\ store'.at[s] >= store.at[s]
             /\ s \in syms => store'.rec[s] >= r.closed[s]
  BY <1>2, <1>3, StoreIs, TimesIs DEF Fetches, Shape, Typed
<1>5. ASSUME NEW b \in Times, Known(store, task, b) PROVE Known(store', task', b)
  <2>1. store'.chk = task.at /\ store'.gap \in {Never, store.gap} /\ b \in Int
    BY <1>2, TimesIs DEF Fetches
  <2>2. b <= task.at
    BY <1>5, FetchRest DEF Known
  <2>3. \A s \in Symbols : b <= store'.at[s]
    BY <1>4, <1>5, <2>1 DEF Known
  <2> QED
    BY <1>5, <2>1, <2>2, <2>3, FetchRest DEF Known
<1>6. ASSUME NEW s \in Symbols, s \notin store'.mixed \cup store'.early
      PROVE  Ordered(store', s) /\ Bounded(store', task', s)
  <2>1. s \notin r.st.early /\ s \notin store.mixed /\ s \notin store.early
    BY <1>2, <1>6 DEF Fetches, ReplayInv
  <2>2. InTurn(s)
    BY <1>6, <2>1 DEF Orderly, CalmSymbols
  <2>3. CASE Kept(store, r.st, s)
    <3>1. Ordered(store', s) /\ \A b \in Int : NotAfter(store, s, b) => NotAfter(store', s, b)
      BY <1>3, <2>2, <2>3, SameBooksIs DEF Kept, InTurn
    <3>2. NotAfter(store, s, store.rec[s]) => NotAfter(store', s, store'.rec[s])
      BY <1>3, <1>4, <3>1, NotAfterMore
    <3> QED
      BY <1>5, <2>2, <3>1, <3>2, TimesIs DEF InTurn, Bounded
  <2>4. CASE ~Kept(store, r.st, s)
    <3>1. s \in syms
      <4>1. s \notin syms => Aside(store, r, s)
        BY <1>2 DEF ReplayInv, SymbolOK
      <4> QED
        BY <2>1, <2>4, <4>1 DEF Aside
    <3>2. task.after[s] # Skip /\ Calm(store, s)
      BY <1>2, <1>3, <2>2, <3>1, FetchRest DEF Fetched, InTurn, Calm
    <3>3. Ordered(r.st, s) /\ NotAfter(r.st, s, r.closed[s])
      BY <1>3, <2>4, <3>1, <3>2 DEF Outcomes
    <3>4. NotAfter(r.st, s, store'.rec[s])
      BY <1>3, <1>4, <3>1, <3>3, NotAfterMore
    <3> QED
      BY <1>3, <3>3, <3>4, SameBooksIs DEF Bounded
  <2> QED
    BY <2>3, <2>4
<1> QED
  BY <1>6, FetchRest DEF Orderly, CalmSymbols, InTurn

\* An empty buffer changes nothing.
LEMMA FlushEmpty ==
  ASSUME Shape, ChartsReturn, buffer = <<>>, overflowAt = Never
  PROVE  store' = store
<1>1. /\ now \in Clock /\ store \in BookSet(ids) /\ ids \in Nat /\ quote \in [Symbols -> Int]
      /\ market \in Tapes /\ buffer \in Seq(MomentSet)
  BY DEF Shape, Typed
<1>2. PICK h : QuoteRun(h, store, quote, buffer, market, now)
  BY <1>1, QuoteRunExists
<1>3. processQuotes(store, quote, buffer, market, now) = h[0] /\ h[0].st = store
  BY <1>2 DEF QuoteRun
<1>4. store' = processQuotes(store, quote, buffer, market, now).st
  BY DEF ChartsReturn, flushRecoveryQuotes
<1> QED
  BY <1>3, <1>4

\* the quotes that waited,
LEMMA ChartsOrderly == ASSUME Shape, Orderly, ChartsReturn PROVE Orderly'
<1>1. PICK x : /\ Followed(store, quote, buffer, now, ids, Len(buffer), x)
               /\ IF overflowAt = Never THEN store' = x.st ELSE Reopens(x.st, store')
  BY ChartsIs DEF ChartsStep
<1>2. /\ Marks(store, x.st, buffer, now, Len(buffer)) /\ InTime(store, x.st, buffer, Len(buffer))
      /\ x.st.gap = store.gap /\ \A s \in Symbols : x.st.at[s] \in Int
  BY <1>1, FlushFacts, TimesIs
<1>3. Full(buffer') /\ task'.phase = "idle" /\ task' = Idle
  BY ChartsRest, IdleIs DEF Full
<1>4. CASE overflowAt # Never
  <2>1. store'.mixed = Symbols
    BY <1>1, <1>4, ReopenedIs DEF Reopened
  <2> QED
    BY <1>3, <2>1 DEF Orderly, CalmSymbols
<1>5. CASE overflowAt = Never /\ buffer = <<>>
  <2>1. store' = store
    BY <1>5, FlushEmpty
  <2>2. \A b \in Times : Known(store, task, b) => Known(store', task', b)
    BY <1>3, <2>1 DEF Known
  <2>3. \A s \in Symbols : Carries(s)
    BY <2>1 DEF Carries
  <2> QED
    BY <1>3, <2>1, <2>2, <2>3, OrderlyKept
<1>6. CASE overflowAt = Never /\ buffer # <<>>
  <2> DEFINE n == Len(buffer)
             t == buffer[n][1]
  <2>1. store' = x.st
    BY <1>1, <1>6
  <2>2. buffer \in Seq(MomentSet) /\ n \in Nat /\ n \in 1..n
    BY <1>6, LenProperties, EmptySeq DEF Shape, Typed
  <2>3. \A i \in 1..n : buffer[i][1] \in Int /\ buffer[i][1] > task.at /\ buffer[i][1] <= now
    BY <2>2, MomentIs DEF Shape, Paged
  <2>4. t \in Clock /\ t \in Times /\ t \in Int /\ t <= now /\ now \in Int
    BY <2>2, <2>3, MomentIs, TimesIs DEF Shape, Typed
  <2>5. \A s \in Symbols : \E i \in 1..n : buffer[i] = <<t, s>>
    BY <1>6 DEF Orderly, Full
  <2> HIDE DEF t, n
  <2>6. ASSUME NEW s \in Symbols, s \notin store'.mixed \cup store'.early
        PROVE  Ordered(store', s) /\ Bounded(store', task', s)
    <3>1. s \notin store.mixed /\ s \notin store.early /\ store.gap = Never /\ store'.gap = Never
      <4>1. PICK i \in 1..n : buffer[i] = <<t, s>>
        BY <2>5
      <4>2. buffer[i][2] = s
        BY <4>1
      <4> QED
        BY <1>2, <2>1, <2>6, <4>2 DEF Marks, n
    <3>2. InTurn(s)
      BY <2>6, <3>1 DEF Orderly, CalmSymbols
    <3>3. \A i \in 1..n : NotAfter(store, s, buffer[i][1])
      BY <2>3, <3>2, BeforeQuotes, ChartsRest DEF InTurn
    <3>4. Ordered(store', s) /\ NotAfter(store', s, t)
      BY <1>2, <2>1, <2>2, <3>2, <3>3 DEF InTime, InTurn, n, t
    <3>5. Known(store', task', t)
      <4>1. ASSUME NEW u \in Symbols PROVE t <= store'.at[u]
        <5>1. PICK i \in 1..n : buffer[i] = <<t, u>>
          BY <2>5
        <5>2. buffer[i][2] = u /\ buffer[i][1] = t
          BY <5>1
        <5>3. x.st.at[buffer[i][2]] >= buffer[i][1]
          BY <1>2, <5>1 DEF Marks, n
        <5> QED
          BY <1>2, <2>1, <2>4, <5>2, <5>3
      <4>2. store'.chk = now
        BY <1>2, <2>1, <2>2 DEF Marks, n
      <4> QED
        BY <1>3, <2>4, <3>1, <4>1, <4>2 DEF Known
    <3> QED
      BY <2>4, <3>4, <3>5 DEF Bounded
  <2> QED
    BY <1>3, <2>6 DEF Orderly, CalmSymbols, InTurn
<1> QED
  BY <1>4, <1>5, <1>6

\* a command of the user,
LEMMA UserOrderly == ASSUME Shape, Orderly, Commands PROVE Orderly'
<1>1. Recamped /\ Quiet
  BY UserIs DEF UserStep
<1>2. Frame(store, store') /\ task' = task /\ buffer' = buffer
  BY <1>1 DEF Recamped, Quiet
<1>3. ASSUME NEW s \in Symbols PROVE Carries(s)
  <2>1. store'.trades = store.trades \/ store'.trades = <<>>
    BY <1>1 DEF Recamped
  <2>2. store'.camp[s] = store.camp[s] \/ Filled(store'.camp[s]) = {}
    BY <1>1 DEF Recamped
  <2>3. Ordered(store, s) => Ordered(store', s)
    BY <2>1, <2>2 DEF Ordered
  <2>4. \A b \in Int : NotAfter(store, s, b) => NotAfter(store', s, b)
    BY <2>1, <2>2 DEF NotAfter
  <2> QED
    BY <2>3, <2>4 DEF Carries
<1>4. \A b \in Times : Known(store, task, b) => Known(store', task', b)
  BY <1>2 DEF Known, Frame
<1>5. Full(buffer')
  BY <1>2 DEF Orderly
<1> QED
  BY <1>2, <1>3, <1>4, <1>5, OrderlyKept DEF Frame

\* The books stay, and no moment that was known is unknown afterwards.
LEMMA BooksOrderly ==
  ASSUME Shape, Orderly, SameBooks(store, store'), store'.rec = store.rec,
         store'.mixed = store.mixed, store'.early = store.early,
         buffer' = buffer \/ buffer' = <<>>, task' \in {task, Gapped, Idle, catchUp(store)},
         \A b \in Times : /\ Known(store, Idle, b) /\ b <= now => Known(store', Idle, b)
  PROVE  Orderly'
<1>1. Typed /\ now \in Clock /\ now \in Int /\ store \in StoreSet
  BY StoreIs, TimesIs DEF Shape, Typed
<1>2. Full(buffer')
  BY DEF Orderly, Full
<1>3. ASSUME NEW b \in Times, Known(store, task, b) PROVE Known(store', task', b)
  <2>1. b \in Int /\ store.chk \in Int /\ store.chk <= now /\ b <= store.chk
    BY <1>1, <1>3, StoreIs, TimesIs DEF Typed, Shape, Cursors, Known
  <2>2. b <= now
    BY <1>1, <2>1
  <2>3. Known(store, Idle, b)
    BY <1>3, IdleIs DEF Known
  <2>4. Known(store', Idle, b)
    BY <2>2, <2>3
  <2>5. task'.phase # "idle" => b <= task'.at
    <3>1. CASE task' \in {task, Gapped, Idle}
      <4>1. task'.phase # "idle" => task.phase # "idle" /\ task'.at = task.at
        BY <1>1, <3>1, GappedIs, IdleIs
      <4> QED
        BY <1>3, <4>1 DEF Known
    <3>2. CASE task' = catchUp(store) /\ task' # task
      <4>1. task'.at = now
        BY <1>1, <3>2, CatchUpIs DEF Begins
      <4> QED
        BY <2>2, <4>1
    <3> QED
      BY <3>1, <3>2
  <2> QED
    BY <2>4, <2>5 DEF Known
<1>4. \A s \in Symbols : Carries(s)
  BY CarriesSame
<1> QED
  BY <1>2, <1>3, <1>4, OrderlyKept

\* and every other step.
LEMMA NextOrderly == ASSUME Shape, Orderly, [Next]_vars PROVE Orderly'
<1>0. store \in StoreSet /\ now \in Clock /\ now \in Int
  BY StoreIs, TimesIs DEF Shape, Typed
<1>1. CASE TickUnseen \/ OverflowReplay \/ Freeze \/ Kill \/ UNCHANGED vars
  <2>1. /\ store' = store /\ task' \in {task, Gapped, Idle, catchUp(store)}
        /\ buffer' = buffer \/ buffer' = <<>>
    BY <1>1 DEF TickUnseen, OverflowReplay, Freeze, Kill, Volatile, vars
  <2> QED
    BY <1>0, <2>1, BooksOrderly, SelfBooks
<1>2. CASE TickLive
  BY <1>2, LiveOrderly
<1>3. CASE TickBuffered
  BY <1>3, BufferedOrderly
<1>4. CASE SocketLost \/ Hide \/ Leave
  <2>1. Gapping(store, store', now)
    BY <1>0, <1>4, MarkGapIs DEF SocketLost, Hide, Leave
  <2>2. /\ task' \in {task, Gapped, Idle, catchUp(store)}
        /\ buffer' = buffer \/ buffer' = <<>>
    BY <1>4 DEF SocketLost, Hide, Leave, Volatile
  <2>3. ASSUME NEW b \in Times, Known(store, Idle, b), b <= now PROVE Known(store', Idle, b)
    <3>1. b \in Int /\ (store.gap # Never => b <= store.gap) /\ \A s \in Symbols : b <= store.at[s]
      BY <2>3, TimesIs DEF Known
    <3>2. \A s \in Symbols : store.at[s] # Never
      BY <1>4 DEF SocketLost, Hide, Leave, Running, Shape, Cursors
    <3>3. b <= store'.gap
      BY <2>1, <2>3, <3>1, <3>2 DEF Gapping
    <3> QED
      BY <2>1, <2>3, <3>1, <3>3, IdleIs DEF Gapping, SameCursors, Known
  <2> QED
    BY <2>1, <2>2, <2>3, BooksOrderly DEF Gapping, SameCursors
<1>5. CASE SocketOpens \/ Show
  <2>1. PICK slips, follows \in BOOLEAN : Awake(store, store', slips, follows)
    BY <1>5, OpensIs DEF OpensAwake
  <2>2. task' \in {task, Gapped, Idle, catchUp(store)} /\ buffer' = buffer
    BY <1>5 DEF SocketOpens, Show
  <2>3. \A b \in Times : Known(store, Idle, b) => Known(store', Idle, b)
    BY <2>1 DEF Awake, SameCursors, Known
  <2> QED
    BY <2>1, <2>2, <2>3, BooksOrderly DEF Awake, SameCursors
<1>6. CASE FetchReturns
  BY <1>6, FetchOrderly
<1>7. CASE ChartsReturn
  BY <1>7, ChartsOrderly
<1>8. CASE Start
  <2>1. task' \in {task, Gapped, Idle, catchUp(store)} /\ buffer' = buffer
    BY <1>8, StartBase DEF Start
  <2>2. CASE store' = store
    BY <1>0, <2>1, <2>2, BooksOrderly, SelfBooks
  <2>3. CASE Based(store, store')
    <3>1. \A b \in Times : Known(store, Idle, b) /\ b <= now => Known(store', Idle, b)
      BY <2>3, IdleIs DEF Based, Known
    <3> QED
      BY <2>1, <2>3, <3>1, BooksOrderly DEF Based
  <2> QED
    BY <1>8, <2>2, <2>3, StartBase
<1>9. CASE Commands
  BY <1>9, UserOrderly
<1> QED
  BY <1>1, <1>2, <1>3, <1>4, <1>5, <1>6, <1>7, <1>8, <1>9, NextCases

\* The order holds in the initial states.
LEMMA InitOrderly == ASSUME Init PROVE Orderly
<1>1. Initial(store) /\ task.phase = "idle" /\ buffer = <<>>
  BY InitialIs, IdleIs DEF Init
<1>2. ASSUME NEW s \in Symbols PROVE Ordered(store, s) /\ NotAfter(store, s, store.rec[s])
  BY <1>1 DEF Initial, Ordered, NotAfter
<1> QED
  BY <1>1, <1>2 DEF Orderly, InTurn, Bounded, Full, CalmSymbols

\* It makes the spans of the trades disjoint.
LEMMA OrderlyDisjoint == ASSUME Shape, Orderly PROVE HoldingsDisjoint
<1> SUFFICES ASSUME NEW i \in DOMAIN store.trades, NEW j \in DOMAIN store.trades,
                    store.trades[i].sym \notin store.mixed \cup store.early
             PROVE  /\ store.trades[i].entry <= store.trades[i].exit
                    /\ (i # j /\ store.trades[i].sym = store.trades[j].sym) =>
                         \/ store.trades[i].exit <= store.trades[j].entry
                         \/ store.trades[j].exit <= store.trades[i].entry
  BY DEF HoldingsDisjoint
<1>1. store.trades[i].sym \in Symbols
  BY StoreIs, TradesIn DEF Shape, Typed
<1>2. Ordered(store, store.trades[i].sym)
  BY <1>1 DEF Orderly, CalmSymbols, InTurn
<1> QED
  BY <1>2 DEF Ordered

\* The trades of a symbol whose quotes were processed in order, and that no margin check
\* sold outside its replay, do not overlap, however live quotes, replays, boundary candles
\* and the buffer meet (processBotQuote, recoverMissedPaperTrading).
THEOREM HoldingsStayDisjoint == Spec => []HoldingsDisjoint
<1>1. Init => Orderly
  BY InitOrderly
<1>2. Shape /\ Orderly /\ [Next]_vars => Orderly'
  BY NextOrderly
<1>3. Shape /\ Orderly => HoldingsDisjoint
  BY OrderlyDisjoint
<1> QED
  BY <1>1, <1>2, <1>3, ShapeHolds, PTL DEF Spec

------------------------------------------------------------------------------
(* Every minute is covered                                                  *)

\* A quote of s of minute t waits in the buffer.
InBuffer(s, t) ==
  \E i \in 1..Len(buffer) : buffer[i][2] = s /\ buffer[i][1] \div Minute = t

\* The minute waits, or the gap that will reopen reaches back to it.
InHand(s, m) == InBuffer(s, m) \/ (overflowAt # Never /\ overflowAt <= CloseOf(m))

\* The page has neither seen the minute m of s nor replayed it, and a replay that
\* begins now reaches it.
Missed(s, m) ==
  /\ Active(store.camp[s]) /\ store.since # Never
  /\ OpenOf(m) <= now /\ CloseOf(m) > now - MaxRecovery
  /\ OpenOf(m) > store.camp[s].createdAt /\ OpenOf(m) > store.since
  /\ m \notin store.live[s] /\ m \notin store.replayed[s]

\* A replay will ask for it, or has it in its buffer.
Due(s, m) ==
  /\ store.rec[s] < CloseOf(m)
  /\ IF store.gap = Never THEN store.at[s] < CloseOf(m) ELSE store.gap < CloseOf(m)
  /\ CloseOf(m) >= now => store.at[s] < CloseOf(m)
  /\ task.phase = "fetch" /\ task.after[s] # Skip => task.after[s] < CloseOf(m)
  /\ task.phase # "idle" /\ CloseOf(m) > task.end => store.at[s] < CloseOf(m)
  /\ task.phase = "fetch" /\ ws = "open" /\ ~task.gapped /\ page = "shown" /\ CloseOf(m) > task.end
       => InHand(s, m)
  /\ task.phase = "charts" /\ ws = "open" /\ store.gap = Never => InHand(s, m)
  /\ ~(Running /\ ws = "open" /\ task.phase = "idle" /\ store.gap = Never)

\* Something waits for the replay to end, or was dropped.
Waiting == buffer # <<>> \/ overflowAt # Never

\* No minute is forgotten.
Dues     == \A s \in Symbols \ store.slipped : \A m \in Minutes : Missed(s, m) => Due(s, m)
\* What waits came by a socket that is still open, unless the gap is known.
Attended == Waiting /\ ~task.gapped /\ Symbols \ store.slipped # {} =>
              ws = "open" \/ page = "frozen"
\* A campaign that is not asked for is younger than the replay.
Fresh    == task.phase = "fetch" =>
              \A s \in Symbols : task.after[s] = Skip /\ Active(store.camp[s]) =>
                                   store.camp[s].createdAt >= task.at
\* A page that is connected has the minute under way.
Watched  == Running /\ ws = "open" =>
              \A s \in Symbols : now \div Minute \in store.live[s] \/ InBuffer(s, now \div Minute)

\* Where what waits begins; the minute before that was seen.
Fronts(f, b, o) ==
  /\ IF o = Never THEN Len(b) # 0 /\ b[1][1] = f ELSE o = f
  /\ \A i \in 1..Len(b) : f <= b[i][1]

\* The minute before what waits was seen.
Fronted ==
  Waiting => \E f \in Clock : /\ Fronts(f, buffer, overflowAt) /\ f > task.at
                              /\ \A s \in Symbols : (f - 1) \div Minute \in store.live[s]

\* What GapsCovered needs to be inductive.
Coverage == Dues /\ Attended /\ Fresh /\ Watched /\ Fronted

\* A minute holds the ticks from its open to its close.
LEMMA MinuteIs ==
  ASSUME NEW m \in Minutes
  PROVE  /\ m \in Nat /\ OpenOf(m) \in Int /\ CloseOf(m) \in Int /\ CloseOf(m) > OpenOf(m)
         /\ OpenOf(m) >= 0
         /\ \A t \in Clock : (t \div Minute = m) <=> (OpenOf(m) <= t /\ t <= CloseOf(m))
         /\ \A k \in Minutes : CloseOf(k) < CloseOf(m) => CloseOf(k) + 1 < CloseOf(m)
<1>1. Minute \in Nat /\ Minute >= 2 /\ Horizon \in Nat
  BY PaperEngineAssumption, PaperTradingAssumption
<1>2. Minutes \subseteq Nat
  BY <1>1 DEF Minutes
<1>3. /\ m \in Nat /\ OpenOf(m) \in Int /\ CloseOf(m) \in Int /\ CloseOf(m) > OpenOf(m)
      /\ OpenOf(m) >= 0
  BY <1>1, <1>2 DEF OpenOf, CloseOf
<1>4. ASSUME NEW t \in Clock
      PROVE  (t \div Minute = m) <=> (OpenOf(m) <= t /\ t <= CloseOf(m))
  BY <1>1, <1>3 DEF OpenOf, CloseOf, Clock
<1>5. ASSUME NEW k \in Minutes, CloseOf(k) < CloseOf(m) PROVE CloseOf(k) + 1 < CloseOf(m)
  BY <1>1, <1>2, <1>5 DEF CloseOf
<1> QED
  BY <1>3, <1>4, <1>5

\* The numbers of a symbol and of a minute.
LEMMA NumbersAre ==
  ASSUME Shape, NEW s \in Symbols
  PROVE  /\ now \in Int /\ now \in Clock /\ store \in StoreSet
         /\ store.chk \in Int /\ store.gap \in Int /\ store.since \in Int
         /\ store.at[s] \in Int /\ store.rec[s] \in Int /\ store.camp[s].createdAt \in Int
         /\ store.chk <= now /\ store.gap <= now /\ store.at[s] <= now /\ store.rec[s] <= now
         /\ store.camp[s].createdAt <= now
         /\ store.since # Never => store.chk # Never /\ store.at[s] # Never
         /\ task.at \in Int /\ task.end \in Int /\ task.after[s] \in Int
BY StoreIs, TimesIs, TaskIs DEF Shape, Typed, Cursors

------------------------------------------------------------------------------
(* What the coverage of a minute means for a replay                         *)

\* A replay that begins now asks for a minute that is due.
LEMMA StartBefore ==
  ASSUME Shape, NEW s \in Symbols, NEW m \in Minutes, Missed(s, m), Due(s, m),
         NEW start, Starts(store, s, now, start)
  PROVE  start < CloseOf(m)
<1>1. /\ store.rec[s] < CloseOf(m) /\ store.since # Never
      /\ IF store.gap = Never THEN store.at[s] < CloseOf(m) ELSE store.gap < CloseOf(m)
      /\ store.camp[s].createdAt < OpenOf(m)
  BY NumbersAre, MinuteIs DEF Missed, Due
<1>2. PICK least \in Int :
        /\ start \in {least, store.rec[s] + 1, now - MaxRecovery, store.camp[s].createdAt}
        /\ \A e \in CursorsOf(store, s) : least <= e
  BY DEF Starts
<1>3. least < CloseOf(m)
  <2>1. CASE store.gap # Never
    <3>1. store.gap \in CursorsOf(store, s)
      BY <2>1 DEF CursorsOf
    <3> QED
      BY <1>1, <1>2, <2>1, <3>1, NumbersAre, MinuteIs
  <2>2. CASE store.gap = Never
    <3>1. store.at[s] \in CursorsOf(store, s)
      BY <1>1, NumbersAre DEF CursorsOf
    <3> QED
      BY <1>1, <1>2, <2>2, <3>1, NumbersAre, MinuteIs
  <2> QED
    BY <2>1, <2>2
<1>4. store.rec[s] + 1 < CloseOf(m)
  <2>1. CASE store.rec[s] = Never
    BY <2>1, MinuteIs DEF Never
  <2>2. CASE \E k \in Minutes : store.rec[s] = CloseOf(k)
    BY <1>1, <2>2, MinuteIs
  <2> QED
    BY <2>1, <2>2 DEF Shape, Cursors
<1>5. store.camp[s].createdAt < CloseOf(m)
  BY <1>1, NumbersAre, MinuteIs
<1>6. now - MaxRecovery < CloseOf(m)
  <2>1. now \in Int /\ MaxRecovery \in Int /\ CloseOf(m) \in Int
    BY NumbersAre, MinuteIs, PaperTradingAssumption
  <2> QED
    BY <2>1 DEF Missed
<1> QED
  BY <1>2, <1>3, <1>4, <1>5, <1>6

\* A minute that is due is awaited.
LEMMA CoverageSuffices == ASSUME Shape, Coverage PROVE GapsCovered
<1> SUFFICES ASSUME NEW s \in Symbols \ store.slipped, NEW m \in Lived(s),
                    m \notin store.live[s], m \notin store.replayed[s]
             PROVE  Awaited(s, m)
  BY DEF GapsCovered, Forgotten
<1>1. /\ m \in Minutes /\ Active(store.camp[s]) /\ store.since # Never
      /\ CloseOf(m) < now /\ CloseOf(m) > now - MaxRecovery
      /\ OpenOf(m) > Max({store.camp[s].createdAt, store.since})
  BY DEF Lived
<1>2. OpenOf(m) > store.camp[s].createdAt /\ OpenOf(m) > store.since
  <2>1. store.camp[s].createdAt \in Int /\ store.since \in Int /\ OpenOf(m) \in Int
    BY <1>1, NumbersAre, MinuteIs
  <2>2. /\ Max({store.camp[s].createdAt, store.since}) \in Int
        /\ Max({store.camp[s].createdAt, store.since}) >= store.camp[s].createdAt
        /\ Max({store.camp[s].createdAt, store.since}) >= store.since
    BY <2>1, MaxOfTwo
  <2> QED
    BY <1>1, <2>1, <2>2
<1>3. Missed(s, m)
  BY <1>1, <1>2, NumbersAre, MinuteIs DEF Missed
<1>4. Due(s, m)
  BY <1>1, <1>3 DEF Coverage, Dues
<1>5. Starts(store, s, now, recoveryStartForSymbol(store, s, now))
  BY NumbersAre, StartIs
<1>6. recoveryStartForSymbol(store, s, now) < CloseOf(m)
  BY <1>1, <1>3, <1>4, <1>5, StartBefore
<1>7. recoveryStartForSymbol(store, s, now) \in Int
  BY <1>5 DEF Starts
<1>8. store.gap # Never \/ store.at[s] < CloseOf(m)
  BY <1>4 DEF Due
<1> QED
  BY <1>1, <1>6, <1>7, <1>8, MinuteIs DEF Awaited

\* What a buffered tick leaves.
LEMMA BufferKeeps ==
  ASSUME Shape, TickBuffered, NEW f \in Int, NEW r, Buffering(f, r)
  PROVE  /\ \A s \in Symbols : \E i \in 1..Len(buffer') : buffer'[i] = <<now', s>>
         /\ overflowAt' = Never =>
              /\ overflowAt = Never
              /\ \A i \in 1..Len(buffer) : \E j \in 1..Len(buffer') : buffer'[j] = buffer[i]
         /\ overflowAt' # Never => overflowAt' = f
         /\ Fronts(f, buffer', overflowAt')
<1>1. /\ buffer' \in Seq(MomentSet) /\ NSymbols <= Len(buffer') /\ Len(buffer') \in Nat
      /\ NSymbols \in Nat /\ NSymbols >= 1
  BY LenProperties, PaperTradingAssumption DEF Buffering, Filling, Buffers
<1>2. /\ \A i \in 1..NSymbols : buffer'[Len(buffer') - NSymbols + i] = <<now', i>>
      /\ overflowAt' = Never =>
           /\ overflowAt = Never
           /\ \A i \in 1..Len(buffer) : \E j \in 1..Len(buffer') : buffer'[j] = buffer[i]
  BY FrontIs DEF Buffering, Filling
<1>3. ASSUME NEW s \in Symbols PROVE \E i \in 1..Len(buffer') : buffer'[i] = <<now', s>>
  <2>1. Len(buffer') - NSymbols + s \in 1..Len(buffer') /\ s \in 1..NSymbols
    BY <1>1 DEF Symbols
  <2> QED
    BY <1>2, <2>1
<1>4. FrontAt(r, f) /\ buffer' = r.b /\ overflowAt' = r.at
  BY DEF Buffering, Filling
<1>5. Fronts(f, buffer', overflowAt') /\ (overflowAt' # Never => overflowAt' = f)
  BY <1>1, <1>4 DEF Fronts, FrontAt
<1> QED
  BY <1>2, <1>3, <1>5

\* Something waits only while a replay is under way.
LEMMA WaitingIs ==
  ASSUME Shape
  PROVE  /\ (Waiting => task.phase # "idle") /\ (buffer # <<>> <=> Len(buffer) # 0)
         /\ Len(buffer) \in Nat
<1>1. buffer \in Seq(MomentSet)
  BY DEF Shape, Typed
<1> QED
  BY <1>1, EmptySeq, LenProperties DEF Shape, Paged, Waiting, Recovering

\* A quote that waits leaves the front of the buffer where it was, or is it.
LEMMA FrontedBuffered == ASSUME Shape, Watched, Fronted, TickBuffered PROVE Fronted'
<1>1. /\ store' = store /\ task' = task /\ now \in Clock /\ now' = now + 1 /\ now' \in Clock
      /\ now \in Int /\ Running /\ ws = "open" /\ Recovering
  BY NowNext, TimesIs DEF TickBuffered, Shape, Typed
<1>2. \E f \in Clock : /\ FrontAt(Base, f) /\ f > task.at
                       /\ \A s \in Symbols : (f - 1) \div Minute \in store.live[s]
  <2>1. CASE Waiting
    <3>1. PICK f \in Clock : /\ Fronts(f, buffer, overflowAt) /\ f > task.at
                             /\ \A s \in Symbols : (f - 1) \div Minute \in store.live[s]
      BY <2>1 DEF Fronted
    <3>2. FrontAt(Base, f)
      BY <3>1, FrontIs DEF Fronts
    <3> QED
      BY <3>1, <3>2
  <2>2. CASE ~Waiting
    <3>1. overflowAt = Never /\ Len(buffer) = 0
      BY <2>2, WaitingIs DEF Waiting
    <3>2. FrontAt(Base, now')
      BY <3>1, FrontIs
    <3>3. ~\E i \in 1..Len(buffer) : TRUE
      BY <3>1
    <3>4. \A s \in Symbols : (now' - 1) \div Minute \in store.live[s]
      <4>1. now' - 1 = now
        BY <1>1
      <4> QED
        BY <1>1, <3>3, <4>1 DEF Watched, InBuffer
    <3>5. now' > task.at
      <4>1. task.at \in Int
        BY TaskIs, TimesIs DEF Shape
      <4>2. task.at <= now
        BY <1>1 DEF Shape, Paged
      <4> QED
        BY <1>1, <4>1, <4>2
    <3> QED
      BY <1>1, <3>2, <3>4, <3>5
  <2> QED
    BY <2>1, <2>2
<1>3. PICK f \in Clock : /\ FrontAt(Base, f) /\ f > task.at
                         /\ \A s \in Symbols : (f - 1) \div Minute \in store.live[s]
  BY <1>2
<1>4. f \in Int
  BY TimesIs
<1>5. PICK r : Buffering(f, r)
  BY <1>3, <1>4, FillsIs
<1>6. Fronts(f, buffer', overflowAt')
  BY <1>4, <1>5, BufferKeeps
<1> QED
  BY <1>1, <1>3, <1>6 DEF Fronted

\* What waits stays, and no minute is forgotten.
LEMMA FrontedKept ==
  ASSUME Shape, Fronted, \A s \in Symbols : store.live[s] \subseteq store'.live[s],
         \/ buffer' = buffer /\ overflowAt' = overflowAt /\ (task'.at = task.at \/ ~Recovering)
         \/ buffer' = <<>> /\ overflowAt' = Never
  PROVE  Fronted'
<1>1. CASE ~Waiting'
  BY <1>1 DEF Fronted
<1>2. CASE Waiting'
  <2>1. buffer' = buffer /\ overflowAt' = overflowAt /\ (task'.at = task.at \/ ~Recovering)
    BY <1>2 DEF Waiting
  <2>2. Waiting
    BY <1>2, <2>1 DEF Waiting
  <2>3. task'.at = task.at
    BY <2>1, <2>2, WaitingIs DEF Recovering
  <2>4. PICK f \in Clock : /\ Fronts(f, buffer, overflowAt) /\ f > task.at
                           /\ \A s \in Symbols : (f - 1) \div Minute \in store.live[s]
    BY <2>2 DEF Fronted
  <2> QED
    BY <2>1, <2>3, <2>4 DEF Fronted
<1> QED
  BY <1>1, <1>2

\* The parts of a step that the small conjuncts need.
LEMMA LiveGrows ==
  ASSUME Shape, [Next]_vars
  PROVE  \A s \in Symbols : store.live[s] \subseteq store'.live[s]
<1>0. store \in StoreSet /\ now \in Clock
  BY StoreIs DEF Shape, Typed
<1>1. CASE TickUnseen \/ TickBuffered \/ OverflowReplay \/ Freeze \/ Kill \/ UNCHANGED vars
  BY <1>1 DEF TickUnseen, TickBuffered, OverflowReplay, Freeze, Kill, vars
<1>2. CASE TickLive
  BY <1>2, LiveIs DEF LiveStep, Followed, Marks
<1>3. CASE SocketLost \/ Hide \/ Leave
  <2>1. Gapping(store, store', now)
    BY <1>0, <1>3, MarkGapIs DEF SocketLost, Hide, Leave
  <2> QED
    BY <2>1 DEF Gapping
<1>4. CASE SocketOpens \/ Show
  BY <1>4, OpensIs DEF OpensAwake, Awake
<1>5. CASE FetchReturns
  BY <1>5, FetchIs DEF FetchStep, Fetches
<1>6. CASE ChartsReturn
  <2>1. PICK x : /\ Followed(store, quote, buffer, now, ids, Len(buffer), x)
                 /\ IF overflowAt = Never THEN store' = x.st ELSE Reopens(x.st, store')
    BY <1>6, ChartsIs DEF ChartsStep
  <2>2. store'.live = x.st.live
    BY <2>1, ReopenedIs DEF Reopened
  <2> QED
    BY <2>1, <2>2 DEF Followed, Marks
<1>7. CASE Start
  BY <1>7, StartBase DEF Based
<1>8. CASE Commands
  BY <1>8, UserIs DEF UserStep, Recamped, Frame
<1> QED
  BY <1>1, <1>2, <1>3, <1>4, <1>5, <1>6, <1>7, <1>8, NextCases

\* The task after a step.
LEMMA TaskNext ==
  ASSUME Shape, [Next]_vars
  PROVE  \/ task' \in {task, Gapped}
         \/ task' = Idle
         \/ FetchReturns
         \/ /\ ~Recovering /\ task' = catchUp(store) /\ Begins(store, task')
            /\ store'.camp = store.camp
<1>1. store \in StoreSet /\ now \in Clock
  BY StoreIs DEF Shape, Typed
<1>2. ASSUME task' = catchUp(store)
      PROVE  task' = task \/ (~Recovering /\ Begins(store, task'))
  BY <1>1, <1>2, CatchUpIs
<1>3. \/ task' \in {task, Gapped, Idle}
      \/ task' = catchUp(store) /\ store'.camp = store.camp
      \/ FetchReturns
  <2>1. CASE Start
    BY <2>1, StartBase
  <2>2. CASE Commands
    BY <2>2, UserIs DEF UserStep, Quiet
  <2>3. CASE SocketOpens \/ Show
    <3>1. store'.camp = store.camp
      BY <2>3, OpensIs DEF OpensAwake, Awake, SameBooks
    <3> QED
      BY <2>3, <3>1 DEF SocketOpens, Show
  <2> QED
    BY <2>1, <2>2, <2>3, NextCases
    DEF TickUnseen, TickLive, TickBuffered, SocketLost, ChartsReturn,
        OverflowReplay, Hide, Freeze, Leave, Kill, Volatile, vars
<1> QED
  BY <1>2, <1>3

\* Fronted is kept.
LEMMA NextFronted == ASSUME Shape, Watched, Fronted, [Next]_vars PROVE Fronted'
<1>1. CASE TickBuffered
  BY <1>1, FrontedBuffered
<1>2. CASE ~TickBuffered
  <2>1. \/ buffer' = buffer /\ overflowAt' = overflowAt
        \/ buffer' = <<>> /\ overflowAt' = Never
    <3>1. CASE Commands
      BY <3>1, UserIs DEF UserStep, Quiet
    <3>2. CASE ~Commands
      BY <1>2, <3>2, NextCases, ChartsRest, FetchRest
      DEF TickUnseen, TickLive, SocketLost, SocketOpens,
          OverflowReplay, Start, Hide, Freeze, Show, Leave, Kill, Volatile, vars
    <3> QED
      BY <3>1, <3>2
  <2>2. task'.at = task.at \/ ~Recovering \/ task' = Idle
    BY TaskNext, GappedIs, FetchRest DEF Shape
  <2>3. task' = Idle => buffer' = <<>> /\ overflowAt' = Never
    BY NextShape, IdleIs DEF Shape, Paged, Recovering
  <2> QED
    BY <2>1, <2>2, <2>3, LiveGrows, FrontedKept
<1> QED
  BY <1>1, <1>2

\* A campaign after a step is new, or one that was there.
LEMMA CampNext ==
  ASSUME Shape, [Next]_vars, NEW s \in Symbols, Active(store'.camp[s])
  PROVE  \/ store'.camp[s].createdAt = now
         \/ Active(store.camp[s]) /\ store'.camp[s].createdAt = store.camp[s].createdAt
<1>0. store \in StoreSet /\ now \in Clock
  BY StoreIs DEF Shape, Typed
<1>1. CASE TickUnseen \/ TickBuffered \/ OverflowReplay \/ Freeze \/ Kill \/ UNCHANGED vars
  BY <1>1 DEF TickUnseen, TickBuffered, OverflowReplay, Freeze, Kill, vars
<1>2. CASE TickLive
  BY <1>2, LiveIs DEF LiveStep, Followed, Follows, Heirs
<1>3. CASE SocketLost \/ Hide \/ Leave
  <2>1. Gapping(store, store', now)
    BY <1>0, <1>3, MarkGapIs DEF SocketLost, Hide, Leave
  <2> QED
    BY <2>1 DEF Gapping, SameBooks
<1>4. CASE SocketOpens \/ Show
  BY <1>4, OpensIs DEF OpensAwake, Awake, SameBooks
<1>5. CASE FetchReturns
  <2>1. PICK r, a, syms, good : FetchStep(r, a, syms, good)
    BY <1>5, FetchIs
  <2>2. Heirs(store, r.st) /\ store'.camp = r.st.camp
    BY <2>1 DEF FetchStep, Fetches, SameBooks, ReplayInv, Follows
  <2> QED
    BY <2>2 DEF Heirs
<1>6. CASE ChartsReturn
  <2>1. PICK x : /\ Followed(store, quote, buffer, now, ids, Len(buffer), x)
                 /\ IF overflowAt = Never THEN store' = x.st ELSE Reopens(x.st, store')
    BY <1>6, ChartsIs DEF ChartsStep
  <2>2. Heirs(store, x.st) /\ store'.camp = x.st.camp
    BY <2>1, ReopenedIs DEF Reopened, SameBooks, Followed, Follows
  <2> QED
    BY <2>2 DEF Heirs
<1>7. CASE Start
  BY <1>7, StartBase DEF Based, SameBooks
<1>8. CASE Commands
  <2>1. Recamped
    BY <1>8, UserIs DEF UserStep
  <2>2. \/ store'.camp[s] = store.camp[s]
        \/ store'.camp[s].createdAt = now
        \/ Active(store.camp[s]) /\ store'.camp[s].createdAt = store.camp[s].createdAt
    BY <2>1 DEF Recamped
  <2> QED
    BY <2>2
<1> QED
  BY <1>1, <1>2, <1>3, <1>4, <1>5, <1>6, <1>7, <1>8, NextCases

\* Fresh is kept.
LEMMA NextFresh == ASSUME Shape, Fresh, [Next]_vars PROVE Fresh'
<1> SUFFICES ASSUME NEW s \in Symbols, task'.phase = "fetch", task'.after[s] = Skip,
                    Active(store'.camp[s])
             PROVE  store'.camp[s].createdAt >= task'.at
  BY DEF Fresh
<1>1. CASE task' \in {task, Gapped}
  <2>1. task.phase = "fetch" /\ task'.after = task.after /\ task'.at = task.at
    BY <1>1, GappedIs DEF Shape
  <2>2. task.at <= now /\ task.at \in Int /\ now \in Int
    BY <2>1, NumbersAre DEF Shape, Paged, Recovering
  <2>3. Active(store.camp[s]) => store.camp[s].createdAt >= task.at
    BY <2>1 DEF Fresh
  <2> QED
    BY <2>1, <2>2, <2>3, CampNext
<1>2. CASE task' = Idle
  BY <1>2, IdleIs
<1>3. CASE FetchReturns
  BY <1>3, FetchRest
<1>4. CASE Begins(store, task') /\ store'.camp = store.camp
  <2>1. Starts(store, s, now, task'.after[s])
    BY <1>4 DEF Begins
  <2>2. store.rec[s] \in Times
    BY StoreIs DEF Shape, Typed
  <2>3. store.rec[s] \in Int /\ store.rec[s] >= -1
    BY <2>2, PaperTradingAssumption DEF Times, Never
  <2>4. task'.after[s] >= store.rec[s] + 1
    BY <2>1 DEF Starts
  <2> QED
    BY <2>3, <2>4 DEF Skip
<1> QED
  BY <1>1, <1>2, <1>3, <1>4, TaskNext

\* Attended is kept.
LEMMA NextAttended == ASSUME Shape, Attended, [Next]_vars PROVE Attended'
<1> SUFFICES ASSUME Waiting', ~task'.gapped, Symbols \ store'.slipped # {}
             PROVE  ws' = "open" \/ page' = "frozen"
  BY DEF Attended
<1>0. store \in StoreSet /\ now \in Clock
  BY StoreIs DEF Shape, Typed
<1>1. CASE TickBuffered \/ SocketOpens \/ Freeze
  BY <1>1 DEF TickBuffered, SocketOpens, Freeze
<1>2. CASE Leave \/ Kill \/ ChartsReturn
  BY <1>2, ChartsRest DEF Leave, Kill, Volatile, Waiting
<1>3. CASE SocketLost \/ Hide
  <2>1. task'.gapped = Recovering /\ Waiting
    BY <1>3, GappedIs DEF SocketLost, Hide, Waiting, Shape
  <2> QED
    BY <2>1, WaitingIs DEF Recovering
<1>4. CASE Show
  <2>1. Waiting
    BY <1>4 DEF Show, Waiting
  <2>2. Recovering
    BY <2>1, WaitingIs DEF Recovering
  <2>3. task' = task
    BY <1>0, <1>4, <2>2, CatchUpIs DEF Show
  <2>4. store'.slipped = Symbols
    BY <1>4, <2>2, <2>3, OpensIs DEF OpensAwake, Awake
  <2> QED
    BY <2>4
<1>5. CASE TickUnseen \/ TickLive \/ FetchReturns \/ OverflowReplay \/ Start \/ Commands
           \/ UNCHANGED vars
  <2>1. /\ buffer' = buffer /\ overflowAt' = overflowAt /\ ws' = ws
        /\ page' = page \/ page = "down"
    BY <1>5, FetchRest, UserIs
    DEF TickUnseen, TickLive, OverflowReplay, Start, UserStep, Quiet, vars
  <2>2. Waiting
    BY <2>1 DEF Waiting
  <2>3. Recovering /\ page # "down"
    BY <2>2, WaitingIs DEF Recovering, Shape, Paged
  <2>4. task'.gapped = task.gapped
    <3>1. CASE OverflowReplay
      BY <1>0, <2>3, <3>1, CatchUpIs DEF OverflowReplay
    <3>2. CASE FetchReturns
      BY <3>2, FetchRest
    <3> QED
      BY <1>5, <2>3, <3>1, <3>2, UserIs DEF TickUnseen, TickLive, Start, UserStep, Quiet, vars
  <2>5. store.slipped \subseteq store'.slipped
    <3>1. CASE FetchReturns
      BY <3>1, FetchIs DEF FetchStep, Fetches
    <3>2. CASE TickLive
      BY <3>2, LiveIs DEF LiveStep, Followed, Marks
    <3>3. CASE Commands
      BY <3>3, UserIs DEF UserStep, Recamped, Frame
    <3> QED
      BY <1>5, <2>3, <3>1, <3>2, <3>3 DEF TickUnseen, OverflowReplay, Start, vars
  <2> QED
    BY <2>1, <2>2, <2>3, <2>4, <2>5 DEF Attended
<1> QED
  BY <1>1, <1>2, <1>3, <1>4, <1>5, NextCases

\* Watched is kept.
LEMMA NextWatched == ASSUME Shape, Watched, [Next]_vars PROVE Watched'
<1> SUFFICES ASSUME Running', ws' = "open", NEW s \in Symbols
             PROVE  \/ now' \div Minute \in store'.live[s]
                    \/ \E i \in 1..Len(buffer') :
                         buffer'[i][2] = s /\ buffer'[i][1] \div Minute = now' \div Minute
  BY DEF Watched, InBuffer
<1>0. store \in StoreSet /\ now \in Clock
  BY StoreIs DEF Shape, Typed
<1>1. CASE TickUnseen \/ Freeze \/ Start \/ Leave \/ Kill \/ SocketLost
  BY <1>1 DEF TickUnseen, Freeze, Start, Leave, Kill, Volatile, SocketLost, Running, Shape, Paged
<1>2. CASE TickLive
  <2>1. /\ Marks(store, store', Moments, now', NSymbols) /\ now' \in Clock
    BY <1>2, LiveIs, NowNext DEF LiveStep, Followed, TickLive, Shape, Typed
  <2>2. s \in 1..NSymbols /\ Moments[s] = <<now', s>>
    BY <2>1, MomentsIs DEF Symbols
  <2>3. Moments[s][1] \div Minute \in store'.live[Moments[s][2]]
    BY <2>1, <2>2 DEF Marks
  <2> QED
    BY <2>2, <2>3
<1>3. CASE TickBuffered
  <2>1. PICK f \in Int : FrontAt(Base, f)
    BY <1>3, FrontExists
  <2>2. PICK r : Buffering(f, r)
    BY <1>3, <2>1, FillsIs
  <2>3. PICK i \in 1..Len(buffer') : buffer'[i] = <<now', s>>
    BY <1>3, <2>2, BufferKeeps
  <2>4. buffer'[i][2] = s /\ buffer'[i][1] = now'
    BY <2>3
  <2> QED
    BY <2>4
<1>4. CASE SocketOpens \/ Show
  <2>1. store'.live[s] = store.live[s] \cup {now \div Minute} /\ now' = now
    BY <1>4, OpensIs DEF OpensAwake, Awake, SocketOpens, Show, env
  <2> QED
    BY <2>1
<1>5. CASE FetchReturns \/ OverflowReplay \/ Hide \/ Commands \/ UNCHANGED vars
  <2>1. /\ now' = now /\ buffer' = buffer /\ ws' = ws /\ Running
    <3>1. CASE Commands
      BY <3>1, UserIs DEF UserStep, Quiet, env, Running
    <3> QED
      BY <1>5, <3>1, FetchRest DEF OverflowReplay, Hide, vars, env, Running
  <2>2. store.live[s] \subseteq store'.live[s]
    BY LiveGrows
  <2> QED
    BY <2>1, <2>2 DEF Watched, InBuffer
<1>6. CASE ChartsReturn
  <2>1. PICK x : /\ Followed(store, quote, buffer, now, ids, Len(buffer), x)
                 /\ IF overflowAt = Never THEN store' = x.st ELSE Reopens(x.st, store')
    BY <1>6, ChartsIs DEF ChartsStep
  <2>2. store'.live = x.st.live
    BY <2>1, ReopenedIs DEF Reopened
  <2>3. \A i \in 1..Len(buffer) : buffer[i][1] \div Minute \in store'.live[buffer[i][2]]
    BY <2>1, <2>2 DEF Followed, Marks
  <2>4. now' = now /\ ws = "open" /\ Running /\ store.live[s] \subseteq store'.live[s]
    BY <1>6, ChartsRest, LiveGrows DEF Running
  <2>5. now \div Minute \in store.live[s] \/ InBuffer(s, now \div Minute)
    BY <2>4 DEF Watched
  <2> QED
    BY <2>3, <2>4, <2>5 DEF InBuffer
<1> QED
  BY <1>1, <1>2, <1>3, <1>4, <1>5, <1>6, NextCases

\* A minute that is missed after a step of the page, and not of the clock, was
\* missed and due before it.
LEMMA MissedSame ==
  ASSUME Shape, Dues, [Next]_vars, NEW s \in Symbols, NEW m \in Minutes, Missed(s, m)',
         now' = now, store'.since = store.since, store.replayed[s] \subseteq store'.replayed[s],
         store.slipped \subseteq store'.slipped, s \notin store'.slipped
  PROVE  Missed(s, m) /\ Due(s, m)
<1>1. /\ Active(store'.camp[s]) /\ store.since # Never
      /\ OpenOf(m) <= now /\ OpenOf(m) > store'.camp[s].createdAt /\ OpenOf(m) > store.since
      /\ m \notin store'.live[s] /\ m \notin store'.replayed[s]
  BY DEF Missed
<1>2. store.live[s] \subseteq store'.live[s]
  BY LiveGrows
<1>3. ~(store'.camp[s].createdAt = now)
  BY <1>1, NumbersAre, MinuteIs
<1>4. Active(store.camp[s]) /\ store'.camp[s].createdAt = store.camp[s].createdAt
  BY <1>1, <1>3, CampNext
<1>5. Missed(s, m)
  BY <1>1, <1>2, <1>4 DEF Missed
<1> QED
  BY <1>5 DEF Dues

\* A minute that is over is asked for by a replay that begins now.
LEMMA OverIs ==
  ASSUME Shape, NEW m \in Minutes, OpenOf(m) <= now, CloseOf(m) > LastClosed(now)
  PROVE  m = now \div Minute /\ CloseOf(m) >= now
<1>1. now \in Clock /\ now \in Int /\ m \in Nat /\ CloseOf(m) \in Int /\ LastClosed(now) \in Int
  BY MinuteIs, LastClosedIs, TimesIs DEF Shape, Typed
<1>2. CloseOf(m) < now /\ ~(m = now \div Minute) => CloseOf(m) <= LastClosed(now)
  BY <1>1, LastClosedIs
<1>3. (now \div Minute = m) <=> (OpenOf(m) <= now /\ now <= CloseOf(m))
  BY <1>1, MinuteIs
<1> QED
  BY <1>1, <1>2, <1>3

\* A replay that begins.
LEMMA BegunDue ==
  ASSUME Shape, NEW s \in Symbols, NEW m \in Minutes, Missed(s, m), Due(s, m),
         Begins(store, task'), now' = now,
         store'.rec[s] = store.rec[s], store'.gap = store.gap, store'.at[s] = store.at[s],
         ws' = "open" => CloseOf(m) <= LastClosed(now) \/ InHand(s, m)'
  PROVE  Due(s, m)'
<1>1. /\ task'.phase = "fetch" /\ task'.end = LastClosed(now) /\ ~task'.gapped
      /\ Starts(store, s, now, task'.after[s])
  BY DEF Begins, Missed
<1>2. task'.after[s] < CloseOf(m)
  BY <1>1, StartBefore
<1>3. CloseOf(m) > LastClosed(now) => store.at[s] < CloseOf(m)
  <2>1. OpenOf(m) <= now
    BY DEF Missed
  <2>2. CloseOf(m) > LastClosed(now) => CloseOf(m) >= now
    BY <2>1, OverIs
  <2> QED
    BY <2>2 DEF Due
<1>4. CloseOf(m) <= LastClosed(now) => ~(CloseOf(m) > LastClosed(now))
  <2>1. CloseOf(m) \in Int /\ LastClosed(now) \in Int
    BY MinuteIs, LastClosedIs DEF Shape, Typed
  <2> QED
    BY <2>1
<1>5. /\ store.rec[s] < CloseOf(m)
      /\ IF store.gap = Never THEN store.at[s] < CloseOf(m) ELSE store.gap < CloseOf(m)
      /\ CloseOf(m) >= now => store.at[s] < CloseOf(m)
  BY DEF Due
<1> QED
  BY <1>1, <1>2, <1>3, <1>4, <1>5 DEF Due

\* A minute that has just begun is later than anything the page knows.
LEMMA NewMinute ==
  ASSUME Shape, NEW s \in Symbols, NEW m \in Minutes, now' = now + 1, OpenOf(m) <= now',
         ~(OpenOf(m) <= now)
  PROVE  /\ OpenOf(m) = now' /\ CloseOf(m) > now'
         /\ store.rec[s] < CloseOf(m) /\ store.gap < CloseOf(m) /\ store.at[s] < CloseOf(m)
         /\ task.phase = "fetch" => task.after[s] < CloseOf(m)
<1>1. /\ now \in Int /\ OpenOf(m) \in Int /\ CloseOf(m) \in Int /\ CloseOf(m) > OpenOf(m)
      /\ store.rec[s] \in Int /\ store.gap \in Int /\ store.at[s] \in Int
      /\ store.gap <= now /\ store.at[s] <= now /\ store.rec[s] <= now
      /\ task.after[s] \in Int /\ task.at \in Int
  BY NumbersAre, MinuteIs
<1>2. task.phase = "fetch" => task.after[s] <= task.at + 1 /\ task.at <= now
  BY DEF Shape, Cursors, Paged, Recovering
<1> QED
  BY <1>1, <1>2

\* A tick that changes nothing but the clock makes no earlier minute missed.
LEMMA MissedTick ==
  ASSUME Shape, Dues, NEW s \in Symbols, NEW m \in Minutes, Missed(s, m)', now' = now + 1,
         store' = store, s \notin store'.slipped, OpenOf(m) <= now
  PROVE  Missed(s, m) /\ Due(s, m) /\ (CloseOf(m) >= now' => CloseOf(m) >= now)
<1>2. now \in Int /\ CloseOf(m) \in Int /\ MaxRecovery \in Int
  BY NumbersAre, MinuteIs, PaperTradingAssumption
<1>1. Missed(s, m)
  BY <1>2 DEF Missed
<1> QED
  BY <1>1, <1>2 DEF Dues

\* A tick that nobody sees: the page has a gap, or its cursors are behind.
LEMMA UnseenDues ==
  ASSUME Shape, Coverage, TickUnseen, NEW s \in Symbols, NEW m \in Minutes,
         s \notin store'.slipped, Missed(s, m)'
  PROVE  Due(s, m)'
<1>1. /\ store' = store /\ task' = task /\ page' = page /\ ws' = ws /\ buffer' = buffer
      /\ overflowAt' = overflowAt /\ now' = now + 1 /\ (~Running \/ ws # "open") /\ now \in Int
  BY NowNext, NumbersAre DEF TickUnseen, Shape, Typed
<1>2. OpenOf(m) <= now'
  BY DEF Missed
<1>3. CASE OpenOf(m) <= now
  <2>1. Due(s, m) /\ (CloseOf(m) >= now' => CloseOf(m) >= now)
    BY <1>1, <1>3, MissedTick DEF Coverage
  <2> QED
    BY <1>1, <2>1 DEF Due, InHand, InBuffer, Running
<1>4. CASE ~(OpenOf(m) <= now)
  <2>1. /\ store.rec[s] < CloseOf(m) /\ store.gap < CloseOf(m) /\ store.at[s] < CloseOf(m)
        /\ task.phase = "fetch" => task.after[s] < CloseOf(m)
    BY <1>1, <1>2, <1>4, NewMinute
  <2>2. task.phase # "idle" /\ ws = "open" => store.gap # Never /\ page # "shown"
    BY <1>1 DEF Running, Shape, Paged, Typed, Recovering
  <2> QED
    BY <1>1, <2>1, <2>2 DEF Due, Running
<1> QED
  BY <1>3, <1>4

\* A tick whose quotes are processed: the minute under way is seen.
LEMMA LiveDues ==
  ASSUME Shape, Coverage, TickLive, NEW s \in Symbols, NEW m \in Minutes,
         s \notin store'.slipped, Missed(s, m)'
  PROVE  Due(s, m)'
<1>1. /\ now' = now + 1 /\ now' \in Clock /\ Running /\ ws = "open" /\ ~Recovering
      /\ page' = page /\ ws' = ws /\ task' = task /\ now \in Int /\ [Next]_vars
  BY NowNext, NumbersAre DEF TickLive, Shape, Typed, Next
<1>2. /\ store'.rec = store.rec /\ store'.gap = store.gap /\ store'.since = store.since
      /\ store'.replayed = store.replayed /\ store'.slipped = store.slipped
      /\ store.live[s] \subseteq store'.live[s]
      /\ now' \div Minute \in store'.live[s]
  <2>1. Marks(store, store', Moments, now', NSymbols)
    BY <1>1, LiveIs DEF LiveStep, Followed
  <2>2. s \in 1..NSymbols /\ Moments[s] = <<now', s>>
    BY <1>1, MomentsIs
  <2>3. Moments[s][1] \div Minute \in store'.live[Moments[s][2]]
    BY <2>1, <2>2 DEF Marks
  <2>4. /\ store'.rec = store.rec /\ store'.gap = store.gap /\ store'.since = store.since
        /\ store'.replayed = store.replayed /\ store'.slipped = store.slipped
        /\ store.live[s] \subseteq store'.live[s]
    BY <2>1 DEF Marks
  <2> QED
    BY <2>2, <2>3, <2>4
<1>3. /\ Active(store'.camp[s]) /\ store.since # Never
      /\ OpenOf(m) <= now' /\ OpenOf(m) > store'.camp[s].createdAt /\ OpenOf(m) > store.since
      /\ m \notin store'.live[s] /\ m \notin store'.replayed[s]
      /\ CloseOf(m) > now' - MaxRecovery
  BY <1>2 DEF Missed
<1>4. OpenOf(m) <= now /\ CloseOf(m) < now'
  <2>1. ~(now' \div Minute = m)
    BY <1>2, <1>3
  <2> QED
    BY <1>1, <1>3, <2>1, MinuteIs
<1>5. ~(store'.camp[s].createdAt = now)
  BY <1>1, <1>3, <1>4, MinuteIs
<1>a. CloseOf(m) > now - MaxRecovery
  <2>1. MaxRecovery \in Int /\ CloseOf(m) \in Int
    BY MinuteIs, PaperTradingAssumption
  <2> QED
    BY <1>1, <1>3, <2>1
<1>6. Missed(s, m)
  BY <1>1, <1>2, <1>3, <1>4, <1>5, <1>a, CampNext DEF Missed
<1>7. Due(s, m)
  BY <1>2, <1>6 DEF Coverage, Dues
<1>8. store.gap # Never /\ store.gap < CloseOf(m) /\ store.rec[s] < CloseOf(m)
  BY <1>1, <1>7 DEF Due, Recovering
<1>9. ~(CloseOf(m) >= now')
  BY <1>1, <1>4, MinuteIs
<1> QED
  BY <1>1, <1>2, <1>8, <1>9 DEF Due, Recovering

\* What is in hand of a minute stays in hand when a quote waits.
LEMMA HandKept ==
  ASSUME Shape, TickBuffered, NEW s \in Symbols, NEW m \in Minutes, InHand(s, m)
  PROVE  InHand(s, m)'
<1>1. PICK f \in Int : FrontAt(Base, f)
  BY FrontExists
<1>2. PICK r : Buffering(f, r)
  BY <1>1, FillsIs
<1>3. /\ overflowAt' = Never =>
           /\ overflowAt = Never
           /\ \A i \in 1..Len(buffer) : \E j \in 1..Len(buffer') : buffer'[j] = buffer[i]
      /\ overflowAt' # Never => overflowAt' = f
  BY <1>2, BufferKeeps
<1>4. CASE overflowAt' = Never
  <2>1. InBuffer(s, m)
    BY <1>3, <1>4 DEF InHand
  <2>2. InBuffer(s, m)'
    BY <1>3, <1>4, <2>1 DEF InBuffer
  <2> QED
    BY <2>2 DEF InHand
<1>5. CASE overflowAt' # Never
  <2>1. f <= CloseOf(m)
    <3>1. CASE overflowAt # Never /\ overflowAt <= CloseOf(m)
      BY <1>1, <3>1, FrontIs DEF FrontAt
    <3>2. CASE InBuffer(s, m)
      <4>1. PICK i \in 1..Len(buffer) : buffer[i][2] = s /\ buffer[i][1] \div Minute = m
        BY <3>2 DEF InBuffer
      <4>2. f <= buffer[i][1]
        BY <1>1, FrontIs DEF FrontAt
      <4>3. buffer[i][1] \in Clock /\ buffer[i][1] \in Int /\ CloseOf(m) \in Int
        <5>1. buffer[i] \in Clock \X Symbols
          BY DEF Shape, Typed, MomentSet
        <5> QED
          BY <5>1, TimesIs, MinuteIs
      <4>4. buffer[i][1] <= CloseOf(m)
        BY <4>1, <4>3, MinuteIs
      <4> QED
        BY <4>2, <4>3, <4>4
    <3> QED
      BY <3>1, <3>2 DEF InHand
  <2> QED
    BY <1>3, <1>5, <2>1 DEF InHand
<1> QED
  BY <1>4, <1>5

\* A tick whose quotes wait: the minute under way is in hand.
LEMMA BufferedDues ==
  ASSUME Shape, Coverage, TickBuffered, NEW s \in Symbols, NEW m \in Minutes,
         s \notin store'.slipped, Missed(s, m)'
  PROVE  Due(s, m)'
<1>1. /\ store' = store /\ task' = task /\ page' = page /\ ws' = ws
      /\ now' = now + 1 /\ now' \in Clock /\ Recovering /\ now \in Int
  BY NowNext, NumbersAre DEF TickBuffered, Shape, Typed
<1>2. OpenOf(m) <= now'
  BY DEF Missed
<1>3. CASE OpenOf(m) <= now
  <2>1. Due(s, m) /\ (CloseOf(m) >= now' => CloseOf(m) >= now)
    BY <1>1, <1>3, MissedTick DEF Coverage
  <2>2. InHand(s, m) => InHand(s, m)'
    BY HandKept
  <2> QED
    BY <1>1, <2>1, <2>2 DEF Due, Running, Recovering
<1>4. CASE ~(OpenOf(m) <= now)
  <2>1. /\ OpenOf(m) = now' /\ CloseOf(m) > now'
        /\ store.rec[s] < CloseOf(m) /\ store.gap < CloseOf(m) /\ store.at[s] < CloseOf(m)
        /\ task.phase = "fetch" => task.after[s] < CloseOf(m)
    BY <1>1, <1>2, <1>4, NewMinute
  <2>2. InHand(s, m)'
    <3>1. PICK f \in Int : FrontAt(Base, f)
      BY FrontExists
    <3>2. PICK r : Buffering(f, r)
      BY <3>1, FillsIs
    <3>3. PICK i \in 1..Len(buffer') : buffer'[i] = <<now', s>>
      BY <3>2, BufferKeeps
    <3>4. buffer'[i][2] = s /\ buffer'[i][1] = now'
      BY <3>3
    <3>5. now' \div Minute = m
      <4>1. OpenOf(m) <= now' /\ now' <= CloseOf(m)
        BY <1>1, <2>1, MinuteIs
      <4> QED
        BY <1>1, <4>1, MinuteIs
    <3>6. InBuffer(s, m)'
      BY <3>4, <3>5 DEF InBuffer
    <3> QED
      BY <3>6 DEF InHand
  <2> QED
    BY <1>1, <2>1, <2>2 DEF Due, Recovering
<1> QED
  BY <1>3, <1>4

\* A gap that begins.
LEMMA LostDues ==
  ASSUME Shape, Coverage, SocketLost \/ Hide \/ Leave, NEW s \in Symbols, NEW m \in Minutes,
         s \notin store'.slipped, Missed(s, m)'
  PROVE  Due(s, m)'
<1>1. Gapping(store, store', now)
  <2>1. store \in StoreSet /\ now \in Clock
    BY StoreIs DEF Shape, Typed
  <2> QED
    BY <2>1, MarkGapIs DEF SocketLost, Hide, Leave
<1>2. now' = now /\ (task' = Gapped \/ task' = Idle) /\ [Next]_vars
  BY DEF SocketLost, Hide, Leave, Volatile, env, Next
<1>3. /\ store'.at = store.at /\ store'.rec = store.rec /\ store'.since = store.since
      /\ store'.replayed = store.replayed /\ store'.slipped = store.slipped
      /\ store'.gap # Never /\ store'.gap \in Int
      /\ store.gap # Never => store'.gap <= store.gap
      /\ s \in ActiveSymbols(store) /\ store.at[s] # Never => store'.gap <= store.at[s]
  BY <1>1, TimesIs DEF Gapping, SameCursors
<1>4. Missed(s, m) /\ Due(s, m)
  BY <1>2, <1>3, MissedSame DEF Coverage
<1>5. store.at[s] # Never /\ s \in ActiveSymbols(store)
  BY <1>4, NumbersAre DEF Missed, ActiveSymbols
<1>6. store'.gap < CloseOf(m)
  <2>1. IF store.gap = Never THEN store.at[s] < CloseOf(m) ELSE store.gap < CloseOf(m)
    BY <1>4 DEF Due
  <2> QED
    BY <1>3, <1>5, <2>1, NumbersAre, MinuteIs
<1>7. /\ task'.phase # "idle" => /\ task'.phase = task.phase /\ task'.end = task.end
                                 /\ task'.after = task.after /\ task'.gapped
  BY <1>2, GappedIs, IdleIs DEF Shape, Recovering
<1>8. task'.phase = "fetch" => task'.phase # "idle"
  OBVIOUS
<1> QED
  BY <1>2, <1>3, <1>4, <1>6, <1>7, <1>8 DEF Due

\* The page is connected or shown again.
LEMMA AwakeDues ==
  ASSUME Shape, Coverage, SocketOpens \/ Show, NEW s \in Symbols, NEW m \in Minutes,
         s \notin store'.slipped, Missed(s, m)'
  PROVE  Due(s, m)'
<1>1. PICK slips \in BOOLEAN, follows \in BOOLEAN :
        /\ Awake(store, store', slips, follows)
        /\ SocketOpens => follows /\ (slips <=> Recovering /\ ~task.gapped)
        /\ Show => (follows <=> ws = "open") /\ (slips <=> Recovering /\ ~task.gapped)
  BY OpensIs DEF OpensAwake
<1>2. now' = now /\ [Next]_vars /\ store \in StoreSet /\ now \in Clock
  BY StoreIs DEF SocketOpens, Show, env, Next, Shape, Typed
<1>3. ~slips
  BY <1>1 DEF Awake
<1>4. /\ store'.at = store.at /\ store'.rec = store.rec /\ store'.since = store.since
      /\ store'.replayed = store.replayed /\ store'.slipped = store.slipped
      /\ store'.gap = store.gap
      /\ follows => now \div Minute \in store'.live[s]
  BY <1>1, <1>3 DEF Awake, SameCursors
<1>5. Missed(s, m) /\ Due(s, m)
  BY <1>2, <1>4, MissedSame DEF Coverage
<1>6. follows => CloseOf(m) <= LastClosed(now)
  <2> SUFFICES ASSUME follows PROVE CloseOf(m) <= LastClosed(now)
    OBVIOUS
  <2>1. ~(m = now \div Minute) /\ OpenOf(m) <= now
    BY <1>2, <1>4 DEF Missed
  <2>2. ~(CloseOf(m) > LastClosed(now))
    BY <2>1, OverIs
  <2>3. CloseOf(m) \in Int /\ LastClosed(now) \in Int
    BY <1>2, MinuteIs, LastClosedIs
  <2> QED
    BY <2>2, <2>3
<1>7. ASSUME ~Recovering, task' = catchUp(store), follows PROVE Due(s, m)'
  <2>1. Begins(store, task')
    BY <1>2, <1>7, CatchUpIs
  <2> QED
    BY <1>2, <1>4, <1>5, <1>6, <1>7, <2>1, BegunDue
<1>8. CASE SocketOpens
  <2>1. follows /\ (Recovering => task.gapped)
    BY <1>1, <1>3, <1>8
  <2>2. CASE Recovering
    <3>1. task' = task /\ store.gap # Never
      BY <1>2, <1>8, <2>1, <2>2, CatchUpIs DEF SocketOpens, Shape, Paged
    <3> QED
      BY <1>2, <1>4, <1>5, <2>1, <2>2, <3>1 DEF Due
  <2>3. CASE ~Recovering /\ task' = catchUp(store)
    BY <1>7, <2>1, <2>3
  <2>4. CASE ~Recovering /\ ~(task' = catchUp(store))
    <3>1. ~needsPaperRecovery(store, now)
      BY <1>8, <2>4 DEF SocketOpens
    <3>2. /\ store.gap = Never
          /\ s \in ActiveSymbols(store) => ~(store.at[s] < LastClosed(now))
      BY <3>1 DEF needsPaperRecovery
    <3>3. s \in ActiveSymbols(store)
      BY <1>5 DEF Missed, ActiveSymbols
    <3>4. store.at[s] < CloseOf(m) /\ CloseOf(m) <= LastClosed(now)
      BY <1>5, <1>6, <2>1, <3>2 DEF Due
    <3>5. store.at[s] \in Int /\ CloseOf(m) \in Int /\ LastClosed(now) \in Int
      BY <1>2, NumbersAre, MinuteIs, LastClosedIs
    <3> QED
      BY <3>2, <3>3, <3>4, <3>5
  <2> QED
    BY <2>2, <2>3, <2>4
<1>9. CASE Show
  <2>1. (Recovering => task.gapped) /\ (follows <=> ws = "open") /\ ws' = ws
    BY <1>1, <1>3, <1>9 DEF Show
  <2>2. CASE Recovering
    <3>1. task' = task /\ store.gap # Never
      BY <1>2, <1>9, <2>1, <2>2, CatchUpIs DEF Show, Shape, Paged
    <3> QED
      BY <1>2, <1>4, <1>5, <2>1, <2>2, <3>1 DEF Due
  <2>3. CASE ~Recovering /\ ws = "open"
    BY <1>7, <1>9, <2>1, <2>3 DEF Show
  <2>4. CASE ~Recovering /\ ws # "open"
    <3>1. task' = task
      BY <1>9, <2>4 DEF Show
    <3> QED
      BY <1>2, <1>4, <1>5, <2>1, <2>4, <3>1 DEF Due, Recovering
  <2> QED
    BY <2>2, <2>3, <2>4
<1> QED
  BY <1>8, <1>9

\* The replay after an overflow: the minute under way was seen or waits.
LEMMA OverflowDues ==
  ASSUME Shape, Coverage, OverflowReplay, NEW s \in Symbols, NEW m \in Minutes,
         s \notin store'.slipped, Missed(s, m)'
  PROVE  Due(s, m)'
<1>1. /\ store' = store /\ now' = now /\ ws' = ws /\ page' = page /\ buffer' = buffer
      /\ overflowAt' = overflowAt /\ task' = catchUp(store) /\ Running /\ [Next]_vars
      /\ store \in StoreSet /\ now \in Clock
  BY StoreIs DEF OverflowReplay, env, Next, Shape, Typed
<1>2. Missed(s, m) /\ Due(s, m)
  BY <1>1, MissedSame DEF Coverage
<1>3. CASE Recovering
  <2>1. task' = task
    BY <1>1, <1>3, CatchUpIs
  <2> QED
    BY <1>1, <1>2, <2>1 DEF Due, InHand, InBuffer, Running
<1>4. CASE ~Recovering
  <2>1. Begins(store, task')
    BY <1>1, <1>4, CatchUpIs
  <2>2. ASSUME ws = "open", CloseOf(m) > LastClosed(now) PROVE InHand(s, m)
    <3>1. m = now \div Minute /\ m \notin store.live[s]
      BY <1>2, <2>2, OverIs DEF Missed
    <3> QED
      BY <1>1, <2>2, <3>1 DEF Coverage, Watched, InHand
  <2>3. CloseOf(m) \in Int /\ LastClosed(now) \in Int
    BY <1>1, MinuteIs, LastClosedIs
  <2>4. InHand(s, m) => InHand(s, m)'
    BY <1>1 DEF InHand, InBuffer
  <2>5. ws' = "open" => CloseOf(m) <= LastClosed(now) \/ InHand(s, m)'
    BY <1>1, <2>2, <2>3, <2>4
  <2> QED
    BY <1>1, <1>2, <2>1, <2>5, BegunDue
<1> QED
  BY <1>3, <1>4

\* A start: what a store without cursors missed lies before its baseline.
LEMMA StartDues ==
  ASSUME Shape, Coverage, Start, NEW s \in Symbols, NEW m \in Minutes,
         s \notin store'.slipped, Missed(s, m)'
  PROVE  Due(s, m)'
<1>1. /\ now' = now /\ ws' = ws /\ ws # "open" /\ ~Recovering /\ [Next]_vars
      /\ store \in StoreSet /\ now \in Clock
  BY StoreIs DEF Start, env, Next, Shape, Typed, Paged
<1>2. CASE Based(store, store')
  <2>1. OpenOf(m) <= now /\ OpenOf(m) > now
    BY <1>1, <1>2 DEF Based, Missed
  <2> QED
    BY <2>1, NumbersAre, MinuteIs
<1>3. CASE store' = store /\ (task' = task \/ task' = catchUp(store))
  <2>1. Missed(s, m) /\ Due(s, m)
    BY <1>1, <1>3, MissedSame DEF Coverage
  <2>2. CASE task' = task
    BY <1>1, <1>3, <2>1, <2>2 DEF Due, Recovering
  <2>3. CASE task' = catchUp(store)
    <3>1. Begins(store, task')
      BY <1>1, <2>3, CatchUpIs
    <3> QED
      BY <1>1, <1>3, <2>1, <3>1, BegunDue
  <2> QED
    BY <1>3, <2>2, <2>3
<1> QED
  BY <1>2, <1>3, StartBase

\* Steps that leave the store's cursors and the replay alone.
LEMMA OtherDues ==
  ASSUME Shape, Coverage, Freeze \/ Kill \/ Commands \/ UNCHANGED vars,
         NEW s \in Symbols, NEW m \in Minutes, s \notin store'.slipped, Missed(s, m)'
  PROVE  Due(s, m)'
<1>1. CASE Freeze \/ Kill \/ UNCHANGED vars
  <2>1. store' = store /\ now' = now /\ [Next]_vars
    BY <1>1 DEF Freeze, Kill, vars, env, Next
  <2>2. Missed(s, m) /\ Due(s, m)
    BY <2>1, MissedSame DEF Coverage
  <2>3. CASE Freeze
    BY <2>1, <2>2, <2>3 DEF Freeze, Due, InHand, InBuffer, Running
  <2>4. CASE Kill
    <3>1. task'.phase = "idle" /\ page' = "down"
      BY <2>4, IdleIs DEF Kill, Volatile
    <3> QED
      BY <2>1, <2>2, <3>1 DEF Due, Running
  <2>5. CASE UNCHANGED vars
    BY <2>1, <2>2, <2>5 DEF vars, Due, InHand, InBuffer, Running
  <2> QED
    BY <1>1, <2>3, <2>4, <2>5
<1>2. CASE Commands
  <2>1. /\ now' = now /\ page' = page /\ ws' = ws /\ task' = task /\ buffer' = buffer
        /\ overflowAt' = overflowAt /\ Frame(store, store') /\ [Next]_vars
    BY <1>2, UserIs DEF UserStep, Recamped, Quiet, env, Commands, Next
  <2>2. Missed(s, m) /\ Due(s, m)
    BY <2>1, MissedSame DEF Coverage, Frame
  <2> QED
    BY <2>1, <2>2 DEF Due, InHand, InBuffer, Running, Frame
<1> QED
  BY <1>1, <1>2

\* The replay ends: what it asked for was replayed, and what it did not ask for is
\* in the buffer or still behind the cursors.
LEMMA FetchDues ==
  ASSUME Shape, Coverage, FetchReturns, NEW s \in Symbols, NEW m \in Minutes,
         s \notin store'.slipped, Missed(s, m)'
  PROVE  Due(s, m)'
<1>1. PICK r, a, syms, good : FetchStep(r, a, syms, good)
  BY FetchIs
<1>2. /\ now' = now /\ page' = page /\ ws' = ws /\ buffer' = buffer /\ overflowAt' = overflowAt
      /\ page \in {"shown", "hidden"} /\ task'.phase = "charts" /\ task.phase = "fetch"
      /\ task'.end = task.end /\ [Next]_vars
  BY FetchRest DEF Next
<1>3. /\ good \subseteq Fetched /\ syms = {u \in good : store.camp[u] # NoCampaign}
      /\ Asked(a, syms) /\ ReplayInv(store, r, a, syms, ids, NInstants)
      /\ Fetches(store', r, a, syms, good)
  BY <1>1 DEF FetchStep
<1>4. /\ store'.since = store.since /\ store.slipped \subseteq store'.slipped
      /\ store'.replayed = r.st.replayed
      /\ store.gap = Never => Fetched \ good \subseteq store'.slipped
      /\ store'.gap = IF Settled(good) THEN Never ELSE store.gap
      /\ store'.camp = r.st.camp
  BY <1>3 DEF Fetches, SameBooks
<1>5. /\ \A u \in syms : Outcomes(store, r, a, u)
      /\ task.end \in Int /\ task.end < task.at /\ task.at \in Int
      /\ r.closed[s] \in Int /\ r.last[s] \in Int
  BY <1>1, FetchFacts, NumbersAre
<1>6. store.replayed[s] \subseteq store'.replayed[s]
  <2>1. CASE s \in syms
    BY <1>4, <1>5, <2>1 DEF Outcomes
  <2>2. CASE s \notin syms
    BY <1>3, <1>4, <2>2 DEF ReplayInv, SymbolOK, Aside
  <2> QED
    BY <2>1, <2>2
<1>7. Missed(s, m) /\ Due(s, m)
  BY <1>2, <1>4, <1>6, MissedSame DEF Coverage
<1>8. /\ store.rec[s] < CloseOf(m)
      /\ IF store.gap = Never THEN store.at[s] < CloseOf(m) ELSE store.gap < CloseOf(m)
      /\ CloseOf(m) >= now => store.at[s] < CloseOf(m)
      /\ task.after[s] # Skip => task.after[s] < CloseOf(m)
      /\ CloseOf(m) > task.end => store.at[s] < CloseOf(m)
      /\ ws = "open" /\ ~task.gapped /\ page = "shown" /\ CloseOf(m) > task.end => InHand(s, m)
  BY <1>2, <1>7 DEF Due
<1>9. store'.gap = Never => ~task.gapped /\ page = "shown"
  <2>1. store.gap = Never => ~task.gapped /\ page \notin {"hidden", "frozen"}
    BY DEF Shape, Paged
  <2> QED
    BY <1>2, <1>4, <2>1 DEF Settled
<1>10. InHand(s, m)' <=> InHand(s, m)
  BY <1>2 DEF InHand, InBuffer
\* Enough, when the replay did not ask for the minute.
<1>11. ASSUME CloseOf(m) > task.end, store'.rec[s] < CloseOf(m), store'.at[s] < CloseOf(m)
       PROVE  Due(s, m)'
  <2>1. IF store'.gap = Never THEN store'.at[s] < CloseOf(m) ELSE store'.gap < CloseOf(m)
    BY <1>4, <1>8, <1>11
  <2>2. ws' = "open" /\ store'.gap = Never => InHand(s, m)'
    BY <1>2, <1>8, <1>9, <1>10, <1>11
  <2> QED
    BY <1>2, <1>11, <2>1, <2>2 DEF Due
<1>12. CASE s \in syms
  <2>1. /\ task.after[s] # Skip
        /\ store'.rec[s] \in {store.rec[s], r.closed[s]}
        /\ store'.at[s] \in {store.at[s], task.end, r.last[s]}
    BY <1>3, <1>12 DEF Fetches, Fetched
  <2>2. /\ r.closed[s] = Never \/ r.closed[s] <= task.end
        /\ r.last[s] = Never \/ r.last[s] <= task.end
        /\ a[s] \subseteq r.st.replayed[s]
    BY <1>4, <1>5, <1>12 DEF Outcomes, Missed
  <2>3. m \notin a[s]
    BY <1>4, <2>2 DEF Missed
  <2>4. CloseOf(m) > task.end
    <3>1. m \in a[s] <=> m \in Nat /\ CloseOf(m) > task.after[s] /\ CloseOf(m) <= task.end
      BY <1>3, <1>12, NeededIs
    <3> QED
      BY <1>5, <1>8, <2>1, <2>3, <3>1, NumbersAre, MinuteIs
  <2>5. CloseOf(m) \in Int /\ CloseOf(m) > Never
    BY MinuteIs DEF Never
  <2>6. store'.rec[s] < CloseOf(m)
    BY <1>5, <1>8, <2>1, <2>2, <2>4, <2>5
  <2>7. store'.at[s] < CloseOf(m)
    BY <1>5, <1>8, <2>1, <2>2, <2>4, <2>5
  <2> QED
    BY <1>11, <2>4, <2>6, <2>7
<1>13. CASE s \notin syms
  <2>1. store'.rec[s] = store.rec[s] /\ store'.at[s] = store.at[s]
    BY <1>3, <1>13 DEF Fetches
  <2>2. CASE s \notin Fetched
    <3>1. store.camp[s].createdAt >= task.at /\ OpenOf(m) > store.camp[s].createdAt
      BY <1>2, <1>7, <2>2 DEF Coverage, Fresh, Missed, Fetched
    <3>2. CloseOf(m) > task.end
      BY <1>5, <3>1, NumbersAre, MinuteIs
    <3> QED
      BY <1>8, <1>11, <2>1, <3>2
  <2>3. CASE s \in Fetched
    <3>1. Active(store.camp[s]) => store.camp[s] # NoCampaign
      BY NoneOK
    <3>2. s \notin good
      BY <1>3, <1>7, <1>13, <3>1 DEF Missed
    <3>3. store.gap # Never /\ ~Settled(good)
      BY <1>4, <2>3, <3>2 DEF Settled
    <3> QED
      BY <1>2, <1>4, <1>8, <2>1, <3>3 DEF Due
  <2> QED
    BY <2>2, <2>3
<1> QED
  BY <1>12, <1>13

\* The waiting quotes are processed: a minute that was in the buffer is seen, and
\* one that was dropped lies behind the gap that reopens.
LEMMA ChartsDues ==
  ASSUME Shape, Coverage, ChartsReturn, NEW s \in Symbols, NEW m \in Minutes,
         s \notin store'.slipped, Missed(s, m)'
  PROVE  Due(s, m)'
<1>1. PICK x : /\ Followed(store, quote, buffer, now, ids, Len(buffer), x)
               /\ IF overflowAt = Never THEN store' = x.st ELSE Reopens(x.st, store')
  BY ChartsIs DEF ChartsStep
<1>2. /\ now' = now /\ page' = page /\ ws' = ws /\ page \in {"shown", "hidden"}
      /\ task'.phase = "idle" /\ task.phase = "charts" /\ [Next]_vars
      /\ Running /\ now \in Int /\ now \in Clock
  BY ChartsRest, IdleIs, NumbersAre DEF Next, Running
<1>3. Marks(store, x.st, buffer, now, Len(buffer)) /\ Len(buffer) \in Nat
  BY <1>1, FlushFacts, WaitingIs
<1>4. overflowAt # Never => Reopened(x.st, store')
  BY <1>1, ReopenedIs
<1>5. /\ store'.live = x.st.live /\ store'.rec = store.rec /\ store'.since = store.since
      /\ store'.replayed = store.replayed /\ store'.slipped = store.slipped
      /\ store'.at = x.st.at
      /\ overflowAt = Never => store'.gap = store.gap
      /\ overflowAt # Never => /\ store'.gap # Never /\ store'.gap \in Int
                               /\ store'.gap <= overflowAt
                               /\ store.gap # Never => store'.gap <= store.gap
  BY <1>1, <1>3, <1>4, TimesIs DEF Marks, Reopened, SameCursors
<1>6. Missed(s, m) /\ Due(s, m)
  BY <1>2, <1>5, MissedSame DEF Coverage
<1>7. /\ store.rec[s] < CloseOf(m)
      /\ IF store.gap = Never THEN store.at[s] < CloseOf(m) ELSE store.gap < CloseOf(m)
      /\ CloseOf(m) >= now => store.at[s] < CloseOf(m)
      /\ ws = "open" /\ store.gap = Never => InHand(s, m)
  BY <1>2, <1>6 DEF Due
<1>8. \A i \in 1..Len(buffer) :
        /\ buffer[i][1] \in Clock /\ buffer[i][1] \in Int /\ buffer[i][1] <= now
        /\ buffer[i][2] = s => ~(buffer[i][1] \div Minute = m)
  <2> SUFFICES ASSUME NEW i \in 1..Len(buffer)
               PROVE  /\ buffer[i][1] \in Clock /\ buffer[i][1] \in Int /\ buffer[i][1] <= now
                      /\ buffer[i][2] = s => ~(buffer[i][1] \div Minute = m)
    OBVIOUS
  <2>1. buffer[i] \in Clock \X Symbols /\ buffer[i][1] <= now
    BY DEF Shape, Typed, Paged, MomentSet
  <2>2. buffer[i][1] \div Minute \in store'.live[buffer[i][2]]
    BY <1>3, <1>5 DEF Marks
  <2>3. m \notin store'.live[s]
    BY DEF Missed
  <2> QED
    BY <2>1, <2>2, <2>3, TimesIs
<1>9. ~InBuffer(s, m)
  BY <1>8 DEF InBuffer
\* A quote that waited moves the cursor only within another minute.
<1>10. CloseOf(m) >= now => store'.at[s] < CloseOf(m)
  <2> SUFFICES ASSUME CloseOf(m) >= now PROVE x.st.at[s] < CloseOf(m)
    BY <1>5
  <2>1. CASE x.st.at[s] = store.at[s]
    BY <1>7, <2>1
  <2>2. CASE \E i \in 1..Len(buffer) : buffer[i][2] = s /\ x.st.at[s] = buffer[i][1]
    <3>1. PICK i \in 1..Len(buffer) : buffer[i][2] = s /\ x.st.at[s] = buffer[i][1]
      BY <2>2
    <3>2. /\ buffer[i][1] \in Clock /\ buffer[i][1] \in Int /\ buffer[i][1] <= now
          /\ ~(buffer[i][1] \div Minute = m)
      BY <1>8, <3>1
    <3>3. ~(OpenOf(m) <= buffer[i][1] /\ buffer[i][1] <= CloseOf(m))
      BY <3>2, MinuteIs
    <3>4. OpenOf(m) \in Int /\ CloseOf(m) \in Int /\ CloseOf(m) > OpenOf(m)
      BY MinuteIs
    <3>5. buffer[i][1] < CloseOf(m)
      BY <1>2, <3>2, <3>3, <3>4
    <3> QED
      BY <3>1, <3>5
  <2> QED
    BY <1>3, <2>1, <2>2 DEF Marks
<1>11. Symbols \ store.slipped # {}
  BY <1>5
<1>12. CASE overflowAt = Never
  <2>1. store.gap = Never => ws # "open"
    BY <1>7, <1>9, <1>12 DEF InHand
  <2>2. store.gap = Never => store'.at[s] < CloseOf(m)
    <3> SUFFICES ASSUME store.gap = Never PROVE store'.at[s] < CloseOf(m)
      OBVIOUS
    <3>1. ~task.gapped
      BY DEF Shape, Paged
    <3>2. ~Waiting
      BY <1>2, <1>11, <2>1, <3>1 DEF Coverage, Attended
    <3>3. store' = store
      BY <3>2, FlushEmpty DEF Waiting
    <3> QED
      BY <1>7, <3>3
  <2>3. IF store'.gap = Never THEN store'.at[s] < CloseOf(m) ELSE store'.gap < CloseOf(m)
    BY <1>5, <1>7, <1>12, <2>2
  <2> QED
    BY <1>2, <1>5, <1>7, <1>10, <1>12, <2>1, <2>3 DEF Due
<1>13. CASE overflowAt # Never
  <2>1. overflowAt \in Int /\ overflowAt \in Clock
    BY <1>13, TimesIs DEF Shape, Typed
  <2>2. store'.gap < CloseOf(m)
    <3>1. CASE store.gap # Never
      BY <1>5, <1>7, <1>13, <3>1, NumbersAre, MinuteIs
    <3>2. CASE store.gap = Never
      <4>1. Waiting /\ ~task.gapped
        BY <1>13, <3>2 DEF Waiting, Shape, Paged
      <4>2. ws = "open"
        BY <1>2, <1>11, <4>1 DEF Coverage, Attended
      <4>3. overflowAt <= CloseOf(m)
        BY <1>7, <1>9, <3>2, <4>2 DEF InHand
      <4>4. overflowAt > task.at /\ (overflowAt - 1) \div Minute \in store.live[s]
        <5>1. PICK f \in Clock : /\ Fronts(f, buffer, overflowAt) /\ f > task.at
                                 /\ \A u \in Symbols : (f - 1) \div Minute \in store.live[u]
          BY <4>1 DEF Coverage, Fronted
        <5>2. f = overflowAt
          BY <1>13, <5>1 DEF Fronts
        <5> QED
          BY <5>1, <5>2
      <4>5. overflowAt - 1 \in Clock
        <5>1. task.at \in Nat
          BY TaskIs, TimesIs DEF Shape
        <5>2. Horizon \in Int /\ overflowAt <= Horizon
          BY <2>1, PaperTradingAssumption DEF Clock
        <5> QED
          BY <2>1, <4>4, <5>1, <5>2 DEF Clock
      <4>6. ~((overflowAt - 1) \div Minute = m)
        BY <1>6, <4>4 DEF Missed
      <4>7. ~(OpenOf(m) <= overflowAt - 1 /\ overflowAt - 1 <= CloseOf(m))
        BY <4>5, <4>6, MinuteIs
      <4>8. OpenOf(m) \in Int /\ CloseOf(m) \in Int /\ CloseOf(m) > OpenOf(m)
        BY MinuteIs
      <4> QED
        BY <1>5, <1>13, <2>1, <4>3, <4>7, <4>8
    <3> QED
      BY <3>1, <3>2
  <2> QED
    BY <1>2, <1>5, <1>7, <1>10, <1>13, <2>2 DEF Due
<1> QED
  BY <1>12, <1>13

\* No step forgets a minute.
LEMMA NextDues == ASSUME Shape, Coverage, [Next]_vars PROVE Dues'
<1> SUFFICES ASSUME NEW s \in Symbols, s \notin store'.slipped, NEW m \in Minutes, Missed(s, m)'
             PROVE  Due(s, m)'
  BY DEF Dues
<1>1. CASE TickUnseen
  BY <1>1, UnseenDues
<1>2. CASE TickLive
  BY <1>2, LiveDues
<1>3. CASE TickBuffered
  BY <1>3, BufferedDues
<1>4. CASE SocketLost \/ Hide \/ Leave
  BY <1>4, LostDues
<1>5. CASE SocketOpens \/ Show
  BY <1>5, AwakeDues
<1>6. CASE FetchReturns
  BY <1>6, FetchDues
<1>7. CASE ChartsReturn
  BY <1>7, ChartsDues
<1>8. CASE OverflowReplay
  BY <1>8, OverflowDues
<1>9. CASE Start
  BY <1>9, StartDues
<1>10. CASE Freeze \/ Kill \/ Commands \/ UNCHANGED vars
  BY <1>10, OtherDues
<1> QED
  BY <1>1, <1>2, <1>3, <1>4, <1>5, <1>6, <1>7, <1>8, <1>9, <1>10, NextCases

\* Coverage is inductive.
LEMMA NextCoverage == ASSUME Shape, Coverage, [Next]_vars PROVE Coverage'
<1>1. Dues'
  BY NextDues
<1>2. Fresh' /\ Attended' /\ Watched' /\ Fronted'
  BY NextFresh, NextAttended, NextWatched, NextFronted DEF Coverage
<1> QED
  BY <1>1, <1>2 DEF Coverage

\* It holds in the initial states, in which no minute has begun after a campaign.
LEMMA InitCoverage == ASSUME Init PROVE Coverage
<1>1. /\ now = 0 /\ page = "down" /\ task = Idle /\ buffer = <<>> /\ overflowAt = Never
  BY DEF Init
<1>2. Shape /\ Initial(store)
  BY InitShape, InitialIs
<1>3. Dues
  <2> SUFFICES ASSUME NEW s \in Symbols, NEW m \in Minutes, Missed(s, m) PROVE FALSE
    BY DEF Dues
  <2>1. OpenOf(m) <= 0 /\ OpenOf(m) > store.camp[s].createdAt
    BY <1>1 DEF Missed
  <2>2. store.camp[s].createdAt = 0
    BY <1>2 DEF Initial
  <2> QED
    BY <2>1, <2>2, MinuteIs
<1>4. ~Waiting /\ ~Running /\ task.phase = "idle"
  BY <1>1, IdleIs DEF Waiting, Running
<1> QED
  BY <1>3, <1>4 DEF Coverage, Attended, Fresh, Watched, Fronted

\* After any sequence of gaps, kills, failed answers and dropped quotes, every minute
\* that closed within the reach of a replay and that an active campaign lived through
\* was seen or is still to be replayed from what the store holds, unless its symbol
\* met one of the two known holes, store.slipped (recoverMissedPaperTrading,
\* recoveryStartForSymbol with its cap, markPaperGap and the cursors).
THEOREM GapsStayCovered == Spec => []GapsCovered
<1>1. Init => Coverage
  BY InitCoverage
<1>2. Shape /\ Coverage /\ [Next]_vars => Coverage'
  BY NextCoverage
<1>3. Shape /\ Coverage => GapsCovered
  BY CoverageSuffices
<1> QED
  BY <1>1, <1>2, <1>3, ShapeHolds, PTL DEF Spec
=============================================================================
