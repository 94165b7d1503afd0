--------------------------- MODULE LiveEngineProofs ---------------------------
(***************************************************************************)
(* Proofs about LiveEngine, for every number of levels, lot and bound: the *)
(* types, a campaign that is closed, when a buy order may be sent and SAFE *)
(* MODE may end, and that the engine implements CampaignContract.          *)
(***************************************************************************)
EXTENDS LiveEngine, TLAPS

(* Zero-filled functions and the empty records are typed.                   *)
LEMMA ConstantTypes ==
  /\ NoFills \in Fills /\ NoCampaign \in Campaigns
  /\ NoView \in Views /\ NoRegisters \in Registers
  /\ NoEntries \in [Levels -> Nat] /\ NoTargets \in [TargetLevels -> Nat]
  /\ NoDue \in [Levels -> Nat]
  /\ Fallback \in TargetLevels /\ Levels \subseteq TargetLevels /\ 1 \in Levels
BY NLevelsAssumption, LotAssumption
   DEF NoFills, Fills, NoCampaign, Campaigns, Statuses, NoView, Views, NoRegisters, Registers,
       NoEntries, NoTargets, NoDue, Levels, TargetLevels, Fallback

(* The account and the state the program starts from are typed.              *)
THEOREM TypeInit == Init => TypeOK
<1> SUFFICES ASSUME Init PROVE TypeOK
  OBVIOUS
<1>1. VenueTypeOK
  BY ConstantTypes DEF Init, VenueInit, VenueTypeOK
<1>2. EngineTypeOK
  BY ConstantTypes DEF Init, EngineTypeOK
<1>3. ControlTypeOK
  BY ConstantTypes DEF Init, ControlTypeOK, Pcs, Ops
<1> QED
  BY <1>1, <1>2, <1>3 DEF TypeOK, Init

------------------------------------------------------------------------------
(* What the helpers return                                                  *)

LEMMA ViewType == ASSUME VenueTypeOK PROVE View \in Views
BY DEF VenueTypeOK, View, Views

LEMMA MergeType == ASSUME NEW f \in Fills, NEW g \in Fills PROVE Merge(f, g) \in Fills
BY DEF Fills, Merge, Deeper

LEMMA AppliedType == ASSUME VenueTypeOK, EngineTypeOK PROVE Applied \in Campaigns
<1> DEFINE net == c.managed + unseen.bought - unseen.sold
<1>1. c \in Campaigns /\ unseen \in Fills
  BY DEF VenueTypeOK, EngineTypeOK
<1>2. net \in Int
  BY <1>1 DEF Campaigns, Fills
<1>3. (IF net > 0 THEN net ELSE 0) \in Nat
  BY <1>2
<1>4. Deeper(c.deepest, unseen.deepest) \in TargetLevels
  BY <1>1 DEF Campaigns, Fills, Deeper
<1>5. (c.had \/ unseen.bought > 0) \in BOOLEAN /\ (c.blocked \/ unseen.foreign) \in BOOLEAN
  OBVIOUS
<1> QED
  BY <1>1, <1>3, <1>4, <1>5 DEF Applied, Campaigns

LEMMA GoneType ==
  ASSUME VenueTypeOK, NEW es, NEW ts, Gone(es, ts)
  PROVE  entry' \in [Levels -> Nat] /\ target' \in [TargetLevels -> Nat]
BY DEF VenueTypeOK, Gone

LEMMA CancelType ==
  ASSUME VenueTypeOK, faults \in Nat, NEW es, NEW ts, CancelOk(es, ts) \/ CancelFail(es, ts)
  PROVE  entry' \in [Levels -> Nat] /\ target' \in [TargetLevels -> Nat] /\ faults' \in Nat
<1>1. CASE CancelOk(es, ts)
  BY <1>1, GoneType DEF CancelOk, NoFault
<1>2. CASE CancelFail(es, ts)
  BY <1>2, GoneType DEF CancelFail, Fault
<1> QED
  BY <1>1, <1>2

LEMMA SaveType ==
  ASSUME NEW x \in Campaigns, NEW m \in BOOLEAN, Save(x, m)
  PROVE  EngineTypeOK'
BY ConstantTypes DEF Save, EngineTypeOK

LEMMA EndOpType == EndOp => ControlTypeOK'
BY ConstantTypes DEF EndOp, ControlTypeOK, Pcs, Ops

LEMMA GotoType ==
  ASSUME ControlTypeOK, NEW p \in Pcs, Goto(p), regs' \in Registers
  PROVE  ControlTypeOK'
BY DEF ControlTypeOK, Goto

LEMMA ReadAccountType ==
  ASSUME VenueTypeOK, ControlTypeOK, NEW p \in Pcs, ReadAccount(p)
  PROVE  ControlTypeOK'
BY DEF VenueTypeOK, ControlTypeOK, ReadAccount, Goto, Registers

LEMMA ReadOrdersType ==
  ASSUME VenueTypeOK, ControlTypeOK, NEW p \in Pcs, ReadOrders(p)
  PROVE  ControlTypeOK'
BY ViewType DEF ControlTypeOK, ReadOrders, Goto, Registers

LEMMA SyncReturnType ==
  ASSUME ControlTypeOK, SyncReturn
  PROVE  ControlTypeOK'
<1>1. CASE EndOp
  BY <1>1, EndOpType
<1>2. CASE Goto("glob_account") /\ regs' = [NoRegisters EXCEPT !.risk = regs.risk]
  BY <1>2, ConstantTypes DEF ControlTypeOK, Goto, Registers, Pcs, GlobalPcs
<1>3. CASE pc' = "can_account" /\ op' = "canceling" /\ regs' = NoRegisters
  BY <1>3, ConstantTypes DEF ControlTypeOK, Pcs, CancelPcs, Ops
<1> QED
  BY <1>1, <1>2, <1>3 DEF SyncReturn

LEMMA SyncRaiseType ==
  ASSUME EngineTypeOK, ControlTypeOK, SyncRaise
  PROVE  EngineTypeOK' /\ ControlTypeOK'
<1>1. EngineTypeOK'
  <2>1. CASE Save(c, TRUE)
    BY <2>1, SaveType DEF EngineTypeOK
  <2>2. CASE UNCHANGED engineVars
    BY <2>2 DEF EngineTypeOK, engineVars
  <2> QED
    BY <2>1, <2>2 DEF SyncRaise
<1>2. ControlTypeOK'
  <2>1. CASE EndOp
    BY <2>1, EndOpType
  <2>2. CASE Goto("glob_account") /\ regs' = [NoRegisters EXCEPT !.risk = (op = "reconcile")]
    BY <2>2, ConstantTypes DEF ControlTypeOK, Goto, Registers, Pcs, GlobalPcs
  <2> QED
    BY <2>1, <2>2 DEF SyncRaise
<1> QED
  BY <1>1, <1>2

LEMMA EnterRecoveryType ==
  ASSUME ControlTypeOK, NEW x \in Campaigns, NEW p \in Int, NEW v \in Views,
         EnterRecovery(x, p, v)
  PROVE  EngineTypeOK' /\ ControlTypeOK'
<1>1. [x EXCEPT !.status = "recovery", !.blocked = TRUE, !.zero = 0] \in Campaigns
  BY DEF Campaigns, Statuses, ActiveStatuses
<1>2. EngineTypeOK'
  BY <1>1, SaveType DEF EnterRecovery
<1>3. ControlTypeOK'
  BY DEF EnterRecovery, ControlTypeOK, Goto, Registers, Pcs, RecoveryPcs
<1> QED
  BY <1>2, <1>3

LEMMA RecoveryReturnType == ASSUME ControlTypeOK, RecoveryReturn PROVE ControlTypeOK'
BY EndOpType, SyncReturnType DEF RecoveryReturn

(* Every unprimed step of a status keeps the campaign a campaign.           *)
LEMMA StatusType ==
  ASSUME NEW x \in Campaigns, NEW s \in Statuses
  PROVE  [x EXCEPT !.status = s] \in Campaigns
BY DEF Campaigns

------------------------------------------------------------------------------
(* One lemma per group of actions: each step keeps the types                *)

LEMMA SyncType == ASSUME TypeOK, Sync PROVE TypeOK'
<1> USE DEF TypeOK
<1>0. Applied \in Campaigns /\ View \in Views
  BY AppliedType, ViewType
<1>1. ASSUME ReadFills PROVE VenueTypeOK' /\ faults' \in Nat
  BY <1>1, ConstantTypes DEF ReadFills, VenueTypeOK
<1>2. ASSUME FillsInMemory, c' \in Campaigns PROVE EngineTypeOK'
  BY <1>2, MergeType DEF FillsInMemory, EngineTypeOK, VenueTypeOK
<1>3. CASE SyncOrders
  <2>1. ControlTypeOK'
    BY <1>3, ReadOrdersType DEF SyncOrders, Pcs, SyncPcs
  <2> QED
    BY <1>3, <2>1 DEF SyncOrders, venueVars, engineVars, VenueTypeOK, EngineTypeOK
<1>4. CASE SyncAccount
  <2>1. ControlTypeOK'
    BY <1>4, ReadAccountType DEF SyncAccount, Pcs, SyncPcs
  <2> QED
    BY <1>4, <2>1 DEF SyncAccount, venueVars, engineVars, VenueTypeOK, EngineTypeOK
<1>5. CASE SyncMismatch
  <2>1. regs.pos \in Int /\ regs.view \in Views
    BY DEF ControlTypeOK, Registers
  <2>2. EngineTypeOK' /\ ControlTypeOK'
    BY <1>0, <1>5, <2>1, EnterRecoveryType DEF SyncMismatch
  <2> QED
    BY <1>1, <1>5, <2>2 DEF SyncMismatch
<1>6. CASE SyncWhileRecovery
  <2>1. EngineTypeOK'
    BY <1>0, <1>2, <1>6 DEF SyncWhileRecovery
  <2>2. ControlTypeOK'
    BY <1>6, GotoType DEF SyncWhileRecovery, Keep, ControlTypeOK, Pcs, RecoveryPcs
  <2> QED
    BY <1>1, <1>6, <2>1, <2>2 DEF SyncWhileRecovery
<1>7. CASE SyncOpen
  <2>1. [Applied EXCEPT !.had = TRUE, !.status = "open"] \in Campaigns
    BY <1>0 DEF Campaigns, Statuses, ActiveStatuses
  <2>2. EngineTypeOK'
    BY <1>2, <1>7, <2>1 DEF SyncOpen
  <2>3. ControlTypeOK'
    BY <1>7, GotoType DEF SyncOpen, Keep, ControlTypeOK, Pcs, CoverPcs
  <2> QED
    BY <1>1, <1>7, <2>2, <2>3 DEF SyncOpen
<1>8. CASE SyncClosed
  <2>1. EngineTypeOK'
    BY <1>0, <1>2, <1>8 DEF SyncClosed
  <2>2. FinishBranch(Applied) \in Pcs
    BY DEF FinishBranch, Pcs, FinishPcs
  <2>3. ControlTypeOK'
    BY <1>8, <2>2, GotoType, ConstantTypes DEF SyncClosed
  <2> QED
    BY <1>1, <1>8, <2>1, <2>3 DEF SyncClosed
<1>9. CASE SyncWaiting
  <2>1. EngineTypeOK'
    BY <1>0, <1>9, SaveType DEF SyncWaiting, EngineTypeOK
  <2>2. ControlTypeOK'
    BY <1>9, SyncReturnType DEF SyncWaiting
  <2> QED
    BY <1>1, <1>9, <2>1, <2>2 DEF SyncWaiting
<1>10. CASE SyncReadFails
  BY <1>10, SyncRaiseType DEF SyncReadFails, Fault, venueVars, VenueTypeOK
<1> QED
  BY <1>3, <1>4, <1>5, <1>6, <1>7, <1>8, <1>9, <1>10 DEF Sync

LEMMA CoverDoneType ==
  ASSUME EngineTypeOK, ControlTypeOK, CoverDone
  PROVE  EngineTypeOK' /\ ControlTypeOK'
<1>1. (IF InRecovery THEN c ELSE [c EXCEPT !.status = "closing"]) \in Campaigns
  BY StatusType DEF EngineTypeOK, Statuses, ActiveStatuses
<1>2. EngineTypeOK'
  BY <1>1, SaveType DEF CoverDone, EngineTypeOK
<1>3. ControlTypeOK'
  BY RecoveryReturnType, SyncReturnType DEF CoverDone
<1> QED
  BY <1>2, <1>3

LEMMA CoverRaiseType ==
  ASSUME EngineTypeOK, ControlTypeOK, CoverRaise
  PROVE  EngineTypeOK' /\ ControlTypeOK'
<1>1. CASE InRecovery
  BY <1>1, SaveType, RecoveryReturnType DEF CoverRaise, EngineTypeOK
<1>2. CASE ~InRecovery
  BY <1>2, SyncRaiseType DEF CoverRaise
<1> QED
  BY <1>1, <1>2

LEMMA LostFallbackType ==
  ASSUME TypeOK, LostFallback
  PROVE  target' \in [TargetLevels -> Nat] /\ straySell' \in Nat
BY ConstantTypes DEF LostFallback, TypeOK, VenueTypeOK, ControlTypeOK, Registers

LEMMA CoverType == ASSUME TypeOK, Cover PROVE TypeOK'
<1> USE DEF TypeOK
<1>0. pos \in Int /\ regs.pos \in Int /\ Fallback \in TargetLevels
  BY ConstantTypes DEF VenueTypeOK, ControlTypeOK, Registers
<1>1. ASSUME NEW p \in {"cover_cancel", "cover_place"}, Goto(p), Keep, UNCHANGED engineVars
      PROVE  EngineTypeOK' /\ ControlTypeOK'
  <2>1. p \in Pcs
    BY DEF Pcs, CoverPcs
  <2> QED
    BY <1>1, <2>1, GotoType DEF Keep, engineVars, EngineTypeOK, ControlTypeOK
<1>2. CASE CoverDecide
  <2>1. EngineTypeOK' /\ ControlTypeOK'
    BY <1>1, <1>2, CoverDoneType DEF CoverDecide
  <2> QED
    BY <1>2, <2>1 DEF CoverDecide, venueVars, VenueTypeOK
<1>3. CASE CoverCancel
  <2>1. EngineTypeOK' /\ ControlTypeOK'
    BY <1>3, CoverDoneType, CoverRaiseType DEF CoverCancel
  <2>2. entry' \in [Levels -> Nat] /\ target' \in [TargetLevels -> Nat] /\ faults' \in Nat
    BY <1>3, CancelType DEF CoverCancel
  <2> QED
    BY <1>3, <2>1, <2>2 DEF CoverCancel, bookVars, VenueTypeOK
<1>4. CASE CoverPlace
  <2>1. EngineTypeOK' /\ ControlTypeOK'
    BY <1>4, CoverDoneType DEF CoverPlace
  <2>2. target' \in [TargetLevels -> Nat]
    BY <1>0, <1>4 DEF CoverPlace, VenueTypeOK
  <2> QED
    BY <1>4, <2>1, <2>2 DEF CoverPlace, VenueTypeOK
<1>5. CASE CoverFilled
  <2>1. EngineTypeOK' /\ ControlTypeOK'
    BY <1>5, CoverDoneType DEF CoverFilled
  <2>2. PICK m \in 1..regs.pos :
          LET sold == IF m < pos THEN m ELSE pos
          IN /\ SetPosition(pos - sold, due)
             /\ \/ unseen' = [unseen EXCEPT !.sold = @ + sold]
                \/ unseen' = [unseen EXCEPT !.foreign = TRUE]
    BY <1>5 DEF CoverFilled, Foreign
  <2> DEFINE sold == IF m < pos THEN m ELSE pos
  <2>3. sold \in Nat
    BY <1>0, <1>5 DEF CoverFilled
  <2>4. pos' \in Int /\ due' \in [Levels -> Nat]
    BY <1>0, <2>2, <2>3, ConstantTypes DEF SetPosition, VenueTypeOK
  <2>5. unseen' \in Fills
    <3>1. \/ unseen' = [unseen EXCEPT !.sold = @ + sold]
          \/ unseen' = [unseen EXCEPT !.foreign = TRUE]
      BY <2>2
    <3>2. unseen \in Fills
      BY DEF VenueTypeOK
    <3>3. [unseen EXCEPT !.foreign = TRUE] \in Fills
      BY <3>2 DEF Fills
    <3>4. unseen.sold + sold \in Nat
      BY <2>3, <3>2 DEF Fills
    <3>5. [unseen EXCEPT !.sold = @ + sold] \in Fills
      BY <3>2, <3>4 DEF Fills
    <3> QED
      BY <3>1, <3>3, <3>5
  <2>6. target' \in [TargetLevels -> Nat]
    BY <1>0, <1>5 DEF CoverFilled, VenueTypeOK
  <2> QED
    BY <1>5, <2>1, <2>4, <2>5, <2>6 DEF CoverFilled, VenueTypeOK
<1>6. CASE CoverPlaceFails
  <2>1. EngineTypeOK' /\ ControlTypeOK'
    BY <1>6, CoverRaiseType DEF CoverPlaceFails
  <2>2. target' \in [TargetLevels -> Nat] /\ straySell' \in Nat
    BY <1>6, LostFallbackType DEF CoverPlaceFails, VenueTypeOK
  <2>3. faults' \in Nat
    BY <1>6 DEF CoverPlaceFails, Fault, NoFault
  <2> QED
    BY <1>6, <2>1, <2>2, <2>3 DEF CoverPlaceFails, VenueTypeOK
<1> QED
  BY <1>2, <1>3, <1>4, <1>5, <1>6 DEF Cover

(* Steps that only go to another place, or only read.                       *)
LEMMA StayType ==
  ASSUME TypeOK, UNCHANGED engineVars,
         NEW p \in Pcs, Goto(p), regs' \in Registers
  PROVE  EngineTypeOK' /\ ControlTypeOK'
BY GotoType DEF TypeOK, engineVars, EngineTypeOK

LEMMA ReadType ==
  ASSUME TypeOK, UNCHANGED <<venueVars, engineVars, faults>>,
         NEW p \in Pcs, ReadAccount(p) \/ ReadOrders(p)
  PROVE  TypeOK'
<1>1. ControlTypeOK'
  BY ReadAccountType, ReadOrdersType DEF TypeOK
<1> QED
  BY <1>1 DEF TypeOK, venueVars, engineVars, VenueTypeOK, EngineTypeOK

LEMMA BookType ==
  ASSUME TypeOK, UNCHANGED bookVars, NEW es, NEW ts, CancelOk(es, ts) \/ CancelFail(es, ts)
  PROVE  VenueTypeOK' /\ faults' \in Nat
<1>1. entry' \in [Levels -> Nat] /\ target' \in [TargetLevels -> Nat] /\ faults' \in Nat
  BY CancelType DEF TypeOK
<1> QED
  BY <1>1 DEF TypeOK, VenueTypeOK, bookVars

LEMMA SameVenueType ==
  ASSUME TypeOK, UNCHANGED venueVars, Fault \/ UNCHANGED faults
  PROVE  VenueTypeOK' /\ faults' \in Nat
BY DEF TypeOK, Fault, venueVars, VenueTypeOK

LEMMA CountType ==
  ASSUME NEW x \in Campaigns, NEW n \in Nat
  PROVE  [x EXCEPT !.zero = n] \in Campaigns
BY DEF Campaigns

LEMMA CountedType == ASSUME c \in Campaigns PROVE Counted \in Campaigns
<1> DEFINE zero == IF Owned(View) THEN 0 ELSE c.zero + 1
<1>1. zero \in Nat
  BY DEF Campaigns
<1>2. ASSUME NEW n \in Nat
      PROVE  [c EXCEPT !.zero = n, !.status = "recovery_closed", !.managed = 0] \in Campaigns
  BY DEF Campaigns, Statuses, ClosedStatuses
<1>3. Counted = IF zero >= RecoveryReads
                  THEN [c EXCEPT !.zero = zero, !.status = "recovery_closed", !.managed = 0]
                  ELSE [c EXCEPT !.zero = zero]
  BY DEF Counted
<1> HIDE DEF zero
<1> QED
  BY <1>1, <1>2, <1>3, CountType

(* A ladder entry of one lot is sent.                                       *)
LEMMA PlacedType ==
  ASSUME VenueTypeOK, NEW l, entry' = [entry EXCEPT ![l] = @ + Lot]
  PROVE  entry' \in [Levels -> Nat]
<1>1. \A m \in Levels : entry[m] \in Nat /\ entry[m] + Lot \in Nat
  BY LotAssumption DEF VenueTypeOK
<1> QED
  BY <1>1 DEF VenueTypeOK

LEMMA RecoveryType == ASSUME TypeOK, Recovery PROVE TypeOK'
<1> USE DEF TypeOK
<1>0. /\ c \in Campaigns /\ safe \in BOOLEAN
      /\ regs \in Registers /\ {"cover", "rec_orders"} \cup RecoveryPcs \subseteq Pcs
  BY DEF EngineTypeOK, ControlTypeOK, Pcs, CoverPcs, RecoveryPcs
<1>1. CASE RecCancel
  <2>1. VenueTypeOK' /\ faults' \in Nat
    BY <1>1, BookType DEF RecCancel
  <2>2. EngineTypeOK' /\ ControlTypeOK'
    <3>1. CASE Goto("rec_orders") /\ Keep /\ UNCHANGED engineVars
      BY <1>0, <3>1, StayType DEF Keep
    <3>2. CASE Save(c, safe) /\ RecoveryReturn
      BY <1>0, <3>2, SaveType, RecoveryReturnType
    <3> QED
      BY <1>1, <3>1, <3>2 DEF RecCancel
  <2> QED
    BY <2>1, <2>2
<1>2. CASE RecOrders
  BY <1>0, <1>2, ReadType DEF RecOrders
<1>3. CASE RecOrdersFail
  BY <1>0, <1>3, SaveType, RecoveryReturnType, SameVenueType DEF RecOrdersFail
<1>4. CASE SrecEntries
  <2>1. VenueTypeOK' /\ faults' \in Nat
    BY <1>4, BookType DEF SrecEntries
  <2>2. EngineTypeOK' /\ ControlTypeOK'
    <3>1. CASE /\ c' = [c EXCEPT !.zero = 0] /\ UNCHANGED <<safe, disk, unsaved>>
               /\ Goto("srec_orders") /\ Keep
      <4>1. "srec_orders" \in Pcs
        BY DEF Pcs, RecoveryPcs
      <4>2. ControlTypeOK'
        BY <1>0, <3>1, <4>1, GotoType DEF Keep
      <4>3. c' \in Campaigns
        BY <1>0, <3>1, CountType
      <4> QED
        BY <3>1, <4>2, <4>3 DEF EngineTypeOK
    <3>2. CASE Save(c, safe) /\ SyncReturn
      BY <1>0, <3>2, SaveType, SyncReturnType
    <3>3. CASE Goto("srec_flat_orders") /\ Keep /\ UNCHANGED engineVars
      <4>1. "srec_flat_orders" \in Pcs
        BY DEF Pcs, RecoveryPcs
      <4> QED
        BY <1>0, <3>3, <4>1, StayType DEF Keep
    <3> QED
      BY <1>4, <3>1, <3>2, <3>3 DEF SrecEntries
  <2> QED
    BY <2>1, <2>2
<1>5. CASE SrecFlatOrders
  <2>1. "srec_flat_cancel" \in Pcs
    BY DEF Pcs, RecoveryPcs
  <2> QED
    BY <1>5, <2>1, ReadType DEF SrecFlatOrders
<1>6. CASE SrecFlatFails
  <2>1. VenueTypeOK' /\ faults' \in Nat
    <3>1. CASE Fault /\ UNCHANGED <<entry, target>>
      BY <1>6, <3>1 DEF SrecFlatFails, Fault, bookVars, VenueTypeOK
    <3>2. CASE CancelFail(Entries, Targets)
      BY <1>6, <3>2, BookType DEF SrecFlatFails
    <3> QED
      BY <1>6, <3>1, <3>2 DEF SrecFlatFails
  <2>2. [c EXCEPT !.zero = 0] \in Campaigns
    BY <1>0, CountType
  <2>3. EngineTypeOK' /\ ControlTypeOK'
    BY <1>0, <1>6, <2>2, SaveType, SyncReturnType DEF SrecFlatFails
  <2> QED
    BY <2>1, <2>3
<1>7. CASE SrecFlatCancel
  <2>1. "srec_verify" \in Pcs
    BY DEF Pcs, RecoveryPcs
  <2>2. EngineTypeOK' /\ ControlTypeOK'
    BY <1>0, <1>7, <2>1, StayType DEF SrecFlatCancel, Keep
  <2>3. VenueTypeOK' /\ faults' \in Nat
    BY <1>7, BookType DEF SrecFlatCancel
  <2> QED
    BY <2>2, <2>3
<1>8. CASE SrecVerify
  <2>1. Counted \in Campaigns
    BY <1>0, CountedType
  <2> QED
    BY <1>0, <1>8, <2>1, SaveType, SyncReturnType, SameVenueType DEF SrecVerify
<1>9. CASE SrecVerifyFails
  BY <1>9, SyncRaiseType, SameVenueType DEF SrecVerifyFails
<1> QED
  BY <1>1, <1>2, <1>3, <1>4, <1>5, <1>6, <1>7, <1>8, <1>9 DEF Recovery

LEMMA FinishType == ASSUME TypeOK, Finish PROVE TypeOK'
<1> USE DEF TypeOK
<1>0. /\ c \in Campaigns /\ safe \in BOOLEAN /\ regs \in Registers
      /\ View \in Views /\ regs.pos \in Int /\ 0 \in Int
      /\ FinishPcs \cup ConfirmPcs \subseteq Pcs
  BY ViewType DEF EngineTypeOK, ControlTypeOK, Registers, Pcs
<1> DEFINE Here == FinishPcs \cup ConfirmPcs
<1>a. ASSUME UNCHANGED engineVars, NEW p \in Here, Goto(p), regs' = NoRegisters
      PROVE  EngineTypeOK' /\ ControlTypeOK'
  BY <1>0, <1>a, StayType, ConstantTypes
<1>b. ASSUME UNCHANGED <<venueVars, faults>>, NEW p \in Int, EnterRecovery(c, p, View)
      PROVE  TypeOK'
  <2>1. EngineTypeOK' /\ ControlTypeOK'
    BY <1>0, <1>b, EnterRecoveryType
  <2> QED
    BY <1>b, <2>1, SameVenueType
<1>1. CASE FinBlocked
  BY <1>0, <1>1, <1>b DEF FinBlocked
<1>2. CASE FinL1Orders
  <2>1. "fin_l1_cancel" \in Pcs
    BY DEF Pcs, FinishPcs
  <2> QED
    BY <1>2, <2>1, ReadType DEF FinL1Orders
<1>3. CASE FinL1Cancel
  <2>1. "fin_flat" \in Here
    BY DEF FinishPcs
  <2>2. EngineTypeOK' /\ ControlTypeOK'
    BY <1>3, <1>a, <2>1 DEF FinL1Cancel
  <2>3. VenueTypeOK' /\ faults' \in Nat
    BY <1>3, BookType DEF FinL1Cancel
  <2> QED
    BY <2>2, <2>3
<1>4. CASE FinL1Fails
  <2>1. "fin_err_account" \in Here
    BY DEF FinishPcs
  <2>2. EngineTypeOK' /\ ControlTypeOK'
    BY <1>4, <1>a, <2>1 DEF FinL1Fails
  <2>3. VenueTypeOK' /\ faults' \in Nat
    <3>1. CASE Fault /\ UNCHANGED <<entry, target>>
      BY <1>4, <3>1 DEF FinL1Fails, Fault, bookVars, VenueTypeOK
    <3>2. CASE CancelFail(Entries \cap {1}, Targets \cap {1})
      BY <1>4, <3>2, BookType DEF FinL1Fails
    <3> QED
      BY <1>4, <3>1, <3>2 DEF FinL1Fails
  <2> QED
    BY <2>2, <2>3
<1>5. CASE FinErrAccount
  <2>1. "fin_err_orders" \in Pcs
    BY DEF Pcs, FinishPcs
  <2> QED
    BY <1>5, <2>1, ReadType DEF FinErrAccount
<1>6. CASE FinErrOrders
  BY <1>0, <1>6, <1>b DEF FinErrOrders
<1>7. CASE FinFlat
  <2>1. CASE ReadAccount("fin_notflat")
    <3>1. "fin_notflat" \in Pcs
      BY DEF Pcs, FinishPcs
    <3> QED
      BY <1>7, <2>1, <3>1, ReadType DEF FinFlat
  <2>2. CASE /\ Goto(IF regs.k + 1 < FlatReads THEN "fin_flat" ELSE "fin_place")
             /\ regs' = [regs EXCEPT !.k = @ + 1]
    <3>1. (IF regs.k + 1 < FlatReads THEN "fin_flat" ELSE "fin_place") \in Pcs
      BY DEF Pcs, FinishPcs
    <3>2. regs' \in Registers
      BY <1>0, <2>2 DEF Registers
    <3>3. EngineTypeOK' /\ ControlTypeOK'
      BY <1>7, <2>2, <3>1, <3>2, StayType DEF FinFlat, engineVars
    <3> QED
      BY <1>7, <3>3, SameVenueType DEF FinFlat, venueVars
  <2> QED
    BY <1>7, <2>1, <2>2 DEF FinFlat
<1>8. CASE FinPlace
  <2>1. Rearmed \in Campaigns
    BY <1>0, ConstantTypes DEF Rearmed, Campaigns, Statuses, ActiveStatuses, Fallback
  <2>2. EngineTypeOK' /\ ControlTypeOK'
    BY <1>0, <1>8, <2>1, SaveType, SyncReturnType DEF FinPlace
  <2>3. entry' \in [Levels -> Nat]
    BY <1>8, PlacedType DEF FinPlace
  <2> QED
    BY <1>8, <2>2, <2>3 DEF FinPlace, VenueTypeOK
<1>9. CASE FinPlaceFails
  <2>1. EngineTypeOK' /\ ControlTypeOK'
    BY <1>9, SyncRaiseType DEF FinPlaceFails
  <2> QED
    BY <1>9, <2>1, LotAssumption DEF FinPlaceFails, Fault, VenueTypeOK
<1>10. CASE FinOrders
  <2>1. "fin_cancel" \in Pcs
    BY DEF Pcs, FinishPcs
  <2> QED
    BY <1>10, <2>1, ReadType DEF FinOrders
<1>11. CASE FinCancel
  <2>1. "conf_account" \in Here
    BY DEF ConfirmPcs
  <2>2. EngineTypeOK' /\ ControlTypeOK'
    BY <1>11, <1>a, <2>1 DEF FinCancel
  <2>3. VenueTypeOK' /\ faults' \in Nat
    BY <1>11, BookType DEF FinCancel
  <2> QED
    BY <2>2, <2>3
<1>12. CASE FinCancelFails
  <2>1. EngineTypeOK' /\ ControlTypeOK'
    BY <1>12, SyncRaiseType DEF FinCancelFails
  <2>2. VenueTypeOK' /\ faults' \in Nat
    BY <1>12, BookType DEF FinCancelFails
  <2> QED
    BY <2>1, <2>2
<1>13. CASE FinReadFails
  <2>1. EngineTypeOK' /\ ControlTypeOK'
    BY <1>13, SyncRaiseType DEF FinReadFails
  <2> QED
    BY <1>13, <2>1, SameVenueType DEF FinReadFails
<1> QED
  BY <1>1, <1>2, <1>3, <1>4, <1>5, <1>6, <1>7, <1>8, <1>9, <1>10, <1>11, <1>12, <1>13
     DEF Finish

(* _enter_recovery after reads that changed nothing.                        *)
LEMMA ToRecoveryType ==
  ASSUME TypeOK, UNCHANGED venueVars, Fault \/ UNCHANGED faults,
         NEW p \in Int, NEW v \in Views, EnterRecovery(c, p, v)
  PROVE  TypeOK'
<1>1. EngineTypeOK' /\ ControlTypeOK'
  BY EnterRecoveryType DEF TypeOK, EngineTypeOK
<1> QED
  BY <1>1, SameVenueType DEF TypeOK

LEMMA ConfirmType == ASSUME TypeOK, Confirm PROVE TypeOK'
<1> USE DEF TypeOK
<1>0. /\ c \in Campaigns /\ safe \in BOOLEAN /\ regs \in Registers
      /\ View \in Views /\ regs.pos \in Int
      /\ ConfirmPcs \cup CancelPcs \subseteq Pcs
  BY ViewType DEF EngineTypeOK, ControlTypeOK, Registers, Pcs
<1>1. CASE ConfAccount
  <2>1. "conf_orders" \in Pcs
    BY DEF Pcs, ConfirmPcs
  <2> QED
    BY <1>1, <2>1, ReadType DEF ConfAccount
<1>2. CASE ConfDone
  <2>1. Confirmed \in Campaigns
    BY <1>0 DEF Confirmed, Campaigns, Statuses, ClosedStatuses
  <2>2. EngineTypeOK'
    BY <1>0, <1>2, <2>1, SaveType DEF ConfDone
  <2>3. ControlTypeOK'
    BY <1>2, EndOpType, SyncReturnType DEF ConfDone
  <2> QED
    BY <1>2, <2>2, <2>3, SameVenueType DEF ConfDone
<1>3. CASE ConfAgain
  <2>1. regs' \in Registers
    <3>1. ASSUME NEW n \in Nat, NEW t \in Nat
          PROVE  [regs EXCEPT !.k = n, !.tries = t] \in Registers
      BY <1>0 DEF Registers
    <3>2. (IF CleanRead THEN regs.k + 1 ELSE 0) \in Nat /\ regs.tries + 1 \in Nat
      BY <1>0 DEF Registers
    <3> QED
      BY <1>3, <3>1, <3>2 DEF ConfAgain
  <2>2. "conf_account" \in Pcs
    BY DEF Pcs, ConfirmPcs
  <2>3. EngineTypeOK' /\ ControlTypeOK'
    BY <1>3, <2>1, <2>2, StayType DEF ConfAgain
  <2> QED
    BY <1>3, <2>3, SameVenueType DEF ConfAgain
<1>4. CASE ConfRefused
  BY <1>0, <1>4, ToRecoveryType DEF ConfRefused
<1>5. CASE ConfReadFails
  <2>1. "can_err_account" \in Pcs
    BY DEF Pcs, CancelPcs
  <2>2. EngineTypeOK' /\ ControlTypeOK'
    BY <1>0, <1>5, <2>1, StayType, SyncRaiseType DEF ConfReadFails, Keep
  <2> QED
    BY <1>5, <2>2, SameVenueType DEF ConfReadFails
<1> QED
  BY <1>1, <1>2, <1>3, <1>4, <1>5 DEF Confirm

LEMMA CancelGroupType == ASSUME TypeOK, Cancel PROVE TypeOK'
<1> USE DEF TypeOK
<1>0. /\ c \in Campaigns /\ safe \in BOOLEAN /\ regs \in Registers
      /\ View \in Views /\ regs.pos \in Int
  BY ViewType DEF EngineTypeOK, ControlTypeOK, Registers
<1>p. /\ "can_orders" \in Pcs /\ "can_cancel" \in Pcs /\ "can_err_account" \in Pcs
      /\ "can_err_orders" \in Pcs /\ "conf_account" \in Pcs
  BY DEF Pcs, CancelPcs, ConfirmPcs
<1>1. CASE CanAccount
  BY <1>1, <1>p, ReadType DEF CanAccount
<1>2. CASE CanOrders
  <2>1. CASE EnterRecovery(c, regs.pos, View)
    BY <1>0, <1>2, <2>1, ToRecoveryType DEF CanOrders
  <2>2. CASE EndOp /\ UNCHANGED engineVars
    BY <1>2, <2>2, EndOpType, SameVenueType DEF CanOrders, engineVars, EngineTypeOK
  <2>3. CASE Save([c EXCEPT !.status = "canceling"], safe) /\ ReadOrders("can_cancel")
    <3>1. [c EXCEPT !.status = "canceling"] \in Campaigns
      BY <1>0, StatusType DEF Statuses, ActiveStatuses
    <3>2. EngineTypeOK' /\ ControlTypeOK'
      BY <1>0, <1>p, <2>3, <3>1, SaveType, ReadOrdersType
    <3> QED
      BY <1>2, <3>2, SameVenueType DEF CanOrders
  <2> QED
    BY <1>2, <2>1, <2>2, <2>3 DEF CanOrders
<1>3. CASE CanCancel
  <2>1. EngineTypeOK' /\ ControlTypeOK'
    BY <1>3, <1>p, StayType, ConstantTypes DEF CanCancel
  <2>2. VenueTypeOK' /\ faults' \in Nat
    BY <1>3, BookType DEF CanCancel
  <2> QED
    BY <2>1, <2>2
<1>4. CASE CanCancelFails
  <2>1. EngineTypeOK' /\ ControlTypeOK'
    BY <1>0, <1>4, <1>p, StayType DEF CanCancelFails, Keep
  <2>2. VenueTypeOK' /\ faults' \in Nat
    BY <1>4, BookType DEF CanCancelFails
  <2> QED
    BY <2>1, <2>2
<1>5. CASE CanErrAccount
  BY <1>5, <1>p, ReadType DEF CanErrAccount
<1>6. CASE CanErrOrders
  BY <1>0, <1>6, ToRecoveryType DEF CanErrOrders
<1>7. CASE CanReadFails
  BY <1>7, EndOpType, SameVenueType DEF CanReadFails, engineVars, venueVars, EngineTypeOK
<1> QED
  BY <1>1, <1>2, <1>3, <1>4, <1>5, <1>6, <1>7 DEF Cancel

LEMMA EmgSucceedsType ==
  ASSUME TypeOK, EmgSucceeds PROVE EngineTypeOK' /\ ControlTypeOK'
<1>1. (IF Active THEN [c EXCEPT !.status = "emergency_closed", !.managed = 0] ELSE c)
        \in Campaigns
  BY DEF TypeOK, EngineTypeOK, Campaigns, Statuses
<1> QED
  BY <1>1, SaveType, EndOpType DEF EmgSucceeds

LEMMA EmgRetryType ==
  ASSUME TypeOK, NEW v \in Views, EmgRetry(v) PROVE EngineTypeOK' /\ ControlTypeOK'
<1>0. c \in Campaigns /\ regs \in Registers /\ regs.pos \in Int /\ ControlTypeOK
  BY DEF TypeOK, EngineTypeOK, ControlTypeOK, Registers
<1>1. CASE /\ Goto("emg_flat") /\ regs' = [regs EXCEPT !.tries = @ + 1]
           /\ UNCHANGED engineVars
  <2>1. regs' \in Registers /\ "emg_flat" \in Pcs
    BY <1>0, <1>1 DEF Registers, Pcs, EmergencyPcs
  <2> QED
    BY <1>1, <2>1, StayType
<1>2. CASE EnterRecovery(c, regs.pos, v)
  BY <1>0, <1>2, EnterRecoveryType
<1>3. CASE Save(c, TRUE) /\ EndOp
  BY <1>0, <1>3, SaveType, EndOpType
<1> QED
  BY <1>1, <1>2, <1>3 DEF EmgRetry

LEMMA EmgRemoveType ==
  ASSUME TypeOK, EmgRemoveOk \/ EmgRemoveFail PROVE VenueTypeOK' /\ faults' \in Nat
<1>1. CASE EmgRemoveOk
  <2>1. entry' \in [Levels -> Nat] /\ target' \in [TargetLevels -> Nat] /\ faults' \in Nat
    BY <1>1, CancelType DEF EmgRemoveOk, TypeOK
  <2> QED
    BY <1>1, <2>1 DEF EmgRemoveOk, TypeOK, VenueTypeOK
<1>2. CASE EmgRemoveFail
  <2>1. CASE CancelFail(Entries, Targets)
    BY <1>2, <2>1, BookType DEF EmgRemoveFail
  <2>2. CASE Fault /\ UNCHANGED <<entry, target>>
    BY <1>2, <2>2 DEF EmgRemoveFail, TypeOK, VenueTypeOK, Fault, bookVars
  <2> QED
    BY <1>2, <2>1, <2>2 DEF EmgRemoveFail
<1> QED
  BY <1>1, <1>2

LEMMA EmergencyType == ASSUME TypeOK, Emergency PROVE TypeOK'
<1> USE DEF TypeOK
<1>0. /\ c \in Campaigns /\ regs \in Registers /\ View \in Views /\ regs.view \in Views
  BY ViewType DEF EngineTypeOK, ControlTypeOK, Registers
<1>p. /\ "emg_cancel" \in Pcs /\ "emg_account" \in Pcs /\ "emg_flat" \in Pcs
      /\ "emg_close" \in Pcs /\ "emg_flat_orders" \in Pcs /\ "emg_again" \in Pcs
      /\ "emg_reread" \in Pcs
  BY DEF Pcs, EmergencyPcs
<1>1. CASE EmgOrders
  BY <1>1, <1>p, ReadType DEF EmgOrders
<1>2. CASE EmgCancel
  <2>1. EngineTypeOK' /\ ControlTypeOK'
    BY <1>2, <1>p, StayType, ConstantTypes DEF EmgCancel
  <2> QED
    BY <1>2, <2>1, EmgRemoveType DEF EmgCancel
<1>3. CASE EmgAccount
  <2>1. (IF pos = 0 THEN "emg_flat" ELSE "emg_close") \in Pcs
    BY <1>p
  <2>2. EngineTypeOK' /\ ControlTypeOK'
    BY <1>0, <1>3, <2>1, StayType DEF EmgAccount, Keep
  <2> QED
    BY <1>3, <2>2, SameVenueType DEF EmgAccount
<1>4. CASE EmgClose
  <2>1. EngineTypeOK' /\ ControlTypeOK'
    <3>1. CASE Goto("emg_account") /\ regs' = [regs EXCEPT !.k = @ + 1]
      <4>1. regs' \in Registers
        BY <1>0, <3>1 DEF Registers
      <4> QED
        BY <1>4, <1>p, <3>1, <4>1, StayType DEF EmgClose, engineVars
    <3>2. CASE Goto("emg_flat") /\ regs' = NoRegisters
      BY <1>4, <1>p, <3>2, StayType, ConstantTypes DEF EmgClose, engineVars
    <3> QED
      BY <1>4, <3>1, <3>2 DEF EmgClose
  <2>2. pos' \in Int /\ due' \in [Levels -> Nat] /\ unseen' \in Fills /\ faults' \in Nat
    <3>1. CASE /\ pos # 0 /\ NoFault
               /\ \E p \in (IF pos > 0 THEN 0..(pos - 1) ELSE (pos + 1)..0) : SetPosition(p, due)
               /\ Foreign
      <4>1. pos' \in Int /\ due' \in [Levels -> Nat]
        BY <3>1, ConstantTypes DEF SetPosition, VenueTypeOK
      <4>2. unseen' \in Fills
        BY <3>1 DEF Foreign, VenueTypeOK, Fills
      <4> QED
        BY <3>1, <4>1, <4>2 DEF NoFault
    <3>2. CASE (NoFault \/ Fault) /\ UNCHANGED <<pos, due, unseen>>
      BY <3>2 DEF NoFault, Fault, VenueTypeOK
    <3> QED
      BY <1>4, <3>1, <3>2 DEF EmgClose
  <2> QED
    BY <1>4, <2>1, <2>2 DEF EmgClose, VenueTypeOK
<1>5. CASE EmgFlat
  BY <1>5, <1>p, ReadType DEF EmgFlat
<1>6. CASE EmgFlatOrders
  <2>1. CASE ReadOrders("emg_again") /\ UNCHANGED engineVars
    BY <1>6, <1>p, <2>1, ReadType DEF EmgFlatOrders
  <2>2. CASE EmgRetry(View)
    BY <1>0, <1>6, <2>2, EmgRetryType, SameVenueType DEF EmgFlatOrders
  <2> QED
    BY <1>6, <2>1, <2>2 DEF EmgFlatOrders
<1>7. CASE EmgAgain
  <2>1. EngineTypeOK' /\ ControlTypeOK'
    BY <1>0, <1>7, <1>p, StayType DEF EmgAgain, Keep
  <2> QED
    BY <1>7, <2>1, EmgRemoveType DEF EmgAgain
<1>8. CASE EmgReread
  BY <1>0, <1>8, EmgRetryType, EmgSucceedsType, SameVenueType DEF EmgReread
<1>9. CASE EmgAgainFails
  <2>1. EngineTypeOK' /\ ControlTypeOK'
    BY <1>0, <1>9, EmgRetryType, EmgSucceedsType DEF EmgAgainFails
  <2> QED
    BY <1>9, <2>1, EmgRemoveType, SameVenueType DEF EmgAgainFails
<1>10. CASE EmgReadFails
  BY <1>10, EndOpType, SameVenueType DEF EmgReadFails, engineVars, venueVars, EngineTypeOK
<1> QED
  BY <1>1, <1>2, <1>3, <1>4, <1>5, <1>6, <1>7, <1>8, <1>9, <1>10 DEF Emergency

LEMMA GlobalType == ASSUME TypeOK, Global PROVE TypeOK'
<1> USE DEF TypeOK
<1>0. c \in Campaigns /\ safe \in BOOLEAN /\ regs \in Registers
  BY DEF EngineTypeOK, ControlTypeOK
<1>1. CASE GlobAccount
  <2>1. "glob_orders" \in Pcs
    BY DEF Pcs, GlobalPcs
  <2> QED
    BY <1>1, <2>1, ReadType DEF GlobAccount
<1>2. CASE GlobOrders
  <2>1. NewSafe \in BOOLEAN
    BY <1>0 DEF NewSafe, AccountRisk, Registers
  <2> QED
    BY <1>0, <1>2, <2>1, SaveType, EndOpType, SameVenueType DEF GlobOrders
<1>3. CASE GlobReadFails
  <2>1. EngineTypeOK'
    BY <1>0, <1>3, SaveType DEF GlobReadFails, engineVars, EngineTypeOK
  <2> QED
    BY <1>3, <2>1, EndOpType, SameVenueType DEF GlobReadFails, venueVars
<1> QED
  BY <1>1, <1>2, <1>3 DEF Global

LEMMA CreateType == ASSUME TypeOK, Create PROVE TypeOK'
<1> USE DEF TypeOK
<1>0. /\ c \in Campaigns /\ safe \in BOOLEAN /\ regs \in Registers
      /\ View \in Views /\ NoView \in Views /\ regs.pos \in Int
  BY ViewType, ConstantTypes DEF EngineTypeOK, ControlTypeOK, Registers
<1>p. /\ "cr_orders" \in Pcs /\ "cr_leverage" \in Pcs /\ "cr_place" \in Pcs
      /\ "cr_count" \in Pcs /\ "cr_flat" \in Pcs /\ "crf_account" \in Pcs
      /\ "crf_orders" \in Pcs
  BY DEF Pcs, CreatePcs
<1>e. ASSUME EndOp, UNCHANGED engineVars PROVE EngineTypeOK' /\ ControlTypeOK'
  BY <1>e, EndOpType DEF engineVars, EngineTypeOK
<1>f. ASSUME CreationFailure PROVE EngineTypeOK' /\ ControlTypeOK'
  BY <1>f, <1>p, StayType, ConstantTypes DEF CreationFailure
<1>k. ASSUME NEW p \in Pcs, Goto(p), Keep, UNCHANGED engineVars
      PROVE  EngineTypeOK' /\ ControlTypeOK'
  BY <1>0, <1>k, StayType DEF Keep
<1>1. CASE CrAccount
  <2>1. EngineTypeOK' /\ ControlTypeOK'
    BY <1>1, <1>e, <1>k, <1>p DEF CrAccount, engineVars
  <2> QED
    BY <1>1, <2>1, SameVenueType DEF CrAccount, venueVars
<1>2. CASE CrOrders
  <2>1. EngineTypeOK' /\ ControlTypeOK'
    BY <1>2, <1>e, <1>k, <1>p DEF CrOrders, engineVars
  <2> QED
    BY <1>2, <2>1, SameVenueType DEF CrOrders, venueVars
<1>3. CASE CrLeverage
  <2>1. NewCampaign \in Campaigns
    BY ConstantTypes, StatusType DEF NewCampaign, Statuses, ActiveStatuses
  <2>2. EngineTypeOK'
    BY <1>0, <1>3, <2>1, SaveType DEF CrLeverage
  <2>3. regs' \in Registers
    BY <1>0, <1>3 DEF CrLeverage, Registers
  <2>4. ControlTypeOK'
    BY <1>3, <1>p, <2>3, GotoType DEF CrLeverage
  <2>5. unseen' \in Fills
    BY <1>3, ConstantTypes DEF CrLeverage, Fills
  <2> QED
    BY <1>3, <2>2, <2>4, <2>5 DEF CrLeverage, VenueTypeOK
<1>4. CASE CrRefused
  <2>1. EngineTypeOK' /\ ControlTypeOK'
    BY <1>4, <1>e DEF CrRefused, engineVars
  <2> QED
    BY <1>4, <2>1, SameVenueType DEF CrRefused, venueVars
<1>5. CASE CrPlace
  <2>1. EngineTypeOK'
    BY <1>0, <1>5, SaveType DEF CrPlace
  <2>2. ControlTypeOK'
    <3>1. CASE Goto("cr_place") /\ regs' = [regs EXCEPT !.k = @ + 1]
      <4>1. regs' \in Registers
        BY <1>0, <3>1 DEF Registers
      <4> QED
        BY <1>p, <3>1, <4>1, GotoType
    <3>2. CASE Goto("cr_count") /\ regs' = NoRegisters
      BY <1>p, <3>2, GotoType, ConstantTypes
    <3> QED
      BY <1>5, <3>1, <3>2 DEF CrPlace
  <2>3. entry' \in [Levels -> Nat]
    BY <1>5, PlacedType DEF CrPlace
  <2> QED
    BY <1>5, <2>1, <2>2, <2>3 DEF CrPlace, VenueTypeOK
<1>6. CASE CrPlaceFails
  <2>1. EngineTypeOK' /\ ControlTypeOK'
    BY <1>6, <1>f DEF CrPlaceFails
  <2>2. entry' \in [Levels -> Nat]
    BY <1>6, PlacedType DEF CrPlaceFails, VenueTypeOK
  <2> QED
    BY <1>6, <2>1, <2>2 DEF CrPlaceFails, Fault, VenueTypeOK
<1>7. CASE CrCount
  <2>1. EngineTypeOK' /\ ControlTypeOK'
    BY <1>7, <1>f, <1>k, <1>p DEF CrCount
  <2> QED
    BY <1>7, <2>1, SameVenueType DEF CrCount
<1>8. CASE CrFlat
  <2>1. [c EXCEPT !.status = "waiting"] \in Campaigns
    BY <1>0, StatusType DEF Statuses, ActiveStatuses
  <2>2. EngineTypeOK' /\ ControlTypeOK'
    BY <1>0, <1>8, <1>f, <2>1, SaveType, EndOpType DEF CrFlat
  <2> QED
    BY <1>8, <2>2, SameVenueType DEF CrFlat
<1>9. CASE CrfAccount
  BY <1>9, <1>p, ReadType DEF CrfAccount
<1>10. CASE CrfOrders
  BY <1>0, <1>10, ToRecoveryType DEF CrfOrders
<1>11. CASE CrReadFails
  <2>1. CASE EndOp /\ UNCHANGED engineVars
    BY <1>11, <1>e, <2>1, SameVenueType DEF CrReadFails
  <2>2. CASE CreationFailure
    BY <1>11, <1>f, <2>2, SameVenueType DEF CrReadFails
  <2>3. CASE EnterRecovery(c, regs.pos, NoView)
    BY <1>0, <1>11, <2>3, ToRecoveryType DEF CrReadFails
  <2> QED
    BY <1>11, <2>1, <2>2, <2>3 DEF CrReadFails
<1> QED
  BY <1>1, <1>2, <1>3, <1>4, <1>5, <1>6, <1>7, <1>8, <1>9, <1>10, <1>11 DEF Create

LEMMA StartType == ASSUME TypeOK, StartMonitor \/ Commands PROVE TypeOK'
<1> USE DEF TypeOK
<1>1. ASSUME NEW o \in Ops, NEW p \in Pcs, Begin(o, p) PROVE ControlTypeOK' /\ VenueTypeOK' /\ faults' \in Nat
  BY <1>1, SameVenueType, ConstantTypes DEF Begin, ControlTypeOK
<1>2. ASSUME UNCHANGED engineVars PROVE EngineTypeOK'
  BY <1>2 DEF engineVars, EngineTypeOK
<1>p. /\ "sync_orders" \in Pcs /\ "glob_account" \in Pcs /\ "cr_account" \in Pcs
      /\ "emg_orders" \in Pcs
      /\ {"monitor", "reconcile", "cancel", "create", "emergency"} \subseteq Ops
  BY DEF Pcs, SyncPcs, GlobalPcs, CreatePcs, EmergencyPcs, Ops, SyncOps
<1>3. CASE StartMonitor
  BY <1>1, <1>2, <1>3, <1>p DEF StartMonitor
<1>4. CASE StartReconcile
  BY <1>1, <1>2, <1>4, <1>p DEF StartReconcile
<1>5. CASE StartCancel
  BY <1>1, <1>2, <1>5, <1>p DEF StartCancel
<1>6. CASE StartCreate
  BY <1>1, <1>2, <1>6, <1>p DEF StartCreate
<1>7. CASE StartEmergency
  <2>1. [c EXCEPT !.status = "emergency", !.blocked = TRUE] \in Campaigns /\ safe \in BOOLEAN
    BY DEF EngineTypeOK, Campaigns, Statuses, ActiveStatuses
  <2>2. EngineTypeOK'
    BY <1>2, <1>7, <2>1, SaveType DEF StartEmergency
  <2> QED
    BY <1>1, <1>7, <1>p, <2>2 DEF StartEmergency
<1> QED
  BY <1>3, <1>4, <1>5, <1>6, <1>7 DEF Commands

LEMMA CrashType == ASSUME TypeOK, Crash PROVE TypeOK'
<1>1. EngineTypeOK'
  BY ConstantTypes DEF Crash, TypeOK, EngineTypeOK
<1>2. ControlTypeOK'
  BY ConstantTypes DEF Crash, ControlTypeOK, Pcs, Ops
<1>3. /\ entry' \in [Levels -> Nat] /\ target' \in [TargetLevels -> Nat]
      /\ strayBuy' \in Nat /\ straySell' \in Nat
  <2>1. CASE UNCHANGED <<entry, target, strayBuy, straySell>>
    BY <2>1 DEF TypeOK, VenueTypeOK
  <2>2. CASE strayBuy' = strayBuy + Lot /\ UNCHANGED <<entry, target, straySell>>
    BY <2>2, LotAssumption DEF TypeOK, VenueTypeOK
  <2>3. CASE LostFallback /\ UNCHANGED <<entry, strayBuy>>
    BY <2>3, LostFallbackType DEF TypeOK, VenueTypeOK
  <2>4. ASSUME NEW es, NEW ts, Gone(es, ts), UNCHANGED <<strayBuy, straySell>>
        PROVE  /\ entry' \in [Levels -> Nat] /\ target' \in [TargetLevels -> Nat]
               /\ strayBuy' \in Nat /\ straySell' \in Nat
    BY <2>4, GoneType DEF TypeOK, VenueTypeOK
  <2> QED
    BY <2>1, <2>2, <2>3, <2>4 DEF Crash, CallInFlight
<1>4. unseen' \in Fills
  BY MergeType DEF Crash, TypeOK, VenueTypeOK, EngineTypeOK
<1>5. VenueTypeOK' /\ faults' \in Nat
  BY <1>3, <1>4 DEF Crash, Fault, TypeOK, VenueTypeOK
<1> QED
  BY <1>1, <1>2, <1>5 DEF TypeOK

LEMMA RestartType == ASSUME TypeOK, Restart PROVE TypeOK'
<1>1. ControlTypeOK'
  BY ConstantTypes DEF Restart, ControlTypeOK, Pcs, SyncPcs, GlobalPcs, Ops, SyncOps
<1>2. EngineTypeOK'
  BY DEF Restart, TypeOK, EngineTypeOK, engineVars
<1> QED
  BY <1>1, <1>2, SameVenueType DEF Restart, TypeOK

LEMMA VenueStepType == ASSUME VenueTypeOK, VenueNext PROVE VenueTypeOK'
<1>0. /\ pos \in Int /\ entry \in [Levels -> Nat] /\ target \in [TargetLevels -> Nat]
      /\ due \in [Levels -> Nat] /\ strayBuy \in Nat /\ straySell \in Nat
      /\ unseen \in Fills /\ manual \in Nat
  BY DEF VenueTypeOK
<1>1. ASSUME NEW p \in Int, NEW d \in [Levels -> Nat], SetPosition(p, d)
      PROVE  pos' \in Int /\ due' \in [Levels -> Nat]
  BY <1>1, ConstantTypes DEF SetPosition
<1>2. ASSUME Foreign PROVE unseen' \in Fills
  BY <1>0, <1>2 DEF Foreign, Fills
<1>3. ASSUME NEW l \in Levels, EntryFill(l) PROVE VenueTypeOK'
  <2>1. entry' \in [Levels -> Nat]
    BY <1>0, <1>3 DEF EntryFill
  <2>2. [due EXCEPT ![l] = @ + 1] \in [Levels -> Nat]
    BY <1>0
  <2>3. pos' \in Int /\ due' \in [Levels -> Nat]
    <3>1. SetPosition(pos + 1, [due EXCEPT ![l] = @ + 1]) /\ pos + 1 \in Int
      BY <1>0, <1>3 DEF EntryFill
    <3> QED
      BY <1>1, <2>2, <3>1
  <2>4. unseen.bought + 1 \in Nat /\ Deeper(unseen.deepest, l) \in TargetLevels
    BY <1>0, ConstantTypes DEF Fills, Deeper
  <2>5. unseen' \in Fills
    BY <1>0, <1>3, <2>4 DEF EntryFill, Fills
  <2> QED
    BY <1>0, <1>3, <2>1, <2>3, <2>5 DEF EntryFill, VenueTypeOK
<1>4. ASSUME NEW l \in Levels, ListTarget(l) PROVE VenueTypeOK'
  <2>1. due' \in [Levels -> Nat]
    BY <1>0, <1>4 DEF ListTarget
  <2>2. \A m \in TargetLevels : target[m] + due[l] \in Nat
    BY <1>0
  <2>3. target' \in [TargetLevels -> Nat]
    BY <1>0, <1>4, <2>2 DEF ListTarget
  <2> QED
    BY <1>0, <1>4, <2>1, <2>3 DEF ListTarget, VenueTypeOK
<1>5. ASSUME NEW l \in TargetLevels, TargetFill(l) PROVE VenueTypeOK'
  <2>1. target' \in [TargetLevels -> Nat]
    BY <1>0, <1>5 DEF TargetFill
  <2>2. pos' \in Int /\ due' \in [Levels -> Nat]
    <3>1. SetPosition(pos - 1, due) /\ pos - 1 \in Int
      BY <1>0, <1>5 DEF TargetFill
    <3> QED
      BY <1>0, <1>1, <3>1
  <2>3. unseen.sold + 1 \in Nat
    BY <1>0 DEF Fills
  <2>4. unseen' \in Fills
    BY <1>0, <1>5, <2>3 DEF TargetFill, Fills
  <2> QED
    BY <1>0, <1>5, <2>1, <2>2, <2>4 DEF TargetFill, VenueTypeOK
<1>6. ASSUME DropReduceOnly PROVE VenueTypeOK'
  BY <1>0, <1>6, ConstantTypes DEF DropReduceOnly, VenueTypeOK
<1>7. ASSUME StrayBuyFill PROVE VenueTypeOK'
  <2>1. pos' \in Int /\ due' \in [Levels -> Nat]
    BY <1>0, <1>1, <1>7 DEF StrayBuyFill
  <2> QED
    BY <1>0, <1>2, <1>7, <2>1 DEF StrayBuyFill, VenueTypeOK
<1>8. ASSUME StraySellFill PROVE VenueTypeOK'
  <2>1. pos' \in Int /\ due' \in [Levels -> Nat]
    BY <1>0, <1>1, <1>8 DEF StraySellFill
  <2> QED
    BY <1>0, <1>2, <1>8, <2>1 DEF StraySellFill, VenueTypeOK
<1>9. ASSUME ManualTrade PROVE VenueTypeOK'
  <2>1. pos' \in Int /\ due' \in [Levels -> Nat]
    BY <1>0, <1>1, <1>9 DEF ManualTrade
  <2> QED
    BY <1>0, <1>2, <1>9, <2>1 DEF ManualTrade, ByHand, VenueTypeOK
<1>10. ASSUME ManualOrder PROVE VenueTypeOK'
  BY <1>0, <1>10 DEF ManualOrder, ByHand, VenueTypeOK
<1>11. ASSUME ManualCancel PROVE VenueTypeOK'
  <2>1. entry' \in [Levels -> Nat] /\ target' \in [TargetLevels -> Nat]
    BY <1>0, <1>11 DEF ManualCancel
  <2> QED
    BY <1>0, <1>11, <2>1 DEF ManualCancel, ByHand, VenueTypeOK
<1> QED
  BY <1>3, <1>4, <1>5, <1>6, <1>7, <1>8, <1>9, <1>10, <1>11 DEF VenueNext

LEMMA TypeStep == TypeOK /\ [Next]_vars => TypeOK'
<1> SUFFICES ASSUME TypeOK, [Next]_vars PROVE TypeOK'
  OBVIOUS
<1>1. CASE VenueMoves
  <2>1. VenueTypeOK'
    BY <1>1, VenueStepType DEF VenueMoves, TypeOK
  <2> QED
    BY <1>1, <2>1 DEF VenueMoves, TypeOK, EngineTypeOK, ControlTypeOK, engineVars, control
<1>2. CASE Thread
  BY <1>2, SyncType, CoverType, RecoveryType, FinishType, ConfirmType, CancelGroupType,
     EmergencyType, GlobalType, CreateType DEF Thread
<1>3. CASE StartMonitor \/ Commands
  BY <1>3, StartType
<1>4. CASE Crash
  BY <1>4, CrashType
<1>5. CASE Restart
  BY <1>5, RestartType
<1>6. CASE UNCHANGED vars
  BY <1>6 DEF vars, venueVars, engineVars, control, TypeOK, VenueTypeOK, EngineTypeOK,
              ControlTypeOK
<1> QED
  BY <1>1, <1>2, <1>3, <1>4, <1>5, <1>6 DEF Next

(* Every reachable state of the venue and the engine is typed, for any number of levels, *)
(* lot and bounds: in particular no order on the book and no position the engine believes it *)
(* owns is ever negative.                                                            *)
THEOREM TypeCorrect == Spec => []TypeOK
<1>1. Init => TypeOK
  BY TypeInit
<1>2. TypeOK /\ [Next]_vars => TypeOK'
  BY TypeStep
<1> QED
  BY <1>1, <1>2, PTL DEF Spec

------------------------------------------------------------------------------
(***************************************************************************)
(* A campaign is reported closed only on a clean book, for every number of *)
(* levels, lot and bound.                                                  *)
(*                                                                         *)
(* Why ClosedIsClean is not inductive: a TP still to be listed is not on   *)
(* any order list.  That there is none follows from two reads in the right *)
(* order: the entries were gone when the account was read flat, and a flat *)
(* account has no TP to come.  CleanInv says, for every place of the       *)
(* confirming loops, which half of that has been established, and that the *)
(* counter of clean syncs, which outlives a crash, carries the first half. *)
(***************************************************************************)

\* Places only an active campaign gets to.
WorkPcs == SyncPcs \cup CoverPcs \cup RecoveryPcs \cup FinishPcs \cup ConfirmPcs \cup CancelPcs
             \cup {"cr_place", "cr_count", "cr_flat", "crf_account", "crf_orders"}

RearmPcs  == {"fin_l1_orders", "fin_l1_cancel", "fin_flat", "fin_place"}
CancelAllPcs == {"fin_cancel", "can_cancel"}
FlatPcs   == {"srec_flat_orders", "srec_flat_cancel", "srec_verify"}
ReadPcs   == {"sync_fills", "srec_entries"} \cup FlatPcs

\* Places about which ControlInv says more than that the campaign is active.
MarkedPcs == RearmPcs \cup CancelAllPcs \cup ReadPcs \cup ConfirmPcs \cup {"cr_place"}

CampaignClean(x) ==
  /\ x.status \in ClosedStatuses => Quiet
  /\ x.status = "recovery" => x.blocked
  /\ x.zero >= 1 => x.blocked /\ entry = NoEntries

FlatHasNoDue == pos <= 0 => due = NoDue

StateInv ==
  /\ CampaignClean(c) /\ CampaignClean(disk.c)
  /\ disk.c.status \in ClosedStatuses => c.status \in ClosedStatuses
  /\ FlatHasNoDue

ControlInv ==
  /\ pc \in WorkPcs => Active
  /\ pc \in RearmPcs => ~c.blocked
  /\ pc = "cr_place" => c.zero = 0 /\ disk.c.zero = 0
  /\ pc \in CancelAllPcs => OpenEntries(entry) \subseteq Entries
  /\ pc \in ConfirmPcs => entry = NoEntries
  /\ pc = "conf_orders" /\ regs.pos = 0 => due = NoDue
  /\ pc \in FlatPcs \cup {"srec_entries"} => InRecovery
  /\ pc \in FlatPcs => regs.pos = 0
  /\ pc \in ReadPcs /\ c.zero >= 1 /\ regs.pos <= 0 => due = NoDue

CleanInv == TypeOK /\ StateInv /\ ControlInv

------------------------------------------------------------------------------
(* The book                                                                 *)

\* What every step does to the book, except placing orders for a running campaign.
Calm ==
  /\ OpenEntries(entry') \subseteq OpenEntries(entry)
  /\ entry = NoEntries => entry' = NoEntries
  /\ entry = NoEntries /\ due = NoDue => due' = NoDue
  /\ c.status \in ClosedStatuses /\ Quiet => Quiet'
  /\ FlatHasNoDue'

LEMMA EmptyBook ==
  ASSUME VenueTypeOK
  PROVE  /\ OpenEntries(entry) = {} => entry = NoEntries
         /\ OpenTargets(target) = {} => target = NoTargets
<1>1. ASSUME OpenEntries(entry) = {} PROVE entry = NoEntries
  <2>1. \A l \in Levels : entry[l] = 0
    BY <1>1 DEF VenueTypeOK, OpenEntries
  <2> QED
    BY <2>1 DEF VenueTypeOK, NoEntries
<1>2. ASSUME OpenTargets(target) = {} PROVE target = NoTargets
  <2>1. \A l \in TargetLevels : target[l] = 0
    BY <1>2 DEF VenueTypeOK, OpenTargets
  <2> QED
    BY <2>1 DEF VenueTypeOK, NoTargets
<1> QED
  BY <1>1, <1>2

LEMMA NotOwned ==
  ASSUME VenueTypeOK, ~Owned(View) PROVE entry = NoEntries /\ target = NoTargets
BY EmptyBook DEF Owned, View

LEMMA CalmSame ==
  ASSUME FlatHasNoDue, UNCHANGED <<pos, entry, target, due>> PROVE Calm
BY DEF Calm, Quiet, FlatHasNoDue

LEMMA CalmGone ==
  ASSUME VenueTypeOK, FlatHasNoDue, UNCHANGED <<pos, due>>, NEW es, NEW ts, Gone(es, ts)
  PROVE  Calm
<1>1. \A l \in Levels : entry'[l] = IF l \in es THEN 0 ELSE entry[l]
  BY DEF Gone
<1>2. OpenEntries(entry') \subseteq OpenEntries(entry)
  BY <1>1 DEF OpenEntries
<1>3. entry = NoEntries => entry' = NoEntries
  BY DEF Gone, NoEntries
<1>4. target = NoTargets => target' = NoTargets
  BY DEF Gone, NoTargets
<1> QED
  BY <1>2, <1>3, <1>4 DEF Calm, Quiet, FlatHasNoDue

LEMMA CalmCancel ==
  ASSUME VenueTypeOK, FlatHasNoDue, UNCHANGED bookVars,
         NEW es, NEW ts, CancelOk(es, ts) \/ CancelFail(es, ts)
  PROVE  Calm
BY CalmGone DEF CancelOk, CancelFail, bookVars

\* A trade against the position; owned orders stay.
LEMMA CalmTrade ==
  ASSUME VenueTypeOK, UNCHANGED <<entry, target>>, NEW p \in Int, SetPosition(p, due)
  PROVE  Calm
BY DEF Calm, Quiet, FlatHasNoDue, SetPosition

\* Targets placed for a campaign that is running.
LEMMA CalmTargets ==
  ASSUME FlatHasNoDue, UNCHANGED <<pos, entry, due>>, c.status \notin ClosedStatuses
  PROVE  Calm
BY DEF Calm, FlatHasNoDue

LEMMA CalmVenue == ASSUME VenueTypeOK, FlatHasNoDue, VenueNext PROVE Calm
<1>0. /\ entry \in [Levels -> Nat] /\ target \in [TargetLevels -> Nat]
      /\ due \in [Levels -> Nat] /\ pos \in Int
  BY DEF VenueTypeOK
<1>1. ASSUME NEW l \in Levels, EntryFill(l) PROVE Calm
  <2>1. entry # NoEntries
    BY <1>1 DEF EntryFill, NoEntries
  <2>2. \A m \in Levels : entry'[m] > 0 => entry[m] > 0
    BY <1>0, <1>1 DEF EntryFill
  <2>3. FlatHasNoDue'
    BY <1>1 DEF EntryFill, SetPosition, FlatHasNoDue
  <2> QED
    BY <2>1, <2>2, <2>3 DEF Calm, Quiet, OpenEntries
<1>2. ASSUME NEW l \in Levels, ListTarget(l) PROVE Calm
  <2>1. due # NoDue
    BY <1>2 DEF ListTarget, NoDue
  <2> QED
    BY <1>2, <2>1 DEF Calm, Quiet, ListTarget, FlatHasNoDue
<1>3. ASSUME NEW l \in TargetLevels, TargetFill(l) PROVE Calm
  <2>1. target # NoTargets
    BY <1>3 DEF TargetFill, NoTargets
  <2> QED
    BY <1>3, <2>1 DEF Calm, Quiet, TargetFill, SetPosition, FlatHasNoDue
<1>4. ASSUME DropReduceOnly PROVE Calm
  BY <1>4 DEF Calm, Quiet, DropReduceOnly, FlatHasNoDue
<1>5. ASSUME NEW p \in Int, SetPosition(p, due), UNCHANGED <<entry, target>> PROVE Calm
  BY <1>5, CalmTrade
<1>6. ASSUME StrayBuyFill PROVE Calm
  BY <1>0, <1>5, <1>6 DEF StrayBuyFill
<1>7. ASSUME StraySellFill PROVE Calm
  BY <1>0, <1>5, <1>7 DEF StraySellFill
<1>8. ASSUME ManualTrade PROVE Calm
  <2>1. PICK d \in {-1, 1} : SetPosition(pos + d, due)
    BY <1>8 DEF ManualTrade
  <2>2. pos + d \in Int
    BY <1>0
  <2> QED
    BY <1>5, <1>8, <2>1, <2>2 DEF ManualTrade
<1>9. ASSUME ManualOrder PROVE Calm
  BY <1>9, CalmSame DEF ManualOrder
<1>10. ASSUME ManualCancel PROVE Calm
  <2>1. CASE \E l \in Levels : entry[l] > 0 /\ entry' = [entry EXCEPT ![l] = 0] /\ target' = target
    <3>1. PICK l \in Levels : entry[l] > 0 /\ entry' = [entry EXCEPT ![l] = 0] /\ target' = target
      BY <2>1
    <3>2. entry # NoEntries
      BY <3>1 DEF NoEntries
    <3>3. \A m \in Levels : entry'[m] > 0 => entry[m] > 0
      BY <1>0, <3>1
    <3> QED
      BY <1>10, <3>2, <3>3 DEF ManualCancel, Calm, Quiet, OpenEntries, FlatHasNoDue
  <2>2. CASE \E l \in TargetLevels : target[l] > 0 /\ target' = [target EXCEPT ![l] = 0] /\ entry' = entry
    <3>1. target # NoTargets
      BY <2>2 DEF NoTargets
    <3> QED
      BY <1>10, <2>2, <3>1 DEF ManualCancel, Calm, Quiet, FlatHasNoDue
  <2> QED
    BY <1>10, <2>1, <2>2 DEF ManualCancel
<1> QED
  BY <1>1, <1>2, <1>3, <1>4, <1>6, <1>7, <1>8, <1>9, <1>10 DEF VenueNext

------------------------------------------------------------------------------
(* The campaign                                                             *)

\* What most steps do to the campaign: they do not close it, they do not lose the block,
\* and they keep or reset the count of clean syncs.
Tame(x) ==
  /\ x.status \in ClosedStatuses => c.status \in ClosedStatuses
  /\ x.status = "recovery" => c.status = "recovery"
  /\ c.blocked => x.blocked
  /\ x.zero \in {0, c.zero}

LEMMA TameClean ==
  ASSUME CampaignClean(c), Calm, Tame(c') PROVE CampaignClean(c)'
BY DEF CampaignClean, Calm, Tame

LEMMA SavedState ==
  ASSUME NEW x, NEW m, Save(x, m), CampaignClean(c)', FlatHasNoDue'
  PROVE  StateInv'
BY DEF Save, StateInv, CampaignClean

LEMMA TameState ==
  ASSUME StateInv, Calm, NEW x, NEW m, Save(x, m), Tame(x)
  PROVE  StateInv'
<1>1. CampaignClean(c)'
  BY TameClean DEF Save, StateInv
<1> QED
  BY <1>1, SavedState DEF Calm

LEMMA SameState ==
  ASSUME StateInv, Calm, UNCHANGED engineVars PROVE StateInv'
<1>1. c' = c /\ disk' = disk
  BY DEF engineVars
<1>2. CampaignClean(c)'
  BY <1>1, TameClean DEF StateInv, Tame
<1>3. CampaignClean(disk.c)'
  BY <1>1 DEF StateInv, CampaignClean, Calm
<1> QED
  BY <1>1, <1>2, <1>3 DEF StateInv, Calm

LEMMA MemoryState ==
  ASSUME StateInv, Calm, Active, UNCHANGED disk, Tame(c')
  PROVE  StateInv'
<1>1. c.status \notin ClosedStatuses
  BY DEF Active, ActiveStatuses, ClosedStatuses
<1>2. CampaignClean(c)'
  BY TameClean DEF StateInv
<1>3. CampaignClean(disk.c)'
  BY DEF StateInv, CampaignClean, Calm
<1> QED
  BY <1>1, <1>2, <1>3 DEF StateInv, Calm

------------------------------------------------------------------------------
(* The places                                                               *)

LEMMA Land ==
  ASSUME pc' \notin MarkedPcs, pc' \in WorkPcs => Active' PROVE ControlInv'
BY DEF ControlInv, MarkedPcs, ConfirmPcs, ReadPcs

LEMMA LandEnd == EndOp => ControlInv'
<1>1. "idle" \notin MarkedPcs /\ "idle" \notin WorkPcs
  BY DEF MarkedPcs, RearmPcs, CancelAllPcs, ReadPcs, FlatPcs, WorkPcs, SyncPcs, CoverPcs,
         RecoveryPcs, FinishPcs, ConfirmPcs, CancelPcs
<1> QED
  BY <1>1, Land DEF EndOp

LEMMA LandGlobal == pc' = "glob_account" => ControlInv'
<1>1. "glob_account" \notin MarkedPcs /\ "glob_account" \notin WorkPcs
  BY DEF MarkedPcs, RearmPcs, CancelAllPcs, ReadPcs, FlatPcs, WorkPcs, SyncPcs, CoverPcs,
         RecoveryPcs, FinishPcs, ConfirmPcs, CancelPcs
<1> QED
  BY <1>1, Land

LEMMA LandReturn == SyncReturn => ControlInv'
<1> SUFFICES ASSUME SyncReturn PROVE ControlInv'
  OBVIOUS
<1>1. CASE EndOp
  BY <1>1, LandEnd
<1>2. CASE Goto("glob_account")
  BY <1>2, LandGlobal DEF Goto
<1>3. CASE c'.status \in ActiveStatuses /\ pc' = "can_account"
  <2>1. "can_account" \notin MarkedPcs
    BY DEF MarkedPcs, RearmPcs, CancelAllPcs, ReadPcs, FlatPcs, ConfirmPcs
  <2> QED
    BY <1>3, <2>1, Land DEF Active
<1> QED
  BY <1>1, <1>2, <1>3 DEF SyncReturn

LEMMA LandRaise == SyncRaise => ControlInv'
BY LandEnd, LandGlobal DEF SyncRaise, Goto

LEMMA LandRecovery == RecoveryReturn => ControlInv'
BY LandEnd, LandReturn DEF RecoveryReturn

------------------------------------------------------------------------------
(* Both                                                                     *)

SCInv == StateInv /\ ControlInv

LEMMA EnterRecoveryClean ==
  ASSUME StateInv, Calm, NEW x \in Campaigns, NEW p, NEW v, EnterRecovery(x, p, v)
  PROVE  SCInv'
<1> DEFINE y == [x EXCEPT !.status = "recovery", !.blocked = TRUE, !.zero = 0]
<1>1. y.status = "recovery" /\ y.blocked = TRUE /\ y.zero = 0
  BY DEF Campaigns
<1>2. Save(y, TRUE) /\ pc' = "rec_cancel"
  BY DEF EnterRecovery, Goto
<1> HIDE DEF y
<1>3. CampaignClean(c)'
  BY <1>1, <1>2 DEF Save, CampaignClean, ClosedStatuses
<1>4. StateInv'
  BY <1>2, <1>3, SavedState DEF Calm
<1>5. Active'
  BY <1>1, <1>2 DEF Save, Active, ActiveStatuses
<1>6. "rec_cancel" \notin MarkedPcs
  BY DEF MarkedPcs, RearmPcs, CancelAllPcs, ReadPcs, FlatPcs, ConfirmPcs
<1>7. ControlInv'
  BY <1>2, <1>5, <1>6, Land
<1> QED
  BY <1>4, <1>7 DEF SCInv

LEMMA ReturnClean ==
  ASSUME StateInv, Calm, NEW x, NEW m, Save(x, m), Tame(x),
         SyncReturn \/ RecoveryReturn \/ EndOp
  PROVE  SCInv'
BY TameState, LandReturn, LandRecovery, LandEnd DEF SCInv

LEMMA TameSelf == Tame(c)
BY DEF Tame

LEMMA RaiseClean == ASSUME StateInv, Calm, SyncRaise PROVE SCInv'
<1>1. CASE Save(c, TRUE)
  BY <1>1, TameSelf, TameState, LandRaise DEF SCInv
<1>2. CASE UNCHANGED engineVars
  BY <1>2, SameState, LandRaise DEF SCInv
<1> QED
  BY <1>1, <1>2 DEF SyncRaise

LEMMA EndClean == ASSUME StateInv, Calm, UNCHANGED engineVars, EndOp PROVE SCInv'
BY SameState, LandEnd DEF SCInv

\* A step to a place about which nothing more is known than that the campaign is active.
LEMMA GoClean ==
  ASSUME StateInv, Calm, UNCHANGED engineVars,
         pc' \notin MarkedPcs, pc' \in WorkPcs => Active
  PROVE  SCInv'
<1>1. c' = c
  BY DEF engineVars
<1> QED
  BY <1>1, SameState, Land DEF SCInv, Active

LEMMA CoverDoneClean ==
  ASSUME StateInv, TypeOK, Calm, CoverDone PROVE SCInv'
<1> DEFINE x == IF InRecovery THEN c ELSE [c EXCEPT !.status = "closing"]
<1>1. Tame(x)
  <2>1. CASE InRecovery
    BY <2>1, TameSelf
  <2>2. CASE ~InRecovery
    BY <2>2 DEF Tame, TypeOK, EngineTypeOK, Campaigns, ClosedStatuses
  <2> QED
    BY <2>1, <2>2
<1>2. Save(x, safe) /\ (RecoveryReturn \/ SyncReturn)
  BY DEF CoverDone
<1> HIDE DEF x
<1> QED
  BY <1>1, <1>2, ReturnClean

LEMMA CoverRaiseClean ==
  ASSUME StateInv, Calm, CoverRaise PROVE SCInv'
BY RaiseClean, ReturnClean, TameSelf DEF CoverRaise

------------------------------------------------------------------------------
(* One lemma per group of actions                                           *)

LEMMA CleanFacts ==
  ASSUME CleanInv
  PROVE  /\ TypeOK /\ VenueTypeOK /\ EngineTypeOK /\ ControlTypeOK
         /\ StateInv /\ FlatHasNoDue /\ ControlInv
         /\ c \in Campaigns /\ c.zero \in Nat /\ disk.c \in Campaigns /\ regs.pos \in Int
BY DEF CleanInv, StateInv, TypeOK, EngineTypeOK, ControlTypeOK, Campaigns, Registers

LEMMA StepClean ==
  ASSUME CleanInv, Calm, UNCHANGED engineVars, pc \in WorkPcs, pc' \notin MarkedPcs
  PROVE  SCInv'
<1>1. Active
  BY DEF CleanInv, ControlInv
<1> QED
  BY <1>1, CleanFacts, GoClean

LEMMA WorkParts ==
  /\ SyncPcs \subseteq WorkPcs /\ CoverPcs \subseteq WorkPcs /\ RecoveryPcs \subseteq WorkPcs
  /\ FinishPcs \subseteq WorkPcs /\ ConfirmPcs \subseteq WorkPcs /\ CancelPcs \subseteq WorkPcs
BY DEF WorkPcs

LEMMA AppliedTame ==
  ASSUME TypeOK PROVE Applied.status = c.status /\ Applied.zero = c.zero /\ Tame(Applied)
BY DEF Applied, Tame, TypeOK, EngineTypeOK, Campaigns

LEMMA SyncClean == ASSUME CleanInv, Sync PROVE SCInv'
<1>0. /\ TypeOK /\ VenueTypeOK /\ StateInv /\ ControlInv /\ FlatHasNoDue /\ c \in Campaigns
      /\ Applied.status = c.status /\ Applied.zero = c.zero /\ Tame(Applied)
      /\ Applied \in Campaigns
  BY CleanFacts, AppliedTame, AppliedType
<1>1. ASSUME ReadFills PROVE Calm
  BY <1>0, <1>1, CalmSame DEF ReadFills
<1>2. ASSUME UNCHANGED venueVars PROVE Calm
  BY <1>0, <1>2, CalmSame DEF venueVars
<1>3. CASE SyncOrders
  <2>1. pc \in WorkPcs
    BY <1>3, WorkParts DEF SyncOrders, At, SyncPcs
  <2>2. pc' \notin MarkedPcs
    BY <1>3 DEF SyncOrders, ReadOrders, Goto, MarkedPcs, RearmPcs, CancelAllPcs, ReadPcs,
                FlatPcs, ConfirmPcs
  <2> QED
    BY <1>2, <1>3, <2>1, <2>2, StepClean DEF SyncOrders
<1>4. CASE SyncAccount
  <2>1. Active
    BY <1>0, <1>4, WorkParts DEF SyncAccount, At, SyncPcs, ControlInv
  <2>2. pc' = "sync_fills" /\ regs'.pos = pos /\ UNCHANGED <<venueVars, engineVars>>
    BY <1>0, <1>4 DEF SyncAccount, ReadAccount, Goto, TypeOK, ControlTypeOK, Registers
  <2>3. StateInv'
    BY <1>0, <1>2, <2>2, SameState
  <2>4. regs'.pos <= 0 => due' = NoDue
    BY <1>0, <2>2 DEF FlatHasNoDue, venueVars
  <2>5. Active'
    BY <2>1, <2>2 DEF Active, engineVars
  <2>6. ControlInv'
    BY <2>2, <2>4, <2>5 DEF ControlInv, RearmPcs, CancelAllPcs, FlatPcs, ReadPcs, ConfirmPcs
  <2> QED
    BY <2>3, <2>6 DEF SCInv
<1>5. CASE SyncMismatch
  BY <1>0, <1>1, <1>5, EnterRecoveryClean DEF SyncMismatch
<1>6. CASE SyncWhileRecovery
  <2>1. Active
    BY <1>0, <1>6, WorkParts DEF SyncWhileRecovery, At, SyncPcs, ControlInv
  <2>2. /\ pc = "sync_fills" /\ pc' = "srec_entries" /\ regs' = regs /\ due' = due
        /\ c' = Applied /\ disk' = disk /\ InRecovery
    BY <1>6 DEF SyncWhileRecovery, At, Goto, Keep, ReadFills, FillsInMemory
  <2>3. StateInv'
    BY <1>0, <1>1, <1>6, <2>1, <2>2, MemoryState DEF SyncWhileRecovery
  <2>4. Active' /\ InRecovery' /\ c'.zero = c.zero
    BY <1>0, <2>1, <2>2 DEF Active, InRecovery
  <2>5. pc \in ReadPcs
    BY <2>2 DEF ReadPcs
  <2>6. c.zero >= 1 /\ regs.pos <= 0 => due = NoDue
    BY <1>0, <2>5 DEF ControlInv
  <2>7. c'.zero >= 1 /\ regs'.pos <= 0 => due' = NoDue
    BY <2>2, <2>4, <2>6
  <2>8. ControlInv'
    BY <2>2, <2>4, <2>7 DEF ControlInv, RearmPcs, CancelAllPcs, FlatPcs, ReadPcs, ConfirmPcs
  <2> QED
    BY <2>3, <2>8 DEF SCInv
<1>7. CASE SyncOpen
  <2>1. Active
    BY <1>0, <1>7, WorkParts DEF SyncOpen, At, SyncPcs, ControlInv
  <2>2. /\ c' = [Applied EXCEPT !.had = TRUE, !.status = "open"] /\ disk' = disk
        /\ pc' = "cover"
    BY <1>7 DEF SyncOpen, Goto, FillsInMemory
  <2>3. c'.status = "open" /\ Tame(c')
    BY <1>0, <2>2 DEF Tame, Campaigns, ClosedStatuses
  <2>4. StateInv'
    BY <1>0, <1>1, <1>7, <2>1, <2>2, <2>3, MemoryState DEF SyncOpen
  <2>5. Active' /\ pc' \notin MarkedPcs
    BY <2>2, <2>3 DEF Active, ActiveStatuses, MarkedPcs, RearmPcs, CancelAllPcs, ReadPcs,
                      FlatPcs, ConfirmPcs
  <2> QED
    BY <2>4, <2>5, Land DEF SCInv
<1>8. CASE SyncClosed
  <2>1. Active
    BY <1>0, <1>8, WorkParts DEF SyncClosed, At, SyncPcs, ControlInv
  <2>2. c' = Applied /\ disk' = disk /\ pc' = FinishBranch(Applied)
    BY <1>8 DEF SyncClosed, Goto, FillsInMemory
  <2>3. StateInv'
    BY <1>0, <1>1, <1>8, <2>1, <2>2, MemoryState DEF SyncClosed
  <2>4. Active'
    BY <1>0, <2>1, <2>2 DEF Active
  <2>5. CASE pc' = "fin_l1_orders"
    <3>1. ~c'.blocked
      BY <2>2, <2>5 DEF FinishBranch
    <3> QED
      BY <2>3, <2>4, <2>5, <3>1 DEF SCInv, ControlInv, CancelAllPcs, FlatPcs, ReadPcs, ConfirmPcs
  <2>6. CASE pc' \in {"fin_blocked", "fin_orders"}
    <3>1. pc' \notin MarkedPcs
      BY <2>6 DEF MarkedPcs, RearmPcs, CancelAllPcs, ReadPcs, FlatPcs, ConfirmPcs
    <3> QED
      BY <2>3, <2>4, <3>1, Land DEF SCInv
  <2> QED
    BY <2>2, <2>5, <2>6 DEF FinishBranch
<1>9. CASE SyncWaiting
  BY <1>0, <1>1, <1>9, ReturnClean DEF SyncWaiting
<1>10. CASE SyncReadFails
  BY <1>0, <1>2, <1>10, RaiseClean DEF SyncReadFails
<1> QED
  BY <1>3, <1>4, <1>5, <1>6, <1>7, <1>8, <1>9, <1>10 DEF Sync

LEMMA CoverClean == ASSUME CleanInv, Cover PROVE SCInv'
<1>0. /\ TypeOK /\ VenueTypeOK /\ StateInv /\ ControlInv /\ FlatHasNoDue
      /\ pos \in Int /\ regs.pos \in Int
  BY CleanFacts DEF VenueTypeOK
<1>1. pc \in CoverPcs
  BY DEF Cover, CoverDecide, CoverCancel, CoverPlace, CoverFilled, CoverPlaceFails, At, CoverPcs
<1>2. pc \in WorkPcs /\ Active /\ c.status \notin ClosedStatuses
  BY <1>0, <1>1, WorkParts DEF ControlInv, Active, ActiveStatuses, ClosedStatuses
<1>3. CASE CoverDecide
  <2>1. Calm
    BY <1>0, <1>3, CalmSame DEF CoverDecide, venueVars
  <2>2. CASE CoverDone
    BY <1>0, <2>1, <2>2, CoverDoneClean
  <2>3. CASE pc' \in {"cover_cancel", "cover_place"} /\ UNCHANGED engineVars
    <3>1. pc' \notin MarkedPcs
      BY <2>3 DEF MarkedPcs, RearmPcs, CancelAllPcs, ReadPcs, FlatPcs, ConfirmPcs
    <3> QED
      BY <1>2, <2>1, <2>3, <3>1, StepClean
  <2> QED
    BY <1>3, <2>2, <2>3 DEF CoverDecide, Goto
<1>4. CASE CoverCancel
  <2>1. Calm
    BY <1>0, <1>4, CalmCancel DEF CoverCancel
  <2> QED
    BY <1>0, <1>4, <2>1, CoverDoneClean, CoverRaiseClean DEF CoverCancel
<1>5. CASE CoverPlace
  BY <1>0, <1>2, <1>5, CalmTargets, CoverDoneClean DEF CoverPlace
<1>6. CASE CoverFilled
  <2>1. PICK p \in Int : SetPosition(p, due)
    BY <1>0, <1>6 DEF CoverFilled
  <2>2. Calm
    BY <1>2, <1>6, <2>1 DEF CoverFilled, SetPosition, Calm, FlatHasNoDue
  <2> QED
    BY <1>0, <1>6, <2>2, CoverDoneClean DEF CoverFilled
<1>7. CASE CoverPlaceFails
  BY <1>0, <1>2, <1>7, CalmTargets, CoverRaiseClean DEF CoverPlaceFails
<1> QED
  BY <1>3, <1>4, <1>5, <1>6, <1>7 DEF Cover

LEMMA ZeroTame ==
  ASSUME c \in Campaigns PROVE Tame([c EXCEPT !.zero = 0]) /\ [c EXCEPT !.zero = 0].status = c.status
BY DEF Tame, Campaigns

LEMMA RecoveryClean == ASSUME CleanInv, Recovery PROVE SCInv'
<1>0. /\ TypeOK /\ VenueTypeOK /\ StateInv /\ ControlInv /\ FlatHasNoDue
      /\ c \in Campaigns /\ c.zero \in Nat /\ regs \in Registers
  BY CleanFacts DEF ControlTypeOK
<1>1. pc \in RecoveryPcs
  BY DEF Recovery, RecCancel, RecOrders, RecOrdersFail, SrecEntries, SrecFlatOrders,
         SrecFlatFails, SrecFlatCancel, SrecVerify, SrecVerifyFails, At, RecoveryPcs
<1>2. pc \in WorkPcs /\ Active /\ c.status \notin ClosedStatuses
  BY <1>0, <1>1, WorkParts DEF ControlInv, Active, ActiveStatuses, ClosedStatuses
<1>3. ASSUME UNCHANGED venueVars PROVE Calm
  BY <1>0, <1>3, CalmSame DEF venueVars
\* The next place of the flat branch of _sync_recovery: nothing it knows is lost.
<1>4. ASSUME pc \in FlatPcs \/ (pc = "srec_entries" /\ regs.pos = 0), pc' \in FlatPcs,
             regs'.pos = regs.pos, due' = due, UNCHANGED engineVars, Calm
      PROVE  SCInv'
  <2>1. pc \in ReadPcs /\ regs.pos = 0 /\ InRecovery
    BY <1>0, <1>4 DEF ReadPcs, ControlInv
  <2>2. c' = c /\ InRecovery' /\ Active'
    BY <1>2, <1>4, <2>1 DEF engineVars, InRecovery, Active
  <2>3. c'.zero >= 1 /\ regs'.pos <= 0 => due' = NoDue
    BY <1>0, <1>4, <2>1, <2>2 DEF ControlInv
  <2>4. ControlInv'
    BY <1>4, <2>1, <2>2, <2>3 DEF ControlInv, RearmPcs, CancelAllPcs, FlatPcs, ConfirmPcs
  <2> QED
    BY <1>0, <1>4, <2>4, SameState DEF SCInv
<1>5. CASE RecCancel
  <2>1. Calm
    BY <1>0, <1>5, CalmCancel DEF RecCancel
  <2>2. CASE pc' = "rec_orders" /\ UNCHANGED engineVars
    <3>1. pc' \notin MarkedPcs
      BY <2>2 DEF MarkedPcs, RearmPcs, CancelAllPcs, ReadPcs, FlatPcs, ConfirmPcs
    <3> QED
      BY <1>2, <2>1, <2>2, <3>1, StepClean
  <2>3. CASE Save(c, safe) /\ RecoveryReturn
    BY <1>0, <2>1, <2>3, ReturnClean, TameSelf
  <2> QED
    BY <1>5, <2>2, <2>3 DEF RecCancel, Goto
<1>6. CASE RecOrders
  <2>1. pc' \notin MarkedPcs
    BY <1>6 DEF RecOrders, ReadOrders, Goto, MarkedPcs, RearmPcs, CancelAllPcs, ReadPcs,
                FlatPcs, ConfirmPcs
  <2> QED
    BY <1>2, <1>3, <1>6, <2>1, StepClean DEF RecOrders
<1>7. CASE RecOrdersFail
  BY <1>0, <1>3, <1>7, ReturnClean, TameSelf DEF RecOrdersFail
<1>8. CASE SrecEntries
  <2>1. Calm
    BY <1>0, <1>8, CalmCancel DEF SrecEntries
  <2>2. CASE /\ c' = [c EXCEPT !.zero = 0] /\ UNCHANGED <<safe, disk, unsaved>>
             /\ pc' = "srec_orders"
    <3>1. StateInv'
      BY <1>0, <1>2, <2>1, <2>2, ZeroTame, MemoryState
    <3>2. Active' /\ pc' \notin MarkedPcs
      BY <1>0, <1>2, <2>2, ZeroTame DEF Active, MarkedPcs, RearmPcs, CancelAllPcs, ReadPcs,
                                        FlatPcs, ConfirmPcs
    <3> QED
      BY <3>1, <3>2, Land DEF SCInv
  <2>3. CASE Save(c, safe) /\ SyncReturn
    BY <1>0, <2>1, <2>3, ReturnClean, TameSelf
  <2>4. CASE regs.pos = 0 /\ pc' = "srec_flat_orders" /\ Keep /\ UNCHANGED engineVars
    BY <1>4, <1>8, <2>1, <2>4 DEF SrecEntries, At, Keep, FlatPcs, bookVars
  <2> QED
    BY <1>8, <2>2, <2>3, <2>4 DEF SrecEntries, Goto
<1>9. CASE SrecFlatOrders
  <2>1. regs'.pos = regs.pos /\ pc = "srec_flat_orders" /\ pc' = "srec_flat_cancel"
    BY <1>0, <1>9 DEF SrecFlatOrders, At, ReadOrders, Goto, Registers
  <2> QED
    BY <1>3, <1>4, <1>9, <2>1 DEF SrecFlatOrders, FlatPcs, venueVars
<1>10. CASE SrecFlatFails
  <2>1. Calm
    <3>1. CASE UNCHANGED <<entry, target>>
      BY <1>0, <1>10, <3>1, CalmSame DEF SrecFlatFails, bookVars
    <3>2. CASE CancelFail(Entries, Targets)
      BY <1>0, <1>10, <3>2, CalmCancel DEF SrecFlatFails
    <3> QED
      BY <1>10, <3>1, <3>2 DEF SrecFlatFails
  <2> QED
    BY <1>0, <1>10, <2>1, ReturnClean, ZeroTame DEF SrecFlatFails
<1>11. CASE SrecFlatCancel
  <2>1. Calm
    BY <1>0, <1>11, CalmCancel DEF SrecFlatCancel
  <2> QED
    BY <1>4, <1>11, <2>1 DEF SrecFlatCancel, At, Goto, Keep, FlatPcs, bookVars
<1>12. CASE SrecVerify
  <2>1. pc \in FlatPcs /\ pc \in ReadPcs
    BY <1>12 DEF SrecVerify, At, FlatPcs, ReadPcs
  <2>2. InRecovery /\ regs.pos = 0 /\ (c.zero >= 1 => due = NoDue)
    BY <1>0, <2>1 DEF ControlInv
  <2>3. c.blocked
    BY <1>0, <2>2 DEF StateInv, CampaignClean, InRecovery
  <2>4. /\ Counted.blocked = c.blocked
        /\ Counted.zero >= 1 => ~Owned(View)
        /\ Counted.status = c.status
             \/ (Counted.status = "recovery_closed" /\ c.zero >= 1 /\ ~Owned(View))
    <3> DEFINE zero == IF Owned(View) THEN 0 ELSE c.zero + 1
    <3>1. zero \in Nat /\ (zero >= 1 => ~Owned(View)) /\ (zero >= 2 => c.zero >= 1)
      BY <1>0
    <3>2. zero >= RecoveryReads => zero >= 2
      BY <3>1, ReadsAssumption
    <3>3. Counted = IF zero >= RecoveryReads
                      THEN [c EXCEPT !.zero = zero, !.status = "recovery_closed", !.managed = 0]
                      ELSE [c EXCEPT !.zero = zero]
      BY DEF Counted
    <3> HIDE DEF zero
    <3> QED
      BY <1>0, <3>1, <3>2, <3>3 DEF Campaigns
  <2>5. Counted.zero >= 1 => entry = NoEntries /\ target = NoTargets
    BY <1>0, <2>4, NotOwned
  <2>6. Counted.status \in ClosedStatuses => Quiet
    BY <1>0, <1>2, <2>2, <2>4, NotOwned DEF Quiet
  <2>7. c' = Counted /\ UNCHANGED venueVars
    BY <1>12 DEF SrecVerify, Save
  <2>8. CampaignClean(c)'
    BY <2>3, <2>4, <2>5, <2>6, <2>7 DEF CampaignClean, Quiet, venueVars
  <2>9. StateInv'
    BY <1>3, <1>12, <2>7, <2>8, SavedState DEF SrecVerify, Calm
  <2> QED
    BY <1>12, <2>9, LandReturn DEF SrecVerify, SCInv
<1>13. CASE SrecVerifyFails
  BY <1>0, <1>3, <1>13, RaiseClean DEF SrecVerifyFails
<1> QED
  BY <1>5, <1>6, <1>7, <1>8, <1>9, <1>10, <1>11, <1>12, <1>13 DEF Recovery

\* All owned orders of a complete list are cancelled, and the flat account is confirmed next.
LEMMA ClearedClean ==
  ASSUME CleanInv, pc \in CancelAllPcs, CancelOk(Entries, Targets), UNCHANGED bookVars,
         UNCHANGED engineVars, pc' = "conf_account"
  PROVE  SCInv'
<1>0. VenueTypeOK /\ StateInv /\ ControlInv /\ FlatHasNoDue
  BY CleanFacts
<1>1. Calm
  BY <1>0, CalmCancel
<1>2. pc \in WorkPcs /\ Active /\ OpenEntries(entry) \subseteq Entries
  BY <1>0 DEF ControlInv, CancelAllPcs, WorkPcs, FinishPcs, CancelPcs
<1>3. entry' = [l \in Levels |-> IF l \in Entries THEN 0 ELSE entry[l]]
  BY DEF CancelOk, Gone
<1>4. \A l \in Levels : (IF l \in Entries THEN 0 ELSE entry[l]) = 0
  BY <1>0, <1>2 DEF OpenEntries, VenueTypeOK
<1>5. entry' = NoEntries
  BY <1>3, <1>4 DEF NoEntries
<1>6. Active'
  BY <1>2 DEF Active, engineVars
<1>7. ControlInv'
  BY <1>5, <1>6 DEF ControlInv, RearmPcs, CancelAllPcs, FlatPcs, ReadPcs
<1> QED
  BY <1>0, <1>1, <1>7, SameState DEF SCInv

\* All owned orders are listed, to be cancelled next.
LEMMA ListedClean ==
  ASSUME CleanInv, StateInv', Active', UNCHANGED venueVars,
         NEW p \in CancelAllPcs, ReadOrders(p)
  PROVE  SCInv'
<1>1. pc' = p /\ regs'.view = View
  BY CleanFacts DEF ReadOrders, Goto, ControlTypeOK, Registers
<1>2. OpenEntries(entry') = Entries'
  BY <1>1 DEF Entries, View, venueVars
<1> QED
  BY <1>1, <1>2 DEF SCInv, ControlInv, CancelAllPcs, RearmPcs, FlatPcs, ReadPcs, ConfirmPcs

LEMMA FinishClean == ASSUME CleanInv, Finish PROVE SCInv'
<1>0. /\ TypeOK /\ VenueTypeOK /\ StateInv /\ ControlInv /\ FlatHasNoDue
      /\ c \in Campaigns /\ c.zero \in Nat /\ regs \in Registers
  BY CleanFacts DEF ControlTypeOK
<1>1. pc \in FinishPcs
  BY DEF Finish, FinBlocked, FinL1Orders, FinL1Cancel, FinL1Fails, FinErrAccount, FinErrOrders,
         FinFlat, FinPlace, FinPlaceFails, FinOrders, FinCancel, FinCancelFails, FinReadFails,
         At, FinishPcs
<1>2. pc \in WorkPcs /\ Active /\ c.status \notin ClosedStatuses
  BY <1>0, <1>1, WorkParts DEF ControlInv, Active, ActiveStatuses, ClosedStatuses
<1>3. ASSUME UNCHANGED venueVars PROVE Calm
  BY <1>0, <1>3, CalmSame DEF venueVars
\* The L1 branch goes on: the rearm is still not blocked.
<1>4. ASSUME pc \in RearmPcs, pc' \in RearmPcs, UNCHANGED engineVars, Calm
      PROVE  SCInv'
  <2>1. Active' /\ ~c'.blocked
    BY <1>0, <1>2, <1>4 DEF ControlInv, engineVars, Active
  <2>2. ControlInv'
    BY <1>4, <2>1 DEF ControlInv, RearmPcs, CancelAllPcs, FlatPcs, ReadPcs, ConfirmPcs
  <2> QED
    BY <1>0, <1>4, <2>2, SameState DEF SCInv
<1>5. CASE FinBlocked \/ FinErrOrders
  BY <1>0, <1>3, <1>5, EnterRecoveryClean DEF FinBlocked, FinErrOrders
<1>6. CASE FinL1Orders
  BY <1>3, <1>4, <1>6 DEF FinL1Orders, At, ReadOrders, Goto, RearmPcs
<1>7. CASE FinL1Cancel
  <2>1. Calm
    BY <1>0, <1>7, CalmCancel DEF FinL1Cancel
  <2> QED
    BY <1>4, <1>7, <2>1 DEF FinL1Cancel, At, Goto, RearmPcs
<1>8. CASE FinL1Fails
  <2>1. Calm
    <3>1. CASE UNCHANGED <<entry, target>>
      BY <1>0, <1>8, <3>1, CalmSame DEF FinL1Fails, bookVars
    <3>2. CASE CancelFail(Entries \cap {1}, Targets \cap {1})
      BY <1>0, <1>8, <3>2, CalmCancel DEF FinL1Fails
    <3> QED
      BY <1>8, <3>1, <3>2 DEF FinL1Fails
  <2>2. pc' \notin MarkedPcs
    BY <1>8 DEF FinL1Fails, Goto, MarkedPcs, RearmPcs, CancelAllPcs, ReadPcs, FlatPcs, ConfirmPcs
  <2> QED
    BY <1>2, <1>8, <2>1, <2>2, StepClean DEF FinL1Fails
<1>9. CASE FinErrAccount
  <2>1. pc' \notin MarkedPcs
    BY <1>9 DEF FinErrAccount, ReadAccount, Goto, MarkedPcs, RearmPcs, CancelAllPcs, ReadPcs,
                FlatPcs, ConfirmPcs
  <2> QED
    BY <1>2, <1>3, <1>9, <2>1, StepClean DEF FinErrAccount
<1>10. CASE FinFlat
  <2>1. CASE pc' = "fin_notflat"
    <3>1. pc' \notin MarkedPcs
      BY <2>1 DEF MarkedPcs, RearmPcs, CancelAllPcs, ReadPcs, FlatPcs, ConfirmPcs
    <3> QED
      BY <1>2, <1>3, <1>10, <3>1, StepClean DEF FinFlat
  <2>2. CASE pc' \in {"fin_flat", "fin_place"}
    BY <1>3, <1>4, <1>10, <2>2 DEF FinFlat, At, RearmPcs
  <2> QED
    BY <1>10, <2>1, <2>2 DEF FinFlat, Goto, ReadAccount
<1>11. CASE FinPlace
  <2>1. ~c.blocked
    BY <1>0, <1>11 DEF FinPlace, At, ControlInv, RearmPcs
  <2>2. c.zero = 0
    BY <1>0, <2>1 DEF StateInv, CampaignClean
  <2>3. c'.status = "waiting" /\ c'.zero = 0
    BY <1>0, <1>11, <2>2 DEF FinPlace, Save, Rearmed, Campaigns
  <2>4. CampaignClean(c)'
    BY <2>3 DEF CampaignClean, ClosedStatuses
  <2>5. StateInv'
    BY <1>0, <1>11, <2>4, SavedState DEF FinPlace, FlatHasNoDue
  <2> QED
    BY <1>11, <2>5, LandReturn DEF FinPlace, SCInv
<1>12. CASE FinPlaceFails
  BY <1>0, <1>12, CalmSame, RaiseClean DEF FinPlaceFails
<1>13. CASE FinOrders
  <2>1. StateInv' /\ Active'
    BY <1>0, <1>2, <1>3, <1>13, SameState DEF FinOrders, Active, engineVars
  <2> QED
    BY <1>13, <2>1, ListedClean DEF FinOrders, CancelAllPcs
<1>14. CASE FinCancel
  BY <1>14, ClearedClean DEF FinCancel, At, Goto, CancelAllPcs
<1>15. CASE FinCancelFails
  BY <1>0, <1>15, CalmCancel, RaiseClean DEF FinCancelFails
<1>16. CASE FinReadFails
  BY <1>0, <1>3, <1>16, RaiseClean DEF FinReadFails
<1> QED
  BY <1>5, <1>6, <1>7, <1>8, <1>9, <1>10, <1>11, <1>12, <1>13, <1>14, <1>15, <1>16 DEF Finish

LEMMA ConfirmClean == ASSUME CleanInv, Confirm PROVE SCInv'
<1>0. /\ TypeOK /\ VenueTypeOK /\ StateInv /\ ControlInv /\ FlatHasNoDue
      /\ c \in Campaigns /\ c.zero \in Nat /\ regs \in Registers
  BY CleanFacts DEF ControlTypeOK
<1>1. pc \in ConfirmPcs
  BY DEF Confirm, ConfAccount, ConfDone, ConfAgain, ConfRefused, ConfReadFails, At, ConfirmPcs
<1>2. pc \in WorkPcs /\ Active /\ entry = NoEntries
  BY <1>0, <1>1, WorkParts DEF ControlInv
<1>3. ASSUME UNCHANGED venueVars PROVE Calm
  BY <1>0, <1>3, CalmSame DEF venueVars
<1>4. CASE ConfAccount
  <2>1. pc' = "conf_orders" /\ regs'.pos = pos /\ UNCHANGED <<venueVars, engineVars>>
    BY <1>0, <1>4 DEF ConfAccount, ReadAccount, Goto, Registers
  <2>2. entry' = NoEntries /\ Active' /\ (regs'.pos = 0 => due' = NoDue)
    BY <1>0, <1>2, <2>1 DEF FlatHasNoDue, venueVars, engineVars, Active
  <2>3. ControlInv'
    BY <2>1, <2>2 DEF ControlInv, RearmPcs, CancelAllPcs, FlatPcs, ReadPcs
  <2> QED
    BY <1>0, <1>3, <2>1, <2>3, SameState DEF SCInv
<1>5. CASE ConfDone
  <2>1. CleanRead /\ pc = "conf_orders"
    BY <1>5 DEF ConfDone, Enough, At
  <2>2. Quiet
    BY <1>0, <1>2, <2>1, NotOwned DEF CleanRead, Quiet, ControlInv
  <2>3. /\ c' = Confirmed /\ c'.status \in ClosedStatuses
        /\ c'.zero = c.zero /\ c'.blocked = c.blocked
    BY <1>0, <1>5 DEF ConfDone, Save, Confirmed, Campaigns, ClosedStatuses
  <2>4. CampaignClean(c)'
    BY <1>0, <1>5, <2>2, <2>3 DEF ConfDone, CampaignClean, StateInv, Quiet, venueVars, ClosedStatuses
  <2>5. StateInv'
    BY <1>3, <1>5, <2>4, SavedState DEF ConfDone, Calm
  <2> QED
    BY <1>5, <2>5, LandReturn, LandEnd DEF ConfDone, SCInv
<1>6. CASE ConfAgain
  <2>1. pc' = "conf_account" /\ entry' = NoEntries /\ Active'
    BY <1>2, <1>6 DEF ConfAgain, Goto, venueVars, engineVars, Active
  <2>2. ControlInv'
    BY <2>1 DEF ControlInv, RearmPcs, CancelAllPcs, FlatPcs, ReadPcs
  <2> QED
    BY <1>0, <1>3, <1>6, <2>2, SameState DEF ConfAgain, SCInv
<1>7. CASE ConfRefused
  BY <1>0, <1>3, <1>7, EnterRecoveryClean DEF ConfRefused
<1>8. CASE ConfReadFails
  <2>1. CASE pc' = "can_err_account" /\ UNCHANGED engineVars
    <3>1. pc' \notin MarkedPcs
      BY <2>1 DEF MarkedPcs, RearmPcs, CancelAllPcs, ReadPcs, FlatPcs, ConfirmPcs
    <3> QED
      BY <1>2, <1>3, <1>8, <2>1, <3>1, StepClean DEF ConfReadFails
  <2>2. CASE SyncRaise
    BY <1>0, <1>3, <1>8, <2>2, RaiseClean DEF ConfReadFails
  <2> QED
    BY <1>8, <2>1, <2>2 DEF ConfReadFails, Goto
<1> QED
  BY <1>4, <1>5, <1>6, <1>7, <1>8 DEF Confirm

LEMMA CancelClean == ASSUME CleanInv, Cancel PROVE SCInv'
<1>0. /\ TypeOK /\ VenueTypeOK /\ StateInv /\ ControlInv /\ FlatHasNoDue /\ c \in Campaigns
  BY CleanFacts
<1>1. pc \in CancelPcs \/ pc \in ConfirmPcs
  BY DEF Cancel, CanAccount, CanOrders, CanCancel, CanCancelFails, CanErrAccount, CanErrOrders,
         CanReadFails, At, CancelPcs
<1>2. pc \in WorkPcs /\ Active /\ c.status \notin ClosedStatuses
  BY <1>0, <1>1, WorkParts DEF ControlInv, Active, ActiveStatuses, ClosedStatuses
<1>3. ASSUME UNCHANGED venueVars PROVE Calm
  BY <1>0, <1>3, CalmSame DEF venueVars
<1>4. ASSUME pc' \in {"can_orders", "can_err_account", "can_err_orders"},
             UNCHANGED engineVars, Calm
      PROVE  SCInv'
  <2>1. pc' \notin MarkedPcs
    BY <1>4 DEF MarkedPcs, RearmPcs, CancelAllPcs, ReadPcs, FlatPcs, ConfirmPcs
  <2> QED
    BY <1>2, <1>4, <2>1, StepClean
<1>5. CASE CanAccount \/ CanErrAccount
  BY <1>3, <1>4, <1>5 DEF CanAccount, CanErrAccount, ReadAccount, Goto
<1>6. CASE CanOrders
  <2>1. CASE EnterRecovery(c, regs.pos, View)
    BY <1>0, <1>3, <1>6, <2>1, EnterRecoveryClean DEF CanOrders
  <2>2. CASE EndOp /\ UNCHANGED engineVars
    BY <1>0, <1>3, <1>6, <2>2, EndClean DEF CanOrders
  <2>3. CASE Save([c EXCEPT !.status = "canceling"], safe) /\ ReadOrders("can_cancel")
    <3>1. /\ Tame([c EXCEPT !.status = "canceling"])
          /\ [c EXCEPT !.status = "canceling"].status = "canceling"
      BY <1>0 DEF Tame, Campaigns, ClosedStatuses
    <3>2. StateInv' /\ Active'
      BY <1>0, <1>3, <1>6, <2>3, <3>1, TameState DEF CanOrders, Save, Active, ActiveStatuses
    <3> QED
      BY <1>6, <2>3, <3>2, ListedClean DEF CanOrders, CancelAllPcs
  <2> QED
    BY <1>6, <2>1, <2>2, <2>3 DEF CanOrders
<1>7. CASE CanCancel
  BY <1>7, ClearedClean DEF CanCancel, At, Goto, CancelAllPcs
<1>8. CASE CanCancelFails
  BY <1>0, <1>4, <1>8, CalmCancel DEF CanCancelFails, Goto
<1>9. CASE CanErrOrders
  BY <1>0, <1>3, <1>9, EnterRecoveryClean DEF CanErrOrders
<1>10. CASE CanReadFails
  BY <1>0, <1>3, <1>10, EndClean DEF CanReadFails
<1> QED
  BY <1>5, <1>6, <1>7, <1>8, <1>9, <1>10 DEF Cancel

LEMMA EmergencyClean == ASSUME CleanInv, Emergency PROVE SCInv'
<1>0. /\ TypeOK /\ VenueTypeOK /\ StateInv /\ ControlInv /\ FlatHasNoDue /\ c \in Campaigns
      /\ pos \in Int
  BY CleanFacts DEF VenueTypeOK
<1>1. ASSUME UNCHANGED venueVars PROVE Calm
  BY <1>0, <1>1, CalmSame DEF venueVars
<1>2. ASSUME EmgRemoveOk \/ EmgRemoveFail PROVE Calm
  <2>1. CASE EmgRemoveOk
    BY <1>0, <2>1, CalmGone DEF EmgRemoveOk, CancelOk
  <2>2. CASE EmgRemoveFail
    <3>1. CASE CancelFail(Entries, Targets)
      BY <1>0, <2>2, <3>1, CalmCancel DEF EmgRemoveFail
    <3>2. CASE UNCHANGED <<entry, target>>
      BY <1>0, <2>2, <3>2, CalmSame DEF EmgRemoveFail, bookVars
    <3> QED
      BY <2>2, <3>1, <3>2 DEF EmgRemoveFail
  <2> QED
    BY <1>2, <2>1, <2>2
<1>3. ASSUME pc' \in EmergencyPcs, UNCHANGED engineVars, Calm PROVE SCInv'
  <2>1. pc' \notin MarkedPcs /\ pc' \notin WorkPcs
    BY <1>3 DEF EmergencyPcs, MarkedPcs, RearmPcs, CancelAllPcs, ReadPcs, FlatPcs, WorkPcs,
                SyncPcs, CoverPcs, RecoveryPcs, FinishPcs, ConfirmPcs, CancelPcs
  <2> QED
    BY <1>0, <1>3, <2>1, GoClean
<1>4. ASSUME EmgSucceeds, Calm PROVE SCInv'
  <2> DEFINE x == IF Active THEN [c EXCEPT !.status = "emergency_closed", !.managed = 0] ELSE c
  <2>1. Tame(x)
    BY <1>0 DEF Tame, Campaigns, ClosedStatuses
  <2>2. Save(x, TRUE) /\ EndOp
    BY <1>4 DEF EmgSucceeds
  <2> HIDE DEF x
  <2> QED
    BY <1>0, <1>4, <2>1, <2>2, ReturnClean
<1>5. ASSUME NEW v, EmgRetry(v), Calm PROVE SCInv'
  <2>1. CASE pc' = "emg_flat" /\ UNCHANGED engineVars
    BY <1>3, <1>5, <2>1 DEF EmergencyPcs
  <2>2. CASE EnterRecovery(c, regs.pos, v)
    BY <1>0, <1>5, <2>2, EnterRecoveryClean
  <2>3. CASE Save(c, TRUE) /\ EndOp
    BY <1>0, <1>5, <2>3, ReturnClean, TameSelf
  <2> QED
    BY <1>5, <2>1, <2>2, <2>3 DEF EmgRetry, Goto
<1>6. CASE EmgOrders \/ EmgAccount \/ EmgFlat
  <2>1. pc' \in EmergencyPcs
    BY <1>6 DEF EmgOrders, EmgAccount, EmgFlat, ReadOrders, ReadAccount, Goto, EmergencyPcs
  <2> QED
    BY <1>1, <1>3, <1>6, <2>1 DEF EmgOrders, EmgAccount, EmgFlat
<1>7. CASE EmgCancel \/ EmgAgain
  <2>1. pc' \in EmergencyPcs
    BY <1>7 DEF EmgCancel, EmgAgain, Goto, EmergencyPcs
  <2> QED
    BY <1>2, <1>3, <1>7, <2>1 DEF EmgCancel, EmgAgain
<1>8. CASE EmgClose
  <2>1. Calm
    <3>1. CASE UNCHANGED <<pos, due, unseen>>
      BY <1>0, <1>8, <3>1, CalmSame DEF EmgClose
    <3>2. CASE \E p \in (IF pos > 0 THEN 0..(pos - 1) ELSE (pos + 1)..0) : SetPosition(p, due)
      <4>1. PICK p \in Int : SetPosition(p, due)
        BY <1>0, <3>2
      <4> QED
        BY <1>0, <1>8, <4>1, CalmTrade DEF EmgClose
    <3> QED
      BY <1>8, <3>1, <3>2 DEF EmgClose
  <2>2. pc' \in EmergencyPcs
    BY <1>8 DEF EmgClose, Goto, EmergencyPcs
  <2> QED
    BY <1>3, <1>8, <2>1, <2>2 DEF EmgClose
<1>9. CASE EmgFlatOrders
  <2>1. CASE pc' = "emg_again" /\ UNCHANGED engineVars
    BY <1>1, <1>3, <1>9, <2>1 DEF EmgFlatOrders, EmergencyPcs
  <2>2. CASE EmgRetry(View)
    BY <1>1, <1>5, <1>9, <2>2 DEF EmgFlatOrders
  <2> QED
    BY <1>9, <2>1, <2>2 DEF EmgFlatOrders, ReadOrders, Goto
<1>10. CASE EmgReread
  BY <1>1, <1>4, <1>5, <1>10 DEF EmgReread
<1>11. CASE EmgAgainFails
  BY <1>1, <1>2, <1>4, <1>5, <1>11 DEF EmgAgainFails
<1>12. CASE EmgReadFails
  BY <1>0, <1>1, <1>12, EndClean DEF EmgReadFails
<1> QED
  BY <1>6, <1>7, <1>8, <1>9, <1>10, <1>11, <1>12 DEF Emergency

LEMMA GlobalClean == ASSUME CleanInv, Global PROVE SCInv'
<1>0. StateInv /\ FlatHasNoDue /\ Calm
  BY CleanFacts, CalmSame DEF Global, GlobAccount, GlobOrders, GlobReadFails, venueVars
<1>1. CASE GlobAccount
  <2>1. pc' \notin MarkedPcs /\ pc' \notin WorkPcs
    BY <1>1 DEF GlobAccount, ReadAccount, Goto, MarkedPcs, RearmPcs, CancelAllPcs, ReadPcs,
                FlatPcs, WorkPcs, SyncPcs, CoverPcs, RecoveryPcs, FinishPcs, ConfirmPcs, CancelPcs
  <2> QED
    BY <1>0, <1>1, <2>1, GoClean DEF GlobAccount
<1>2. CASE GlobOrders
  BY <1>0, <1>2, ReturnClean, TameSelf DEF GlobOrders
<1>3. CASE GlobReadFails
  BY <1>0, <1>3, ReturnClean, EndClean, TameSelf DEF GlobReadFails
<1> QED
  BY <1>1, <1>2, <1>3 DEF Global

\* A ladder entry is sent for a campaign that is being created.
LEMMA PlacingClean ==
  ASSUME CleanInv, pc = "cr_place", UNCHANGED <<pos, due>>
  PROVE  /\ Active /\ c.zero = 0 /\ disk.c.zero = 0 /\ FlatHasNoDue'
         /\ c' = c => CampaignClean(c)'
         /\ disk' = disk => CampaignClean(disk.c)'
<1>1. Active /\ c.zero = 0 /\ disk.c.zero = 0 /\ StateInv
  BY DEF CleanInv, ControlInv, WorkPcs
<1>2. c.status \notin ClosedStatuses /\ disk.c.status \notin ClosedStatuses
  BY <1>1 DEF Active, ActiveStatuses, ClosedStatuses, StateInv
<1> QED
  BY <1>1, <1>2 DEF StateInv, CampaignClean, FlatHasNoDue

LEMMA CreateClean == ASSUME CleanInv, Create PROVE SCInv'
<1>0. /\ TypeOK /\ VenueTypeOK /\ StateInv /\ ControlInv /\ FlatHasNoDue /\ c \in Campaigns
  BY CleanFacts
<1>1. ASSUME UNCHANGED venueVars PROVE Calm
  BY <1>0, <1>1, CalmSame DEF venueVars
<1>2. ASSUME pc' \in {"cr_orders", "cr_leverage"}, UNCHANGED engineVars, Calm PROVE SCInv'
  <2>1. pc' \notin MarkedPcs /\ pc' \notin WorkPcs
    BY <1>2 DEF MarkedPcs, RearmPcs, CancelAllPcs, ReadPcs, FlatPcs, WorkPcs, SyncPcs, CoverPcs,
                RecoveryPcs, FinishPcs, ConfirmPcs, CancelPcs
  <2> QED
    BY <1>0, <1>2, <2>1, GoClean
<1>3. {"cr_count", "cr_flat", "crf_account", "crf_orders"} \cap MarkedPcs = {}
  BY DEF MarkedPcs, RearmPcs, CancelAllPcs, ReadPcs, FlatPcs, ConfirmPcs
<1>4. ASSUME pc \in WorkPcs, UNCHANGED engineVars, Calm,
             pc' \in {"cr_count", "cr_flat", "crf_account", "crf_orders"}
      PROVE  SCInv'
  BY <1>3, <1>4, StepClean
<1>5. CASE CrAccount \/ CrOrders \/ CrRefused
  BY <1>0, <1>1, <1>2, <1>5, EndClean DEF CrAccount, CrOrders, CrRefused, Goto
<1>6. CASE CrLeverage
  <2>1. c' = NewCampaign /\ disk'.c = NewCampaign /\ pc' = "cr_place"
    BY <1>6 DEF CrLeverage, Save, Goto
  <2>2. NewCampaign.status = "placing" /\ NewCampaign.zero = 0
    BY DEF NewCampaign, NoCampaign
  <2>3. CampaignClean(c)'
    BY <2>1, <2>2 DEF CampaignClean, ClosedStatuses
  <2>4. StateInv'
    BY <1>0, <1>6, <2>3, SavedState DEF CrLeverage, FlatHasNoDue
  <2>5. ControlInv'
    BY <2>1, <2>2 DEF ControlInv, Active, ActiveStatuses, RearmPcs, CancelAllPcs, FlatPcs,
                      ReadPcs, ConfirmPcs
  <2> QED
    BY <2>4, <2>5 DEF SCInv
<1>7. CASE CrPlace
  <2>1. c' = c /\ disk'.c = c /\ Save(c, safe) /\ UNCHANGED <<pos, due>> /\ pc = "cr_place"
    BY <1>7 DEF CrPlace, Save, At
  <2>2. StateInv'
    BY <2>1, PlacingClean, SavedState
  <2>3. Active' /\ c'.zero = 0 /\ disk'.c.zero = 0
    BY <2>1, PlacingClean DEF Active
  <2>4. CASE pc' = "cr_place"
    BY <2>2, <2>3, <2>4 DEF SCInv, ControlInv, RearmPcs, CancelAllPcs, FlatPcs, ReadPcs, ConfirmPcs
  <2>5. CASE pc' = "cr_count"
    BY <1>3, <2>2, <2>3, <2>5, Land DEF SCInv
  <2> QED
    BY <1>7, <2>4, <2>5 DEF CrPlace, Goto
<1>8. CASE CrPlaceFails
  <2>1. /\ UNCHANGED engineVars /\ UNCHANGED <<pos, due>> /\ pc = "cr_place"
        /\ pc' = "crf_account"
    BY <1>8 DEF CrPlaceFails, CreationFailure, At, Goto
  <2>2. StateInv' /\ Active'
    BY <1>0, <2>1, PlacingClean DEF StateInv, engineVars, Active
  <2> QED
    BY <1>3, <2>1, <2>2, Land DEF SCInv
<1>9. CASE CrCount
  <2>1. pc \in WorkPcs
    BY <1>9 DEF CrCount, At, WorkPcs
  <2> QED
    BY <1>1, <1>4, <1>9, <2>1 DEF CrCount, CreationFailure, Goto
<1>10. CASE CrFlat
  <2>1. pc \in WorkPcs
    BY <1>10 DEF CrFlat, At, WorkPcs
  <2>2. Tame([c EXCEPT !.status = "waiting"])
    BY <1>0 DEF Tame, Campaigns, ClosedStatuses
  <2> QED
    BY <1>0, <1>1, <1>4, <1>10, <2>1, <2>2, ReturnClean DEF CrFlat, CreationFailure, Goto
<1>11. CASE CrfAccount
  <2>1. pc \in WorkPcs
    BY <1>11 DEF CrfAccount, At, WorkPcs
  <2> QED
    BY <1>1, <1>4, <1>11, <2>1 DEF CrfAccount, ReadAccount, Goto
<1>12. CASE CrfOrders
  BY <1>0, <1>1, <1>12, EnterRecoveryClean DEF CrfOrders
<1>13. CASE CrReadFails
  <2>1. CASE EndOp /\ UNCHANGED engineVars
    BY <1>0, <1>1, <1>13, <2>1, EndClean DEF CrReadFails
  <2>2. CASE pc \in {"cr_count", "cr_flat"} /\ CreationFailure
    <3>1. pc \in WorkPcs
      BY <2>2 DEF WorkPcs
    <3> QED
      BY <1>1, <1>4, <1>13, <2>2, <3>1 DEF CrReadFails, CreationFailure, Goto
  <2>3. CASE EnterRecovery(c, regs.pos, NoView)
    BY <1>0, <1>1, <1>13, <2>3, EnterRecoveryClean DEF CrReadFails
  <2> QED
    BY <1>13, <2>1, <2>2, <2>3 DEF CrReadFails
<1> QED
  BY <1>5, <1>6, <1>7, <1>8, <1>9, <1>10, <1>11, <1>12, <1>13 DEF Create

------------------------------------------------------------------------------
(* The remaining steps, and the theorem                                     *)

\* Where an operation begins no confirming loop is under way.
LEMMA BeginPlaces ==
  /\ {"sync_orders", "glob_account", "cr_account", "emg_orders", "down"} \cap MarkedPcs = {}
  /\ {"glob_account", "cr_account", "emg_orders", "down"} \cap WorkPcs = {}
BY DEF MarkedPcs, RearmPcs, CancelAllPcs, ReadPcs, FlatPcs, WorkPcs, SyncPcs, CoverPcs,
       RecoveryPcs, FinishPcs, ConfirmPcs, CancelPcs

LEMMA StartClean == ASSUME CleanInv, StartMonitor \/ Commands \/ Restart PROVE SCInv'
<1>0. /\ TypeOK /\ StateInv /\ FlatHasNoDue /\ c \in Campaigns
  BY CleanFacts
<1>1. UNCHANGED venueVars
  BY DEF StartMonitor, Commands, Restart, StartReconcile, StartCancel, StartCreate,
         StartEmergency, Begin
<1>2. Calm
  BY <1>0, <1>1, CalmSame DEF venueVars
<1>3. ASSUME UNCHANGED engineVars,
             pc' \in {"sync_orders", "glob_account", "cr_account", "emg_orders"},
             pc' = "sync_orders" => Active
      PROVE  SCInv'
  <2>1. pc' \notin MarkedPcs /\ (pc' \in WorkPcs => Active)
    BY <1>3, BeginPlaces
  <2> QED
    BY <1>0, <1>2, <1>3, <2>1, GoClean
<1>4. CASE StartMonitor \/ StartReconcile \/ StartCancel \/ StartCreate \/ Restart
  <2>1. UNCHANGED engineVars
    BY <1>4 DEF StartMonitor, StartReconcile, StartCancel, StartCreate, Restart
  <2>2. /\ pc' \in {"sync_orders", "glob_account", "cr_account", "emg_orders"}
        /\ pc' = "sync_orders" => Active
    BY <1>4 DEF StartMonitor, StartReconcile, StartCancel, StartCreate, Restart, Begin
  <2> QED
    BY <1>3, <2>1, <2>2
<1>5. CASE StartEmergency
  <2>1. pc' = "emg_orders"
    BY <1>5 DEF StartEmergency, Begin
  <2>2. CASE Active
    <3>1. Tame([c EXCEPT !.status = "emergency", !.blocked = TRUE])
      BY <1>0 DEF Tame, Campaigns, ClosedStatuses
    <3>2. StateInv'
      BY <1>0, <1>2, <1>5, <2>2, <3>1, TameState DEF StartEmergency
    <3> QED
      BY <2>1, <3>2, BeginPlaces, Land DEF SCInv
  <2>3. CASE ~Active
    <3>1. UNCHANGED engineVars
      BY <1>5, <2>3 DEF StartEmergency
    <3> QED
      BY <1>3, <2>1, <3>1
  <2> QED
    BY <2>2, <2>3
<1> QED
  BY <1>4, <1>5 DEF Commands

LEMMA CrashClean == ASSUME CleanInv, Crash PROVE SCInv'
<1>0. /\ VenueTypeOK /\ StateInv /\ ControlInv /\ FlatHasNoDue
  BY CleanFacts
<1>1. UNCHANGED <<pos, due>> /\ c' = disk.c /\ disk' = disk /\ pc' = "down"
  BY DEF Crash
<1>2. Calm
  <2>1. CASE UNCHANGED <<entry, target>>
    BY <1>0, <1>1, <2>1, CalmSame
  <2>2. ASSUME NEW es, NEW ts, Gone(es, ts) PROVE Calm
    BY <1>0, <1>1, <2>2, CalmGone
  <2>3. CASE At("cover_place") /\ UNCHANGED entry
    <3>1. c.status \notin ClosedStatuses
      BY <1>0, <2>3, WorkParts DEF At, CoverPcs, ControlInv, Active, ActiveStatuses, ClosedStatuses
    <3> QED
      BY <1>0, <1>1, <2>3, <3>1, CalmTargets
  <2> QED
    BY <2>1, <2>2, <2>3 DEF Crash, CallInFlight
<1>3. CampaignClean(disk.c)'
  BY <1>0, <1>1, <1>2 DEF StateInv, CampaignClean, Calm
<1>4. StateInv'
  BY <1>1, <1>2, <1>3 DEF StateInv, CampaignClean, Calm
<1> QED
  BY <1>1, <1>4, BeginPlaces, Land DEF SCInv

LEMMA VenueClean == ASSUME CleanInv, VenueMoves PROVE SCInv'
<1>0. VenueTypeOK /\ StateInv /\ ControlInv /\ FlatHasNoDue
  BY CleanFacts
<1>1. Calm
  BY <1>0, CalmVenue DEF VenueMoves
<1>2. UNCHANGED <<engineVars, control>>
  BY DEF VenueMoves
<1>3. c' = c /\ disk' = disk /\ pc' = pc /\ regs' = regs
  BY <1>2 DEF engineVars, control
<1>4. StateInv'
  BY <1>0, <1>1, <1>2, SameState
<1>5. Active' = Active /\ InRecovery' = InRecovery /\ Entries' = Entries
  BY <1>3 DEF Active, InRecovery, Entries, OpenEntries
<1>6. c.zero >= 1 => entry = NoEntries
  BY <1>0 DEF StateInv, CampaignClean
<1>7. /\ pc \in WorkPcs => Active'
      /\ pc \in FlatPcs \cup {"srec_entries"} => InRecovery'
      /\ pc \in CancelAllPcs => OpenEntries(entry') \subseteq Entries'
  BY <1>0, <1>1, <1>5 DEF ControlInv, Calm
<1>8. /\ pc \in ConfirmPcs => entry' = NoEntries
      /\ pc = "conf_orders" /\ regs.pos = 0 => due' = NoDue
      /\ pc \in ReadPcs /\ c.zero >= 1 /\ regs.pos <= 0 => due' = NoDue
  <2>1. pc = "conf_orders" => pc \in ConfirmPcs
    BY DEF ConfirmPcs
  <2> QED
    BY <1>0, <1>1, <1>6, <2>1 DEF ControlInv, Calm
<1>9. ControlInv'
  BY <1>0, <1>3, <1>7, <1>8 DEF ControlInv, OpenEntries
<1> QED
  BY <1>4, <1>9 DEF SCInv

LEMMA CleanInit == Init => CleanInv
<1> SUFFICES ASSUME Init PROVE CleanInv
  OBVIOUS
<1>1. TypeOK
  BY TypeInit
<1>2. c = NoCampaign /\ disk.c = NoCampaign /\ pc = "down" /\ due = NoDue
  BY DEF Init, VenueInit
<1>3. StateInv
  BY <1>2 DEF StateInv, CampaignClean, FlatHasNoDue, NoCampaign, ClosedStatuses
<1>4. ControlInv
  BY <1>2, BeginPlaces DEF ControlInv, MarkedPcs, ReadPcs, FlatPcs, ConfirmPcs
<1> QED
  BY <1>1, <1>3, <1>4 DEF CleanInv

LEMMA CleanStep == CleanInv /\ [Next]_vars => CleanInv'
<1> SUFFICES ASSUME CleanInv, [Next]_vars PROVE CleanInv'
  OBVIOUS
<1>1. TypeOK'
  BY TypeStep DEF CleanInv
<1>2. CASE UNCHANGED vars
  <2>1. Calm
    BY <1>2, CleanFacts, CalmSame DEF vars, venueVars
  <2>2. UNCHANGED <<entry, due>> /\ UNCHANGED <<engineVars, c, pc, regs>>
    BY <1>2 DEF vars, venueVars, engineVars, control
  <2>3. StateInv'
    BY <2>1, <2>2, CleanFacts, SameState
  <2>4. Active' = Active /\ InRecovery' = InRecovery /\ Entries' = Entries
    BY <2>2 DEF Active, InRecovery, Entries, OpenEntries
  <2>5. ControlInv'
    BY <1>2, <2>2, <2>4, CleanFacts DEF ControlInv, OpenEntries, vars, engineVars
  <2> QED
    BY <1>1, <2>3, <2>5 DEF CleanInv
<1>3. CASE Next
  <2>1. SCInv'
    BY <1>3, SyncClean, CoverClean, RecoveryClean, FinishClean, ConfirmClean, CancelClean,
       EmergencyClean, GlobalClean, CreateClean, StartClean, CrashClean, VenueClean
       DEF Next, Thread
  <2> QED
    BY <1>1, <2>1 DEF CleanInv, SCInv
<1> QED
  BY <1>2, <1>3

\* cancel_waiting_campaign, _finish_cycle and _sync_recovery report a campaign canceled,
\* completed or recovery_closed only when the venue has none of its orders left and none
\* of its native TPs can still appear; and so it stays, through crashes and restarts.
THEOREM ClosedClean == Spec => []ClosedIsClean
<1>1. CleanInv => ClosedIsClean
  BY DEF CleanInv, StateInv, CampaignClean, ClosedIsClean
<1> QED
  BY <1>1, CleanInit, CleanStep, PTL DEF Spec

------------------------------------------------------------------------------
(***************************************************************************)
(* When the engine may send a buy order, when SAFE MODE may end, and that  *)
(* the engine implements the contract, for every number of levels, lot and *)
(* bound.                                                                  *)
(*                                                                         *)
(* None of the three is about one state.  Each follows from what is known  *)
(* where the engine is: OrderControl says it place by place, OrderState    *)
(* says how the campaign in memory and the one on disk may differ, so that *)
(* a crash does not undo it.                                               *)
(***************************************************************************)

ActiveCampaign(x) == x.status \in ActiveStatuses
Held(x)           == x.status \in {"recovery", "emergency"}

\* Places of a cycle that is being closed, and of a campaign not yet created.
ClearPcs == CancelAllPcs \cup ConfirmPcs \cup {"fin_orders"}
OpenPcs  == {"cr_account", "cr_orders", "cr_leverage"}

OrderState ==
  /\ safe = disk.safe
  /\ InRecovery \/ disk.c.status = "recovery" => safe
  /\ disk.c.blocked => c.blocked
  /\ ActiveCampaign(disk.c) = Active
  /\ ~Active => disk.c.status = c.status /\ entry = NoEntries
  /\ Held(c) => Held(disk.c)
  /\ Held(disk.c) => disk.c.blocked
  /\ \A l \in Levels : entry[l] <= Lot

OrderControl ==
  /\ pc \in CoverPcs => c.status \in {"open", "recovery"}
  /\ pc \in RecoveryPcs => InRecovery
  /\ pc \in EmergencyPcs => ~Active \/ c.status = "emergency"
  /\ pc \in {"emg_again", "emg_reread"} => OpenEntries(entry) \subseteq Entries
  /\ pc \in ClearPcs => disk.c.blocked = c.blocked
  /\ pc \in RearmPcs => c.managed = 0
  /\ pc = "fin_l1_cancel" => (entry[1] > 0 => 1 \in Entries)
  /\ pc \in {"fin_flat", "fin_place"} => entry[1] = 0
  /\ pc = "fin_place" \/ (pc = "fin_flat" /\ regs.k >= 1) => due[1] = 0
  /\ pc \in OpenPcs => ~Active
  /\ pc \in {"cr_orders", "cr_leverage"} => due = NoDue
  /\ pc = "cr_leverage" => target = NoTargets
  /\ pc = "cr_place" => /\ c.status = "placing" /\ ~c.blocked
                        /\ regs.k \in Levels
                        /\ \A l \in Levels : l >= regs.k => entry[l] = 0

OrderInv == CleanInv /\ OrderState /\ OrderControl

\* Places about which OrderControl says something.
OrderPcs == CoverPcs \cup RecoveryPcs \cup EmergencyPcs \cup ClearPcs \cup RearmPcs
              \cup OpenPcs \cup {"cr_place"}

LEMMA OrderFacts ==
  ASSUME OrderInv
  PROVE  /\ CleanInv /\ TypeOK /\ VenueTypeOK /\ EngineTypeOK /\ ControlTypeOK
         /\ StateInv /\ ControlInv /\ FlatHasNoDue /\ OrderState /\ OrderControl
         /\ c \in Campaigns /\ disk.c \in Campaigns /\ safe \in BOOLEAN
         /\ regs \in Registers /\ regs.pos \in Int /\ regs.k \in Nat /\ pos \in Int
         /\ entry \in [Levels -> Nat] /\ target \in [TargetLevels -> Nat]
BY CleanFacts DEF OrderInv, CleanInv, TypeOK, VenueTypeOK, EngineTypeOK, ControlTypeOK, Registers

------------------------------------------------------------------------------
(* The book                                                                 *)

\* No level gets a larger entry.
Shrink == \A l \in Levels : entry'[l] <= entry[l]

LEMMA ShrinkSame == ASSUME VenueTypeOK, UNCHANGED entry PROVE Shrink
BY DEF VenueTypeOK, Shrink

LEMMA ShrinkGone == ASSUME VenueTypeOK, NEW es, NEW ts, Gone(es, ts) PROVE Shrink
BY DEF VenueTypeOK, Shrink, Gone

LEMMA ShrinkCancel ==
  ASSUME VenueTypeOK, NEW es, NEW ts, CancelOk(es, ts) \/ CancelFail(es, ts) PROVE Shrink
BY ShrinkGone DEF CancelOk, CancelFail

LEMMA ShrinkVenue == ASSUME VenueTypeOK, VenueNext PROVE Shrink
<1>0. entry \in [Levels -> Nat]
  BY DEF VenueTypeOK
<1>1. ASSUME NEW l \in Levels, EntryFill(l) PROVE Shrink
  <2>1. entry' = [entry EXCEPT ![l] = entry[l] - 1]
    BY <1>1 DEF EntryFill
  <2> QED
    BY <1>0, <2>1 DEF Shrink
<1>2. CASE ManualCancel
  BY <1>0, <1>2 DEF ManualCancel, Shrink
<1>3. CASE UNCHANGED entry
  BY <1>3, ShrinkSame
<1> QED
  BY <1>1, <1>2, <1>3 DEF VenueNext, ListTarget, TargetFill, DropReduceOnly, StrayBuyFill,
                          StraySellFill, ManualTrade, ManualOrder

LEMMA ShrinkFacts ==
  ASSUME VenueTypeOK, VenueTypeOK', Shrink
  PROVE  /\ entry = NoEntries => entry' = NoEntries
         /\ OpenEntries(entry') \subseteq OpenEntries(entry)
         /\ \A l \in Levels : entry[l] = 0 => entry'[l] = 0
         /\ (\A l \in Levels : entry[l] <= Lot) => \A l \in Levels : entry'[l] <= Lot
<1>0. entry \in [Levels -> Nat] /\ entry' \in [Levels -> Nat]
  BY DEF VenueTypeOK
<1>1. \A l \in Levels : entry[l] = 0 => entry'[l] = 0
  BY <1>0 DEF Shrink
<1>2. entry = NoEntries => entry' = NoEntries
  BY <1>0, <1>1 DEF NoEntries
<1>3. OpenEntries(entry') \subseteq OpenEntries(entry)
  BY <1>0 DEF Shrink, OpenEntries
<1>4. (\A l \in Levels : entry[l] <= Lot) => \A l \in Levels : entry'[l] <= Lot
  BY <1>0, LotAssumption DEF Shrink
<1> QED
  BY <1>1, <1>2, <1>3, <1>4

------------------------------------------------------------------------------
(* The campaign in memory and on disk                                       *)

\* What may be saved: a held campaign is blocked, recovery is in SAFE MODE, and a campaign
\* ends only on a book without entries.
MaySave(x, m) ==
  /\ Held(x) => x.blocked
  /\ x.status = "recovery" => m
  /\ ~ActiveCampaign(x) => ~Active \/ entry' = NoEntries

LEMMA SavedOrder ==
  ASSUME OrderInv, VenueTypeOK', Shrink, NEW x, NEW m, Save(x, m), MaySave(x, m)
  PROVE  OrderState'
<1>1. c' = x /\ safe' = m /\ disk' = [c |-> x, safe |-> m]
  BY DEF Save
<1>2. ~Active => entry' = NoEntries
  BY OrderFacts, ShrinkFacts DEF OrderState
<1>3. \A l \in Levels : entry'[l] <= Lot
  BY OrderFacts, ShrinkFacts DEF OrderState
<1> QED
  BY <1>1, <1>2, <1>3 DEF OrderState, MaySave, Active, InRecovery, ActiveCampaign, Held

LEMMA SameOrder ==
  ASSUME OrderInv, VenueTypeOK', Shrink, UNCHANGED engineVars PROVE OrderState'
<1>1. c' = c /\ safe' = safe /\ disk' = disk
  BY DEF engineVars
<1>2. ~Active => entry' = NoEntries
  BY OrderFacts, ShrinkFacts DEF OrderState
<1>3. \A l \in Levels : entry'[l] <= Lot
  BY OrderFacts, ShrinkFacts DEF OrderState
<1> QED
  BY <1>1, <1>2, <1>3, OrderFacts DEF OrderState, Active, InRecovery, ActiveCampaign, Held

\* A change that is in memory only: the campaign stays active.
LEMMA MemoryOrder ==
  ASSUME OrderInv, VenueTypeOK', Shrink, UNCHANGED <<safe, disk>>, Active,
         ActiveCampaign(c'), c.blocked => c'.blocked, Held(c') => Held(c),
         c'.status = "recovery" => InRecovery
  PROVE  OrderState'
<1>1. \A l \in Levels : entry'[l] <= Lot
  BY OrderFacts, ShrinkFacts DEF OrderState
<1> QED
  BY <1>1, OrderFacts DEF OrderState, Active, InRecovery, ActiveCampaign, Held

\* The campaign as it is, and with another status that is not held.
LEMMA SaveSelf == ASSUME OrderInv, NEW m, m = TRUE \/ m = safe PROVE MaySave(c, m)
BY OrderFacts DEF OrderState, MaySave, Held, InRecovery, Active, ActiveCampaign

LEMMA SaveStatus ==
  ASSUME OrderInv, NEW s \in ActiveStatuses \ {"recovery", "emergency"}, NEW m
  PROVE  MaySave([c EXCEPT !.status = s], m)
<1>1. [c EXCEPT !.status = s].status = s /\ [c EXCEPT !.status = s].blocked = c.blocked
  BY OrderFacts DEF Campaigns
<1> QED
  BY <1>1 DEF MaySave, Held, ActiveCampaign

LEMMA SaveApplied ==
  ASSUME OrderInv
  PROVE  /\ Applied.status = c.status
         /\ c.blocked => Applied.blocked
         /\ Held(Applied) => Applied.blocked
         /\ MaySave(Applied, safe)
<1>1. Applied.status = c.status /\ (c.blocked => Applied.blocked)
  BY OrderFacts, AppliedTame DEF Tame
<1> QED
  BY <1>1, OrderFacts DEF OrderState, MaySave, Held, InRecovery, Active, ActiveCampaign

------------------------------------------------------------------------------
(* The places                                                               *)

LEMMA OrderLand == ASSUME pc' \notin OrderPcs PROVE OrderControl'
<1>1. pc' \notin {"emg_again", "emg_reread", "fin_l1_cancel", "fin_flat", "fin_place",
                  "cr_orders", "cr_leverage", "cr_place"}
  BY DEF OrderPcs, EmergencyPcs, RearmPcs, OpenPcs
<1> QED
  BY <1>1 DEF OrderControl, OrderPcs

LEMMA ReturnPlaces ==
  {"idle", "down", "glob_account", "glob_orders", "can_account", "can_orders", "can_err_account",
   "can_err_orders", "sync_orders", "sync_account", "sync_fills", "fin_blocked",
   "fin_err_account", "fin_err_orders", "fin_notflat", "cr_count", "cr_flat", "crf_account",
   "crf_orders"} \cap OrderPcs = {}
BY DEF OrderPcs, CoverPcs, RecoveryPcs, EmergencyPcs, ClearPcs, CancelAllPcs, ConfirmPcs,
       RearmPcs, OpenPcs

LEMMA OrderReturn == ASSUME SyncReturn \/ RecoveryReturn \/ EndOp PROVE OrderControl'
<1>1. pc' \in {"idle", "glob_account", "can_account"}
  BY DEF SyncReturn, RecoveryReturn, EndOp, Goto
<1> QED
  BY <1>1, ReturnPlaces, OrderLand

LEMMA OrderRaise ==
  ASSUME OrderInv, VenueTypeOK', Shrink, SyncRaise
  PROVE  OrderState' /\ OrderControl'
<1>1. OrderControl'
  <2>1. pc' \in {"idle", "glob_account"}
    BY DEF SyncRaise, EndOp, Goto
  <2> QED
    BY <2>1, ReturnPlaces, OrderLand
<1>2. CASE Save(c, TRUE)
  BY <1>1, <1>2, SaveSelf, SavedOrder
<1>3. CASE UNCHANGED engineVars
  BY <1>1, <1>3, SameOrder
<1> QED
  BY <1>2, <1>3 DEF SyncRaise

LEMMA OrderBack ==
  ASSUME OrderInv, VenueTypeOK', Shrink, NEW x, NEW m, Save(x, m), MaySave(x, m),
         SyncReturn \/ RecoveryReturn \/ EndOp
  PROVE  OrderState' /\ OrderControl'
BY SavedOrder, OrderReturn

LEMMA OrderRecovery ==
  ASSUME OrderInv, VenueTypeOK', Shrink, NEW x \in Campaigns, NEW p, NEW v, EnterRecovery(x, p, v)
  PROVE  OrderState' /\ OrderControl'
<1> DEFINE y == [x EXCEPT !.status = "recovery", !.blocked = TRUE, !.zero = 0]
<1>1. y.status = "recovery" /\ y.blocked = TRUE
  BY DEF Campaigns
<1>2. Save(y, TRUE) /\ pc' = "rec_cancel"
  BY DEF EnterRecovery, Goto
<1> HIDE DEF y
<1>3. MaySave(y, TRUE)
  BY <1>1 DEF MaySave, ActiveCampaign, ActiveStatuses
<1>4. OrderState'
  BY <1>2, <1>3, SavedOrder
<1>5. InRecovery'
  BY <1>1, <1>2 DEF Save, InRecovery
<1>6. OrderControl'
  BY <1>2, <1>5 DEF OrderControl, CoverPcs, EmergencyPcs, ClearPcs, CancelAllPcs, ConfirmPcs,
                    RearmPcs, OpenPcs
<1> QED
  BY <1>4, <1>6

\* A step to a place OrderControl says nothing about.
LEMMA OrderGo ==
  ASSUME OrderInv, VenueTypeOK', Shrink, UNCHANGED engineVars, pc' \notin OrderPcs
  PROVE  OrderState' /\ OrderControl'
BY SameOrder, OrderLand

------------------------------------------------------------------------------
(* One lemma per group of actions                                           *)

LEMMA SyncOrder ==
  ASSUME OrderInv, VenueTypeOK', Sync PROVE OrderState' /\ OrderControl'
<1>0. /\ VenueTypeOK /\ EngineTypeOK /\ Applied \in Campaigns /\ OrderState /\ OrderControl
      /\ c \in Campaigns /\ regs \in Registers /\ ControlInv
  BY OrderFacts, AppliedType
<1>1. ASSUME ReadFills \/ UNCHANGED venueVars PROVE Shrink
  BY <1>0, <1>1, ShrinkSame DEF ReadFills, venueVars
<1>2. CASE SyncOrders
  <2>1. pc' = "sync_account" /\ UNCHANGED <<venueVars, engineVars>>
    BY <1>2 DEF SyncOrders, ReadOrders, Goto
  <2> QED
    BY <1>1, <2>1, ReturnPlaces, OrderGo
<1>3. CASE SyncAccount
  <2>1. pc' = "sync_fills" /\ UNCHANGED <<venueVars, engineVars>>
    BY <1>3 DEF SyncAccount, ReadAccount, Goto
  <2> QED
    BY <1>1, <2>1, ReturnPlaces, OrderGo
<1>4. ASSUME At("sync_fills") PROVE Active
  BY <1>0, <1>4, WorkParts DEF At, SyncPcs, ControlInv
<1>5. CASE SyncMismatch
  BY <1>0, <1>1, <1>5, OrderRecovery DEF SyncMismatch
<1>6. CASE SyncWhileRecovery
  <2>1. c' = Applied /\ UNCHANGED <<safe, disk>> /\ pc' = "srec_entries" /\ InRecovery
    BY <1>6 DEF SyncWhileRecovery, FillsInMemory, Goto
  <2>2. Active /\ ActiveCampaign(c') /\ Shrink
    BY <1>1, <1>4, <1>6, <2>1, SaveApplied DEF SyncWhileRecovery, Active, ActiveCampaign
  <2>3. OrderState'
    BY <2>1, <2>2, SaveApplied, MemoryOrder DEF Held, InRecovery
  <2>4. InRecovery'
    BY <2>1, SaveApplied DEF InRecovery
  <2>5. OrderControl'
    BY <2>1, <2>4 DEF OrderControl, CoverPcs, EmergencyPcs, ClearPcs, CancelAllPcs, ConfirmPcs,
                      RearmPcs, OpenPcs
  <2> QED
    BY <2>3, <2>5
<1>7. CASE SyncOpen
  <2>1. /\ c' = [Applied EXCEPT !.had = TRUE, !.status = "open"]
        /\ UNCHANGED <<safe, disk>> /\ pc' = "cover"
    BY <1>7 DEF SyncOpen, FillsInMemory, Goto
  <2>2. c'.status = "open" /\ c'.blocked = Applied.blocked
    BY <1>0, <2>1 DEF Campaigns
  <2>3. Active /\ ActiveCampaign(c') /\ Shrink
    BY <1>1, <1>4, <1>7, <2>2 DEF SyncOpen, ActiveCampaign, ActiveStatuses
  <2>4. OrderState'
    BY <2>1, <2>2, <2>3, SaveApplied, MemoryOrder DEF Held
  <2>5. OrderControl'
    BY <2>1, <2>2 DEF OrderControl, RecoveryPcs, EmergencyPcs, ClearPcs, CancelAllPcs, ConfirmPcs,
                      RearmPcs, OpenPcs
  <2> QED
    BY <2>4, <2>5
<1>8. CASE SyncClosed
  <2>1. /\ c' = Applied /\ UNCHANGED <<safe, disk>> /\ pc' = FinishBranch(Applied)
        /\ Applied.managed = 0
    BY <1>0, <1>8 DEF SyncClosed, FillsInMemory, Goto, Unexplained
  <2>2. Active /\ ActiveCampaign(c') /\ Shrink
    BY <1>1, <1>4, <1>8, <2>1, SaveApplied DEF SyncClosed, Active, ActiveCampaign
  <2>3. OrderState'
    BY <2>1, <2>2, SaveApplied, MemoryOrder DEF Held, InRecovery
  <2>4. CASE pc' = "fin_blocked"
    BY <2>3, <2>4, ReturnPlaces, OrderLand
  <2>5. CASE pc' = "fin_l1_orders"
    BY <2>1, <2>3, <2>5 DEF OrderControl, CoverPcs, RecoveryPcs, EmergencyPcs, ClearPcs,
                            CancelAllPcs, ConfirmPcs, OpenPcs
  <2>6. CASE pc' = "fin_orders"
    <3>1. Applied.blocked = FALSE
      BY <1>0, <2>1, <2>6 DEF FinishBranch, Campaigns
    <3>2. disk.c.blocked = FALSE
      BY <1>0, <3>1, SaveApplied, OrderFacts DEF OrderState, Campaigns
    <3>3. disk'.c.blocked = c'.blocked
      BY <2>1, <3>1, <3>2
    <3>4. OrderControl'
      BY <2>6, <3>3 DEF OrderControl, CoverPcs, RecoveryPcs, EmergencyPcs, RearmPcs, OpenPcs
    <3> QED
      BY <2>3, <3>4
  <2> QED
    BY <2>1, <2>4, <2>5, <2>6 DEF FinishBranch
<1>9. CASE SyncWaiting
  BY <1>1, <1>9, SaveApplied, OrderBack DEF SyncWaiting
<1>10. CASE SyncReadFails
  BY <1>1, <1>10, OrderRaise DEF SyncReadFails
<1> QED
  BY <1>2, <1>3, <1>5, <1>6, <1>7, <1>8, <1>9, <1>10 DEF Sync

\* Coverage begins and ends in a campaign that is open or in recovery.
LEMMA OrderCovered ==
  ASSUME OrderInv, VenueTypeOK', Shrink, CoverDone PROVE OrderState' /\ OrderControl'
<1> DEFINE x == IF InRecovery THEN c ELSE [c EXCEPT !.status = "closing"]
<1>1. MaySave(x, safe)
  <2>1. "closing" \in ActiveStatuses \ {"recovery", "emergency"}
    BY DEF ActiveStatuses
  <2> QED
    BY <2>1, SaveSelf, SaveStatus
<1>2. Save(x, safe) /\ (RecoveryReturn \/ SyncReturn)
  BY DEF CoverDone
<1> HIDE DEF x
<1> QED
  BY <1>1, <1>2, OrderBack

LEMMA OrderUncovered ==
  ASSUME OrderInv, VenueTypeOK', Shrink, CoverRaise PROVE OrderState' /\ OrderControl'
<1>1. CASE InRecovery
  BY <1>1, SaveSelf, OrderBack DEF CoverRaise
<1>2. CASE ~InRecovery
  BY <1>2, OrderRaise DEF CoverRaise
<1> QED
  BY <1>1, <1>2

LEMMA CoverOrder ==
  ASSUME OrderInv, VenueTypeOK', Cover PROVE OrderState' /\ OrderControl'
<1>0. VenueTypeOK /\ OrderControl
  BY OrderFacts
<1>1. CASE CoverDecide
  <2>1. Shrink
    BY <1>0, <1>1, ShrinkSame DEF CoverDecide, venueVars
  <2>2. CASE CoverDone
    BY <2>1, <2>2, OrderCovered
  <2>3. CASE pc' \in {"cover_cancel", "cover_place"} /\ UNCHANGED engineVars
    <3>1. c.status \in {"open", "recovery"}
      BY <1>0, <1>1 DEF CoverDecide, At, OrderControl, CoverPcs
    <3>2. c'.status \in {"open", "recovery"}
      BY <2>3, <3>1 DEF engineVars
    <3>3. OrderControl'
      BY <2>3, <3>2 DEF OrderControl, RecoveryPcs, EmergencyPcs, ClearPcs, CancelAllPcs,
                        ConfirmPcs, RearmPcs, OpenPcs
    <3> QED
      BY <2>1, <2>3, <3>3, SameOrder
  <2> QED
    BY <1>1, <2>2, <2>3 DEF CoverDecide, Goto
<1>2. CASE CoverCancel
  <2>1. Shrink
    BY <1>0, <1>2, ShrinkCancel DEF CoverCancel
  <2> QED
    BY <1>2, <2>1, OrderCovered, OrderUncovered DEF CoverCancel
<1>3. CASE CoverPlace \/ CoverFilled
  <2>1. Shrink
    BY <1>0, <1>3, ShrinkSame DEF CoverPlace, CoverFilled
  <2> QED
    BY <1>3, <2>1, OrderCovered DEF CoverPlace, CoverFilled
<1>4. CASE CoverPlaceFails
  <2>1. Shrink
    BY <1>0, <1>4, ShrinkSame DEF CoverPlaceFails
  <2> QED
    BY <1>4, <2>1, OrderUncovered DEF CoverPlaceFails
<1> QED
  BY <1>1, <1>2, <1>3, <1>4 DEF Cover

LEMMA RecoveryOrder ==
  ASSUME OrderInv, VenueTypeOK', Recovery PROVE OrderState' /\ OrderControl'
<1>0. /\ VenueTypeOK /\ OrderState /\ OrderControl /\ c \in Campaigns /\ StateInv
  BY OrderFacts
<1>1. pc \in RecoveryPcs
  BY DEF Recovery, RecCancel, RecOrders, RecOrdersFail, SrecEntries, SrecFlatOrders,
         SrecFlatFails, SrecFlatCancel, SrecVerify, SrecVerifyFails, At, RecoveryPcs
<1>2. InRecovery /\ safe /\ Active /\ c.blocked
  BY <1>0, <1>1 DEF OrderControl, OrderState, StateInv, CampaignClean, InRecovery, Active,
                    ActiveStatuses
<1>3. Shrink
  <2>1. CASE UNCHANGED entry
    BY <1>0, <2>1, ShrinkSame
  <2>2. ASSUME NEW es, NEW ts, CancelOk(es, ts) \/ CancelFail(es, ts) PROVE Shrink
    BY <1>0, <2>2, ShrinkCancel
  <2> QED
    BY <2>1, <2>2 DEF Recovery, RecCancel, RecOrders, RecOrdersFail, SrecEntries, SrecFlatOrders,
         SrecFlatFails, SrecFlatCancel, SrecVerify, SrecVerifyFails, venueVars
\* Recovery goes on.
<1>4. ASSUME UNCHANGED engineVars, pc' \in RecoveryPcs \cup {"cover"}
      PROVE  OrderState' /\ OrderControl'
  <2>1. c'.status = "recovery" /\ InRecovery'
    BY <1>2, <1>4 DEF engineVars, InRecovery
  <2>2. OrderControl'
    BY <1>4, <2>1 DEF OrderControl, RecoveryPcs, EmergencyPcs, ClearPcs, CancelAllPcs,
                      ConfirmPcs, RearmPcs, OpenPcs
  <2> QED
    BY <1>3, <1>4, <2>2, SameOrder
<1>5. ASSUME Save(c, safe), SyncReturn \/ RecoveryReturn PROVE OrderState' /\ OrderControl'
  BY <1>3, <1>5, SaveSelf, OrderBack
<1>6. ASSUME NEW x, Save(x, safe), x.blocked = c.blocked, SyncReturn,
             ActiveCampaign(x) \/ entry' = NoEntries
      PROVE  OrderState' /\ OrderControl'
  <2>1. MaySave(x, safe)
    BY <1>2, <1>6 DEF MaySave
  <2> QED
    BY <1>3, <1>6, <2>1, OrderBack
<1>7. CASE RecCancel
  BY <1>4, <1>5, <1>7 DEF RecCancel, Goto, RecoveryPcs
<1>8. CASE RecOrders
  BY <1>4, <1>8 DEF RecOrders, ReadOrders, Goto
<1>9. CASE RecOrdersFail
  BY <1>5, <1>9 DEF RecOrdersFail
<1>10. CASE SrecEntries
  <2>1. CASE c' = [c EXCEPT !.zero = 0] /\ UNCHANGED <<safe, disk>> /\ pc' = "srec_orders"
    <3>1. c'.status = c.status /\ c'.blocked = c.blocked
      BY <1>0, <2>1 DEF Campaigns
    <3>2. OrderState'
      BY <1>2, <1>3, <2>1, <3>1, MemoryOrder DEF Active, ActiveCampaign, Held, InRecovery
    <3>3. InRecovery'
      BY <1>2, <3>1 DEF InRecovery
    <3>4. OrderControl'
      BY <2>1, <3>3 DEF OrderControl, CoverPcs, EmergencyPcs, ClearPcs, CancelAllPcs, ConfirmPcs,
                        RearmPcs, OpenPcs
    <3> QED
      BY <3>2, <3>4
  <2> QED
    BY <1>4, <1>5, <1>10, <2>1 DEF SrecEntries, Goto, RecoveryPcs
<1>11. CASE SrecFlatOrders \/ SrecFlatCancel
  BY <1>4, <1>11 DEF SrecFlatOrders, SrecFlatCancel, ReadOrders, Goto, RecoveryPcs
<1>12. CASE SrecFlatFails
  <2>1. /\ [c EXCEPT !.zero = 0].status = c.status
        /\ [c EXCEPT !.zero = 0].blocked = c.blocked
    BY <1>0 DEF Campaigns
  <2> QED
    BY <1>2, <1>6, <1>12, <2>1 DEF SrecFlatFails, ActiveCampaign, Active
<1>13. CASE SrecVerify
  <2>1. Counted.blocked = c.blocked /\ (ActiveCampaign(Counted) \/ ~Owned(View))
    <3> DEFINE zero == IF Owned(View) THEN 0 ELSE c.zero + 1
    <3>1. zero >= RecoveryReads => ~Owned(View)
      BY ReadsAssumption
    <3>2. Counted = IF zero >= RecoveryReads
                      THEN [c EXCEPT !.zero = zero, !.status = "recovery_closed", !.managed = 0]
                      ELSE [c EXCEPT !.zero = zero]
      BY DEF Counted
    <3> HIDE DEF zero
    <3> QED
      BY <1>0, <1>2, <3>1, <3>2 DEF Campaigns, ActiveCampaign, Active
  <2>2. ActiveCampaign(Counted) \/ entry' = NoEntries
    BY <1>0, <1>13, <2>1, NotOwned DEF SrecVerify, venueVars
  <2> QED
    BY <1>6, <1>13, <2>1, <2>2 DEF SrecVerify
<1>14. CASE SrecVerifyFails
  BY <1>3, <1>14, OrderRaise DEF SrecVerifyFails
<1> QED
  BY <1>7, <1>8, <1>9, <1>10, <1>11, <1>12, <1>13, <1>14 DEF Recovery

LEMMA FinishOrder ==
  ASSUME OrderInv, VenueTypeOK', Finish PROVE OrderState' /\ OrderControl'
<1>0. /\ VenueTypeOK /\ OrderState /\ OrderControl /\ ControlInv /\ c \in Campaigns
      /\ regs \in Registers /\ regs.k \in Nat /\ entry \in [Levels -> Nat] /\ 1 \in Levels
      /\ FlatHasNoDue /\ pos \in Int
  BY OrderFacts, ConstantTypes
<1>1. ASSUME UNCHANGED venueVars PROVE Shrink
  BY <1>0, <1>1, ShrinkSame DEF venueVars
<1>2. ASSUME NEW es, NEW ts, CancelOk(es, ts) \/ CancelFail(es, ts) PROVE Shrink
  BY <1>0, <1>2, ShrinkCancel
\* The L1 branch goes on: nothing is managed.
<1>3. ASSUME pc \in RearmPcs, pc' \in RearmPcs, UNCHANGED engineVars, Shrink,
             pc' = "fin_l1_cancel" => (entry'[1] > 0 => 1 \in Entries'),
             pc' \in {"fin_flat", "fin_place"} => entry'[1] = 0,
             pc' = "fin_place" \/ (pc' = "fin_flat" /\ regs'.k >= 1) => due'[1] = 0
      PROVE  OrderState' /\ OrderControl'
  <2>1. c'.managed = 0
    BY <1>0, <1>3 DEF OrderControl, engineVars
  <2>2. OrderControl'
    BY <1>3, <2>1 DEF OrderControl, CoverPcs, RecoveryPcs, EmergencyPcs, ClearPcs, CancelAllPcs,
                      ConfirmPcs, OpenPcs, RearmPcs
  <2> QED
    BY <1>3, <2>2, SameOrder
\* The other branch: whatever is blocked in memory is blocked on disk.
<1>4. ASSUME pc \in ClearPcs, pc' \in ClearPcs, UNCHANGED engineVars, Shrink
      PROVE  OrderState' /\ OrderControl'
  <2>1. disk'.c.blocked = c'.blocked
    BY <1>0, <1>4 DEF OrderControl, engineVars
  <2>2. OrderControl'
    BY <1>4, <2>1 DEF OrderControl, CoverPcs, RecoveryPcs, EmergencyPcs, ClearPcs, CancelAllPcs,
                      ConfirmPcs, OpenPcs, RearmPcs
  <2> QED
    BY <1>4, <2>2, SameOrder
<1>5. CASE FinBlocked \/ FinErrOrders
  BY <1>0, <1>1, <1>5, OrderRecovery DEF FinBlocked, FinErrOrders
<1>6. CASE FinL1Orders
  <2>1. /\ pc = "fin_l1_orders" /\ pc' = "fin_l1_cancel" /\ regs'.view = View
        /\ UNCHANGED <<venueVars, engineVars>>
    BY <1>0, <1>6 DEF FinL1Orders, At, ReadOrders, Goto, Registers
  <2>2. entry'[1] > 0 => 1 \in Entries'
    BY <1>0, <2>1 DEF Entries, View, OpenEntries, venueVars
  <2> QED
    BY <1>1, <1>3, <2>1, <2>2 DEF RearmPcs
<1>7. CASE FinL1Cancel
  <2>1. pc = "fin_l1_cancel" /\ pc' = "fin_flat" /\ regs' = NoRegisters /\ UNCHANGED engineVars
    BY <1>7 DEF FinL1Cancel, At, Goto
  <2>2. CancelOk(Entries \cap {1}, Targets \cap {1})
    BY <1>7 DEF FinL1Cancel
  <2>3. entry'[1] = IF 1 \in Entries THEN 0 ELSE entry[1]
    BY <1>0, <2>2 DEF CancelOk, Gone
  <2>4. entry'[1] = 0
    BY <1>0, <2>1, <2>3 DEF OrderControl
  <2>5. regs'.k = 0
    BY <2>1 DEF NoRegisters
  <2> QED
    BY <1>2, <1>3, <2>1, <2>2, <2>4, <2>5 DEF RearmPcs
<1>8. CASE FinL1Fails
  <2>1. Shrink
    BY <1>0, <1>2, <1>8, ShrinkSame DEF FinL1Fails
  <2> QED
    BY <1>8, <2>1, ReturnPlaces, OrderGo DEF FinL1Fails, Goto
<1>9. CASE FinErrAccount
  BY <1>1, <1>9, ReturnPlaces, OrderGo DEF FinErrAccount, ReadAccount, Goto
<1>10. CASE FinFlat
  <2>1. pc = "fin_flat" /\ UNCHANGED <<venueVars, engineVars>> /\ entry[1] = 0
    BY <1>0, <1>10 DEF FinFlat, At, OrderControl
  <2>2. CASE pos # 0
    <3>1. pc' = "fin_notflat"
      BY <1>10, <2>2 DEF FinFlat, ReadAccount, Goto
    <3> QED
      BY <1>1, <2>1, <3>1, ReturnPlaces, OrderGo
  <2>3. CASE pos = 0
    <3>1. pc' \in {"fin_flat", "fin_place"}
      BY <1>10, <2>3 DEF FinFlat, Goto
    <3>2. due' = NoDue /\ entry'[1] = 0
      BY <1>0, <2>1, <2>3 DEF FlatHasNoDue, venueVars
    <3>3. due'[1] = 0
      BY <1>0, <3>2 DEF NoDue
    <3> QED
      BY <1>1, <1>3, <2>1, <3>1, <3>2, <3>3 DEF RearmPcs
  <2> QED
    BY <2>2, <2>3
<1>11. CASE FinPlace
  <2>1. /\ pc = "fin_place" /\ entry' = [entry EXCEPT ![1] = entry[1] + Lot]
        /\ Save(Rearmed, safe) /\ SyncReturn
    BY <1>11 DEF FinPlace, At
  <2>2. entry[1] = 0 /\ ~c.blocked
    BY <1>0, <2>1 DEF OrderControl, ControlInv, RearmPcs
  <2>3. \A l \in Levels : entry'[l] <= Lot
    BY <1>0, <2>1, <2>2, LotAssumption DEF OrderState
  <2>4. Rearmed.status = "waiting" /\ Rearmed.blocked = c.blocked
    BY <1>0 DEF Rearmed, Campaigns
  <2>5. c' = Rearmed /\ safe' = safe /\ disk' = [c |-> Rearmed, safe |-> safe]
    BY <2>1 DEF Save
  <2>6. OrderState'
    BY <2>3, <2>4, <2>5 DEF OrderState, Active, ActiveCampaign, ActiveStatuses, InRecovery, Held
  <2> QED
    BY <2>1, <2>6, OrderReturn
<1>12. CASE FinPlaceFails
  <2>1. Shrink
    BY <1>0, <1>12, ShrinkSame DEF FinPlaceFails
  <2> QED
    BY <1>12, <2>1, OrderRaise DEF FinPlaceFails
<1>13. CASE FinOrders
  BY <1>1, <1>4, <1>13 DEF FinOrders, At, ReadOrders, Goto, ClearPcs, CancelAllPcs
<1>14. CASE FinCancel
  BY <1>2, <1>4, <1>14 DEF FinCancel, At, Goto, ClearPcs, CancelAllPcs, ConfirmPcs
<1>15. CASE FinCancelFails
  BY <1>2, <1>15, OrderRaise DEF FinCancelFails
<1>16. CASE FinReadFails
  BY <1>1, <1>16, OrderRaise DEF FinReadFails
<1> QED
  BY <1>5, <1>6, <1>7, <1>8, <1>9, <1>10, <1>11, <1>12, <1>13, <1>14, <1>15, <1>16 DEF Finish

LEMMA ConfirmOrder ==
  ASSUME OrderInv, VenueTypeOK', Confirm PROVE OrderState' /\ OrderControl'
<1>0. /\ VenueTypeOK /\ OrderState /\ OrderControl /\ ControlInv /\ c \in Campaigns
  BY OrderFacts
<1>1. pc \in ConfirmPcs /\ pc \in ClearPcs /\ UNCHANGED venueVars
  BY DEF Confirm, ConfAccount, ConfDone, ConfAgain, ConfRefused, ConfReadFails, At, ConfirmPcs,
         ClearPcs
<1>2. Shrink /\ entry' = NoEntries
  BY <1>0, <1>1, ShrinkSame DEF ControlInv, venueVars
<1>3. ASSUME pc' \in ConfirmPcs, UNCHANGED engineVars PROVE OrderState' /\ OrderControl'
  <2>1. disk'.c.blocked = c'.blocked
    BY <1>0, <1>1, <1>3 DEF OrderControl, engineVars
  <2>2. OrderControl'
    BY <1>3, <2>1 DEF OrderControl, CoverPcs, RecoveryPcs, EmergencyPcs, ClearPcs, CancelAllPcs,
                      ConfirmPcs, OpenPcs, RearmPcs
  <2> QED
    BY <1>2, <1>3, <2>2, SameOrder
<1>4. CASE ConfAccount \/ ConfAgain
  BY <1>3, <1>4 DEF ConfAccount, ConfAgain, ReadAccount, Goto, ConfirmPcs
<1>5. CASE ConfDone
  <2>1. Confirmed.blocked = c.blocked /\ ~Held(Confirmed) /\ Confirmed.status # "recovery"
    BY <1>0 DEF Confirmed, Campaigns, Held
  <2>2. MaySave(Confirmed, safe)
    BY <1>2, <2>1 DEF MaySave
  <2> QED
    BY <1>2, <1>5, <2>2, OrderBack DEF ConfDone
<1>6. CASE ConfRefused
  BY <1>0, <1>2, <1>6, OrderRecovery DEF ConfRefused
<1>7. CASE ConfReadFails
  <2>1. CASE pc' = "can_err_account" /\ UNCHANGED engineVars
    BY <1>2, <2>1, ReturnPlaces, OrderGo
  <2>2. CASE SyncRaise
    BY <1>2, <2>2, OrderRaise
  <2> QED
    BY <1>7, <2>1, <2>2 DEF ConfReadFails, Goto
<1> QED
  BY <1>4, <1>5, <1>6, <1>7 DEF Confirm

LEMMA CancelOrder ==
  ASSUME OrderInv, VenueTypeOK', Cancel PROVE OrderState' /\ OrderControl'
<1>0. /\ VenueTypeOK /\ OrderState /\ OrderControl /\ ControlInv /\ c \in Campaigns
  BY OrderFacts
<1>1. Shrink
  <2>1. CASE UNCHANGED entry
    BY <1>0, <2>1, ShrinkSame
  <2> QED
    BY <1>0, <2>1, ShrinkCancel DEF Cancel, CanAccount, CanOrders, CanCancel, CanCancelFails,
         CanErrAccount, CanErrOrders, CanReadFails, venueVars
<1>2. CASE CanAccount \/ CanErrAccount \/ CanCancelFails
  <2>1. pc' \in {"can_orders", "can_err_account", "can_err_orders"} /\ UNCHANGED engineVars
    BY <1>2 DEF CanAccount, CanErrAccount, CanCancelFails, ReadAccount, Goto
  <2> QED
    BY <1>1, <2>1, ReturnPlaces, OrderGo
<1>3. CASE CanOrders
  <2>1. CASE EnterRecovery(c, regs.pos, View)
    BY <1>0, <1>1, <2>1, OrderRecovery
  <2>2. CASE EndOp /\ UNCHANGED engineVars
    BY <1>1, <2>2, SameOrder, OrderReturn
  <2>3. CASE Save([c EXCEPT !.status = "canceling"], safe) /\ pc' = "can_cancel"
    <3>1. "canceling" \in ActiveStatuses \ {"recovery", "emergency"}
      BY DEF ActiveStatuses
    <3>2. OrderState'
      BY <1>1, <2>3, <3>1, SaveStatus, SavedOrder
    <3>3. disk'.c.blocked = c'.blocked
      BY <2>3 DEF Save
    <3>4. OrderControl'
      BY <2>3, <3>3 DEF OrderControl, CoverPcs, RecoveryPcs, EmergencyPcs, RearmPcs, OpenPcs
    <3> QED
      BY <3>2, <3>4
  <2> QED
    BY <1>3, <2>1, <2>2, <2>3 DEF CanOrders, ReadOrders, Goto
<1>4. CASE CanCancel
  <2>1. pc = "can_cancel" /\ pc' = "conf_account" /\ UNCHANGED engineVars
    BY <1>4 DEF CanCancel, At, Goto
  <2>2. disk'.c.blocked = c'.blocked
    BY <1>0, <2>1 DEF OrderControl, ClearPcs, CancelAllPcs, engineVars
  <2>3. OrderControl'
    BY <2>1, <2>2 DEF OrderControl, CoverPcs, RecoveryPcs, EmergencyPcs, RearmPcs, OpenPcs
  <2> QED
    BY <1>1, <2>1, <2>3, SameOrder
<1>5. CASE CanErrOrders
  BY <1>0, <1>1, <1>5, OrderRecovery DEF CanErrOrders
<1>6. CASE CanReadFails
  BY <1>1, <1>6, SameOrder, OrderReturn DEF CanReadFails
<1> QED
  BY <1>2, <1>3, <1>4, <1>5, <1>6 DEF Cancel

LEMMA EmergencyOrder ==
  ASSUME OrderInv, VenueTypeOK', Emergency PROVE OrderState' /\ OrderControl'
<1>0. /\ VenueTypeOK /\ OrderState /\ OrderControl /\ c \in Campaigns /\ regs \in Registers
      /\ entry \in [Levels -> Nat] /\ entry' \in [Levels -> Nat]
  BY OrderFacts DEF VenueTypeOK
<1>1. pc \in EmergencyPcs /\ (~Active \/ c.status = "emergency")
  <2>1. pc \in EmergencyPcs
    BY DEF Emergency, EmgOrders, EmgCancel, EmgAccount, EmgClose, EmgFlat, EmgFlatOrders,
           EmgAgain, EmgReread, EmgAgainFails, EmgReadFails, At, EmergencyPcs
  <2> QED
    BY <1>0, <2>1 DEF OrderControl
<1>2. Shrink
  <2>1. CASE UNCHANGED entry
    BY <1>0, <2>1, ShrinkSame
  <2>2. ASSUME EmgRemoveOk \/ EmgRemoveFail PROVE Shrink
    BY <1>0, <2>1, <2>2, ShrinkCancel DEF EmgRemoveOk, EmgRemoveFail
  <2> QED
    BY <2>1, <2>2 DEF Emergency, EmgOrders, EmgCancel, EmgAccount, EmgClose, EmgFlat,
           EmgFlatOrders, EmgAgain, EmgReread, EmgAgainFails, EmgReadFails, venueVars
<1>3. OpenEntries(entry') \subseteq OpenEntries(entry)
  BY <1>0, <1>2, ShrinkFacts
<1>4. ASSUME UNCHANGED engineVars, pc' \in EmergencyPcs,
             pc' \in {"emg_again", "emg_reread"} => OpenEntries(entry') \subseteq Entries'
      PROVE  OrderState' /\ OrderControl'
  <2>1. ~Active' \/ c'.status = "emergency"
    BY <1>1, <1>4 DEF engineVars, Active
  <2>2. OrderControl'
    BY <1>4, <2>1 DEF OrderControl, CoverPcs, RecoveryPcs, EmergencyPcs, ClearPcs, CancelAllPcs,
                      ConfirmPcs, OpenPcs, RearmPcs
  <2> QED
    BY <1>2, <1>4, <2>2, SameOrder
<1>5. ASSUME EmgSucceeds, Active => entry' = NoEntries PROVE OrderState' /\ OrderControl'
  <2> DEFINE x == IF Active THEN [c EXCEPT !.status = "emergency_closed", !.managed = 0] ELSE c
  <2>1. MaySave(x, TRUE)
    <3>1. CASE Active
      BY <1>0, <1>5, <3>1 DEF MaySave, Held, Campaigns
    <3>2. CASE ~Active
      BY <3>2, SaveSelf
    <3> QED
      BY <3>1, <3>2
  <2>2. Save(x, TRUE) /\ EndOp
    BY <1>5 DEF EmgSucceeds
  <2> HIDE DEF x
  <2> QED
    BY <1>2, <2>1, <2>2, OrderBack
<1>6. ASSUME NEW v, EmgRetry(v) PROVE OrderState' /\ OrderControl'
  <2>1. CASE pc' = "emg_flat" /\ UNCHANGED engineVars
    BY <1>4, <2>1 DEF EmergencyPcs
  <2>2. CASE EnterRecovery(c, regs.pos, v)
    BY <1>0, <1>2, <2>2, OrderRecovery
  <2>3. CASE Save(c, TRUE) /\ EndOp
    BY <1>2, <2>3, SaveSelf, OrderBack
  <2> QED
    BY <1>6, <2>1, <2>2, <2>3 DEF EmgRetry, Goto
<1>7. CASE EmgOrders \/ EmgCancel \/ EmgAccount \/ EmgClose \/ EmgFlat
  <2>1. UNCHANGED engineVars /\ pc' \in EmergencyPcs \ {"emg_again", "emg_reread"}
    BY <1>7 DEF EmgOrders, EmgCancel, EmgAccount, EmgClose, EmgFlat, ReadOrders, ReadAccount,
                Goto, EmergencyPcs
  <2> QED
    BY <1>4, <2>1
<1>8. CASE EmgFlatOrders
  <2>1. CASE ReadOrders("emg_again") /\ UNCHANGED engineVars
    <3>1. pc' = "emg_again" /\ regs'.view = View /\ entry' = entry
      BY <1>0, <1>8, <2>1 DEF EmgFlatOrders, ReadOrders, Goto, Registers, venueVars
    <3>2. OpenEntries(entry') \subseteq Entries'
      BY <3>1 DEF Entries, View
    <3> QED
      BY <1>4, <2>1, <3>1, <3>2 DEF EmergencyPcs
  <2> QED
    BY <1>6, <1>8, <2>1 DEF EmgFlatOrders
<1>9. CASE EmgAgain
  <2>1. pc = "emg_again" /\ pc' = "emg_reread" /\ regs' = regs /\ UNCHANGED engineVars
    BY <1>9 DEF EmgAgain, At, Goto, Keep
  <2>2. OpenEntries(entry') \subseteq Entries'
    BY <1>0, <1>3, <2>1 DEF OrderControl, Entries, OpenEntries
  <2> QED
    BY <1>4, <2>1, <2>2 DEF EmergencyPcs
<1>10. CASE EmgReread
  <2>1. ~Remaining(View) => entry' = NoEntries
    BY <1>0, <1>10, NotOwned DEF EmgReread, Remaining, venueVars
  <2> QED
    BY <1>5, <1>6, <1>10, <2>1 DEF EmgReread
<1>11. CASE EmgAgainFails
  <2>1. OpenEntries(entry) \subseteq Entries
    BY <1>0, <1>11 DEF EmgAgainFails, At, OrderControl
  <2>2. ~Remaining(regs.view) => entry' = NoEntries
    <3>1. SUFFICES ASSUME ~Remaining(regs.view) PROVE entry' = NoEntries
      OBVIOUS
    <3>2. Entries = {}
      BY <3>1 DEF Remaining, Owned, Entries
    <3>3. OpenEntries(entry') = {}
      BY <1>3, <2>1, <3>2
    <3>4. \A l \in Levels : entry'[l] = 0
      BY <1>0, <3>3 DEF OpenEntries
    <3> QED
      BY <1>0, <3>4 DEF NoEntries
  <2> QED
    BY <1>5, <1>6, <1>11, <2>2 DEF EmgAgainFails
<1>12. CASE EmgReadFails
  BY <1>2, <1>12, SameOrder, OrderReturn DEF EmgReadFails
<1> QED
  BY <1>7, <1>8, <1>9, <1>10, <1>11, <1>12 DEF Emergency

LEMMA GlobalOrder ==
  ASSUME OrderInv, VenueTypeOK', Global PROVE OrderState' /\ OrderControl'
<1>0. VenueTypeOK /\ OrderState
  BY OrderFacts
<1>1. Shrink
  BY <1>0, ShrinkSame DEF Global, GlobAccount, GlobOrders, GlobReadFails, venueVars
<1>2. CASE GlobAccount
  BY <1>1, <1>2, ReturnPlaces, OrderGo DEF GlobAccount, ReadAccount, Goto
<1>3. CASE GlobOrders
  <2>1. InRecovery => NewSafe
    BY <1>0 DEF NewSafe, OrderState
  <2>2. MaySave(c, NewSafe)
    BY <1>0, <2>1 DEF OrderState, MaySave, Held, InRecovery, Active, ActiveCampaign
  <2> QED
    BY <1>1, <1>3, <2>2, OrderBack DEF GlobOrders
<1>4. CASE GlobReadFails
  BY <1>1, <1>4, SaveSelf, OrderBack, SameOrder, OrderReturn DEF GlobReadFails
<1> QED
  BY <1>2, <1>3, <1>4 DEF Global

LEMMA CreateOrder ==
  ASSUME OrderInv, VenueTypeOK', Create PROVE OrderState' /\ OrderControl'
<1>0. /\ VenueTypeOK /\ OrderState /\ OrderControl /\ c \in Campaigns /\ regs \in Registers
      /\ regs.k \in Nat /\ entry \in [Levels -> Nat] /\ FlatHasNoDue /\ pos \in Int
      /\ NLevels \in Nat /\ Lot \in Nat
  BY OrderFacts, NLevelsAssumption, LotAssumption
<1>1. ASSUME UNCHANGED entry PROVE Shrink
  BY <1>0, <1>1, ShrinkSame
\* A place of the creation before the campaign exists.
<1>2. ASSUME pc' \in {"cr_orders", "cr_leverage"}, UNCHANGED engineVars, UNCHANGED entry,
             ~Active, due' = NoDue, pc' = "cr_leverage" => target' = NoTargets
      PROVE  OrderState' /\ OrderControl'
  <2>1. ~Active'
    BY <1>2 DEF engineVars, Active
  <2>2. OrderControl'
    BY <1>2, <2>1 DEF OrderControl, CoverPcs, RecoveryPcs, EmergencyPcs, ClearPcs, CancelAllPcs,
                      ConfirmPcs, RearmPcs
  <2> QED
    BY <1>1, <1>2, <2>2, SameOrder
<1>3. ASSUME CreationFailure, Shrink PROVE OrderState' /\ OrderControl'
  BY <1>3, ReturnPlaces, OrderGo DEF CreationFailure, Goto
<1>4. CASE EndOp /\ UNCHANGED engineVars /\ UNCHANGED entry
  BY <1>1, <1>4, SameOrder, OrderReturn
<1>5. CASE CrAccount
  <2>1. CASE Goto("cr_orders") /\ pos = 0
    <3>1. ~Active /\ due = NoDue
      BY <1>0, <1>5, <2>1 DEF CrAccount, At, OrderControl, OpenPcs, FlatHasNoDue
    <3> QED
      BY <1>2, <1>5, <2>1, <3>1 DEF CrAccount, Goto, venueVars
  <2> QED
    BY <1>4, <1>5, <2>1 DEF CrAccount, venueVars
<1>6. CASE CrOrders
  <2>1. CASE Goto("cr_leverage") /\ ~Owned(View)
    <3>1. ~Active /\ due = NoDue /\ target = NoTargets
      BY <1>0, <1>6, <2>1, NotOwned DEF CrOrders, At, OrderControl, OpenPcs
    <3> QED
      BY <1>2, <1>6, <2>1, <3>1 DEF CrOrders, Goto, venueVars
  <2> QED
    BY <1>4, <1>6, <2>1 DEF CrOrders, venueVars
<1>7. CASE CrRefused
  BY <1>4, <1>7 DEF CrRefused, venueVars
<1>8. CASE CrLeverage
  <2>1. ~Active
    BY <1>0, <1>8 DEF CrLeverage, At, OrderControl, OpenPcs
  <2>2. entry = NoEntries
    BY <1>0, <2>1 DEF OrderState
  <2>3. /\ Save(NewCampaign, safe) /\ UNCHANGED entry /\ pc' = "cr_place"
        /\ regs'.k = 1
    BY <1>0, <1>8 DEF CrLeverage, Goto, Registers
  <2>4. /\ NewCampaign.status = "placing" /\ NewCampaign.blocked = FALSE
        /\ ActiveCampaign(NewCampaign)
    BY DEF NewCampaign, NoCampaign, ActiveCampaign, ActiveStatuses
  <2>5. MaySave(NewCampaign, safe)
    BY <2>4 DEF MaySave, Held
  <2>6. OrderState'
    BY <1>1, <2>3, <2>5, SavedOrder
  <2>7. c'.status = "placing" /\ ~c'.blocked
    BY <2>3, <2>4 DEF Save
  <2>8. \A l \in Levels : entry'[l] = 0
    BY <2>2, <2>3 DEF NoEntries
  <2>9. OrderControl'
    BY <2>3, <2>7, <2>8, ConstantTypes
       DEF OrderControl, CoverPcs, RecoveryPcs, EmergencyPcs, ClearPcs, CancelAllPcs, ConfirmPcs,
           RearmPcs, OpenPcs
  <2> QED
    BY <2>6, <2>9
\* One more entry on an empty level of a campaign that is being placed.
<1>9. ASSUME pc = "cr_place", entry' \in {entry, [entry EXCEPT ![regs.k] = entry[regs.k] + Lot]},
             Save(c, safe) \/ UNCHANGED engineVars
      PROVE  /\ OrderState' /\ c' = c
             /\ \A l \in Levels : l >= regs.k + 1 => entry'[l] = 0
  <2>1. /\ regs.k \in Levels /\ c.status = "placing"
        /\ \A l \in Levels : l >= regs.k => entry[l] = 0
    BY <1>0, <1>9 DEF OrderControl
  <2>2. c' = c /\ safe' = safe /\ disk' \in {disk, [c |-> c, safe |-> safe]}
    BY <1>9 DEF Save, engineVars
  <2>3. /\ \A l \in Levels : entry'[l] <= Lot
        /\ \A l \in Levels : l >= regs.k + 1 => entry'[l] = 0
    <3>1. SUFFICES ASSUME NEW l \in Levels
                   PROVE  entry'[l] <= Lot /\ (l >= regs.k + 1 => entry'[l] = 0)
      OBVIOUS
    <3>2. entry[l] \in Nat /\ entry[l] <= Lot /\ entry[regs.k] = 0 /\ l \in Nat
      BY <1>0, <2>1 DEF OrderState, Levels
    <3>3. l >= regs.k + 1 => entry[l] = 0 /\ l # regs.k
      BY <1>0, <2>1, <3>2
    <3>4. CASE entry' = entry
      BY <3>2, <3>3, <3>4
    <3>5. CASE entry' = [entry EXCEPT ![regs.k] = entry[regs.k] + Lot]
      <4>1. entry'[l] = IF l = regs.k THEN Lot ELSE entry[l]
        BY <1>0, <3>2, <3>5
      <4> QED
        BY <1>0, <3>2, <3>3, <4>1
    <3> QED
      BY <1>9, <3>4, <3>5
  <2>4. Active /\ ~Held(c) /\ ~InRecovery
    BY <2>1 DEF Active, ActiveStatuses, Held, InRecovery
  <2>5. OrderState'
    BY <1>0, <2>2, <2>3, <2>4 DEF OrderState, Active, ActiveCampaign, InRecovery, Held
  <2> QED
    BY <2>2, <2>3, <2>5
<1>10. CASE CrPlace
  <2>1. /\ pc = "cr_place" /\ entry' = [entry EXCEPT ![regs.k] = entry[regs.k] + Lot]
        /\ Save(c, safe)
    BY <1>10 DEF CrPlace, At
  <2>2. /\ OrderState' /\ c' = c
        /\ \A l \in Levels : l >= regs.k + 1 => entry'[l] = 0
    BY <1>9, <2>1
  <2>3. CASE regs.k < NLevels
    <3>1. pc' = "cr_place" /\ regs'.k = regs.k + 1
      BY <1>0, <1>10, <2>3 DEF CrPlace, Goto, Registers
    <3>2. regs'.k \in Levels
      BY <1>0, <2>3, <3>1 DEF Levels
    <3>3. c'.status = "placing" /\ ~c'.blocked
      BY <1>0, <2>1, <2>2 DEF OrderControl
    <3>4. OrderControl'
      BY <2>2, <3>1, <3>2, <3>3
         DEF OrderControl, CoverPcs, RecoveryPcs, EmergencyPcs, ClearPcs, CancelAllPcs, ConfirmPcs,
             RearmPcs, OpenPcs
    <3> QED
      BY <2>2, <3>4
  <2>4. CASE ~(regs.k < NLevels)
    <3>1. pc' = "cr_count"
      BY <1>10, <2>4 DEF CrPlace, Goto
    <3> QED
      BY <2>2, <3>1, ReturnPlaces, OrderLand
  <2> QED
    BY <2>3, <2>4
<1>11. CASE CrPlaceFails
  <2>1. OrderState'
    BY <1>9, <1>11 DEF CrPlaceFails, At, CreationFailure
  <2>2. pc' = "crf_account"
    BY <1>11 DEF CrPlaceFails, CreationFailure, Goto
  <2> QED
    BY <2>1, <2>2, ReturnPlaces, OrderLand
<1>12. CASE CrCount
  <2>1. CASE Goto("cr_flat") /\ UNCHANGED engineVars
    BY <1>1, <1>12, <2>1, ReturnPlaces, OrderGo DEF CrCount, Goto, venueVars
  <2> QED
    BY <1>1, <1>3, <1>12, <2>1 DEF CrCount, venueVars
<1>13. CASE CrFlat
  <2>1. "waiting" \in ActiveStatuses \ {"recovery", "emergency"}
    BY DEF ActiveStatuses
  <2>2. CASE Save([c EXCEPT !.status = "waiting"], safe) /\ EndOp
    BY <1>1, <1>13, <2>1, <2>2, SaveStatus, OrderBack DEF CrFlat, venueVars
  <2> QED
    BY <1>1, <1>3, <1>13, <2>2 DEF CrFlat, venueVars
<1>14. CASE CrfAccount
  BY <1>1, <1>14, ReturnPlaces, OrderGo DEF CrfAccount, ReadAccount, Goto, venueVars
<1>15. CASE CrfOrders
  BY <1>0, <1>1, <1>15, OrderRecovery DEF CrfOrders, venueVars
<1>16. CASE CrReadFails
  <2>1. CASE EnterRecovery(c, regs.pos, NoView)
    BY <1>0, <1>1, <1>16, <2>1, OrderRecovery DEF CrReadFails, venueVars
  <2> QED
    BY <1>1, <1>3, <1>4, <1>16, <2>1 DEF CrReadFails, venueVars
<1> QED
  BY <1>5, <1>6, <1>7, <1>8, <1>10, <1>11, <1>12, <1>13, <1>14, <1>15, <1>16 DEF Create

LEMMA StartOrder ==
  ASSUME OrderInv, VenueTypeOK', StartMonitor \/ Commands \/ Restart
  PROVE  OrderState' /\ OrderControl'
<1>0. VenueTypeOK /\ OrderState /\ c \in Campaigns
  BY OrderFacts
<1>1. Shrink
  BY <1>0, ShrinkSame
     DEF StartMonitor, Commands, Restart, StartReconcile, StartCancel, StartCreate,
         StartEmergency, Begin, venueVars
<1>2. CASE StartMonitor \/ StartReconcile \/ StartCancel \/ Restart
  <2>1. pc' \in {"sync_orders", "glob_account"} /\ UNCHANGED engineVars
    BY <1>2 DEF StartMonitor, StartReconcile, StartCancel, Restart, Begin
  <2> QED
    BY <1>1, <2>1, ReturnPlaces, OrderGo
<1>3. CASE StartCreate
  <2>1. pc' = "cr_account" /\ ~Active' /\ UNCHANGED engineVars
    BY <1>3 DEF StartCreate, Begin, engineVars, Active
  <2>2. OrderControl'
    BY <2>1 DEF OrderControl, CoverPcs, RecoveryPcs, EmergencyPcs, ClearPcs, CancelAllPcs,
                ConfirmPcs, RearmPcs
  <2> QED
    BY <1>1, <2>1, <2>2, SameOrder
<1>4. CASE StartEmergency
  <2>1. pc' = "emg_orders"
    BY <1>4 DEF StartEmergency, Begin
  <2>2. OrderState' /\ (~Active' \/ c'.status = "emergency")
    <3>1. CASE Active
      <4> DEFINE x == [c EXCEPT !.status = "emergency", !.blocked = TRUE]
      <4>1. Save(x, safe) /\ x.status = "emergency" /\ x.blocked = TRUE
        BY <1>0, <1>4, <3>1 DEF StartEmergency, Campaigns
      <4> HIDE DEF x
      <4>2. MaySave(x, safe)
        BY <4>1 DEF MaySave, ActiveCampaign, ActiveStatuses
      <4> QED
        BY <1>1, <4>1, <4>2, SavedOrder DEF Save
    <3>2. CASE ~Active
      BY <1>1, <1>4, <3>2, SameOrder DEF StartEmergency, engineVars, Active
    <3> QED
      BY <3>1, <3>2
  <2>3. OrderControl'
    BY <2>1, <2>2 DEF OrderControl, CoverPcs, RecoveryPcs, ClearPcs, CancelAllPcs, ConfirmPcs,
                      RearmPcs, OpenPcs
  <2> QED
    BY <2>2, <2>3
<1> QED
  BY <1>2, <1>3, <1>4 DEF Commands

\* What is on disk is an honest state: a restart begins from it.
LEMMA CrashOrder ==
  ASSUME OrderInv, VenueTypeOK', Crash PROVE OrderState' /\ OrderControl'
<1>0. VenueTypeOK /\ OrderState
  BY OrderFacts
<1>1. Shrink
  BY <1>0, ShrinkSame, ShrinkGone DEF Crash, CallInFlight
<1>2. c' = disk.c /\ safe' = disk.safe /\ disk' = disk /\ pc' = "down"
  BY DEF Crash
<1>3. /\ ~Active => entry' = NoEntries
      /\ \A l \in Levels : entry'[l] <= Lot
  BY <1>0, <1>1, ShrinkFacts DEF OrderState
<1>4. OrderState'
  BY <1>0, <1>2, <1>3 DEF OrderState, Active, InRecovery, ActiveCampaign, Held
<1> QED
  BY <1>2, <1>4, ReturnPlaces, OrderLand

\* The venue lists no TP for a level that has neither an open entry nor filled units.
LEMMA VenueKeeps ==
  ASSUME VenueTypeOK, VenueNext
  PROVE  /\ \A l \in Levels : entry[l] = 0 /\ due[l] = 0 => due'[l] = 0
         /\ due = NoDue /\ target = NoTargets => target' = NoTargets
<1>0. due \in [Levels -> Nat] /\ Levels \subseteq TargetLevels
  BY ConstantTypes DEF VenueTypeOK
<1>1. ASSUME NEW p, SetPosition(p, due)
      PROVE  \A l \in Levels : due[l] = 0 => due'[l] = 0
  BY <1>1 DEF SetPosition, NoDue
<1>2. ASSUME NEW l \in Levels, EntryFill(l)
      PROVE  target' = target /\ \A m \in Levels : entry[m] = 0 /\ due[m] = 0 => due'[m] = 0
  <2>1. entry[l] > 0 /\ (due' = NoDue \/ due' = [due EXCEPT ![l] = due[l] + 1])
    BY <1>2 DEF EntryFill, SetPosition
  <2> QED
    BY <1>0, <1>2, <2>1 DEF EntryFill, NoDue
<1>3. ASSUME NEW l \in Levels, ListTarget(l)
      PROVE  due # NoDue /\ \A m \in Levels : due[m] = 0 => due'[m] = 0
  BY <1>0, <1>3 DEF ListTarget, NoDue
<1>4. ASSUME NEW l \in TargetLevels, TargetFill(l)
      PROVE  target # NoTargets /\ \A m \in Levels : due[m] = 0 => due'[m] = 0
  BY <1>1, <1>4 DEF TargetFill, NoTargets
<1>5. CASE DropReduceOnly \/ ManualOrder
  BY <1>5 DEF DropReduceOnly, ManualOrder
<1>6. CASE StrayBuyFill \/ StraySellFill \/ ManualTrade
  BY <1>1, <1>6 DEF StrayBuyFill, StraySellFill, ManualTrade
<1>7. CASE ManualCancel
  BY <1>7 DEF ManualCancel, NoTargets
<1> QED
  BY <1>2, <1>3, <1>4, <1>5, <1>6, <1>7 DEF VenueNext

LEMMA VenueOrder ==
  ASSUME OrderInv, VenueTypeOK', VenueMoves PROVE OrderState' /\ OrderControl'
<1>0. /\ VenueTypeOK /\ OrderState /\ OrderControl /\ FlatHasNoDue /\ VenueNext
      /\ 1 \in Levels
  BY OrderFacts, ConstantTypes DEF VenueMoves
<1>1. Shrink /\ Calm
  BY <1>0, ShrinkVenue, CalmVenue
<1>2. UNCHANGED engineVars /\ c' = c /\ disk' = disk /\ pc' = pc /\ regs' = regs
  BY DEF VenueMoves, engineVars, control
<1>3. OrderState'
  BY <1>1, <1>2, SameOrder
<1>4. Active' = Active /\ InRecovery' = InRecovery /\ Entries' = Entries
  BY <1>2 DEF Active, InRecovery, Entries, OpenEntries
<1>5. /\ OpenEntries(entry') \subseteq OpenEntries(entry)
      /\ \A l \in Levels : entry[l] = 0 => entry'[l] = 0
      /\ entry[1] > 0 \/ entry[1] = 0
  BY <1>0, <1>1, ShrinkFacts DEF VenueTypeOK
<1>6. pc = "fin_l1_cancel" => (entry'[1] > 0 => 1 \in Entries)
  BY <1>0, <1>5 DEF OrderControl
<1>7. pc = "fin_place" \/ (pc = "fin_flat" /\ regs.k >= 1) => due'[1] = 0
  BY <1>0, VenueKeeps DEF OrderControl
<1>8. /\ pc \in {"cr_orders", "cr_leverage"} => due' = NoDue
      /\ pc = "cr_leverage" => target' = NoTargets
  <2>1. pc \in {"cr_orders", "cr_leverage"} => entry = NoEntries /\ due = NoDue
    BY <1>0 DEF OrderControl, OrderState, OpenPcs
  <2> QED
    BY <1>0, <1>1, <2>1, VenueKeeps DEF Calm, OrderControl
<1>9. OpenEntries(entry)' = OpenEntries(entry')
  BY DEF OpenEntries
<1>10. /\ pc \in {"emg_again", "emg_reread"} => OpenEntries(entry)' \subseteq Entries'
       /\ pc \in {"fin_flat", "fin_place"} => entry'[1] = 0
       /\ pc = "cr_place" => \A l \in Levels : l >= regs.k => entry'[l] = 0
  BY <1>0, <1>4, <1>5, <1>9 DEF OrderControl
<1>11. OrderControl'
  BY <1>0, <1>2, <1>4, <1>6, <1>7, <1>8, <1>10 DEF OrderControl
<1> QED
  BY <1>3, <1>11

LEMMA OrderInit == Init => OrderInv
<1> SUFFICES ASSUME Init PROVE OrderInv
  OBVIOUS
<1>1. c = NoCampaign /\ disk = [c |-> NoCampaign, safe |-> FALSE] /\ safe = FALSE
      /\ pc = "down" /\ entry = NoEntries
  BY DEF Init, VenueInit
<1>2. OrderState
  <2>1. NoCampaign.status = "none" /\ NoCampaign.blocked = FALSE
    BY DEF NoCampaign
  <2>2. c.status = "none" /\ c.blocked = FALSE /\ disk.c = c /\ disk.safe = FALSE
    BY <1>1, <2>1
  <2>3. ~Active /\ ~ActiveCampaign(disk.c) /\ ~InRecovery /\ ~Held(c) /\ ~Held(disk.c)
    BY <2>2 DEF Active, ActiveCampaign, ActiveStatuses, InRecovery, Held
  <2>4. \A l \in Levels : entry[l] <= Lot
    BY <1>1, LotAssumption DEF NoEntries
  <2>5. ActiveCampaign(disk.c) = Active
    BY <2>2 DEF Active, ActiveCampaign
  <2> QED
    BY <1>1, <2>2, <2>3, <2>4, <2>5 DEF OrderState
<1>3. OrderControl
  BY <1>1 DEF OrderControl, CoverPcs, RecoveryPcs, EmergencyPcs, ClearPcs, CancelAllPcs,
              ConfirmPcs, RearmPcs, OpenPcs
<1> QED
  BY <1>2, <1>3, CleanInit DEF OrderInv

LEMMA OrderStep == OrderInv /\ [Next]_vars => OrderInv'
<1> SUFFICES ASSUME OrderInv, [Next]_vars PROVE OrderInv'
  OBVIOUS
<1>1. CleanInv' /\ VenueTypeOK'
  <2>1. CleanInv'
    BY OrderFacts, CleanStep
  <2> QED
    BY <2>1 DEF CleanInv, TypeOK
<1>2. CASE UNCHANGED vars
  <2>1. /\ UNCHANGED <<entry, due, target>>
        /\ UNCHANGED <<engineVars, c, safe, disk, pc, regs>>
    BY <1>2 DEF vars, venueVars, engineVars, control
  <2>2. OrderState'
    BY <1>1, <2>1, OrderFacts, ShrinkSame, SameOrder
  <2>3. Active' = Active /\ InRecovery' = InRecovery /\ Entries' = Entries
    BY <2>1 DEF Active, InRecovery, Entries, OpenEntries
  <2>4. OrderControl'
    BY <2>1, <2>3, OrderFacts DEF OrderControl, OpenEntries
  <2> QED
    BY <1>1, <2>2, <2>4 DEF OrderInv
<1>3. CASE Next
  <2>1. OrderState' /\ OrderControl'
    BY <1>1, <1>3, SyncOrder, CoverOrder, RecoveryOrder, FinishOrder, ConfirmOrder, CancelOrder,
       EmergencyOrder, GlobalOrder, CreateOrder, StartOrder, CrashOrder, VenueOrder
       DEF Next, Thread
  <2> QED
    BY <1>1, <2>1 DEF OrderInv
<1> QED
  BY <1>2, <1>3

------------------------------------------------------------------------------
(* Orders and SAFE MODE                                                     *)

\* Only the ladder of a new campaign and the rearm put an entry on the book.
Places == CrPlace \/ CrPlaceFails \/ FinPlace

LEMMA OnlyPlacesGrow == ASSUME OrderInv, [Next]_vars PROVE Shrink \/ Places
<1>0. VenueTypeOK
  BY OrderFacts
<1>1. ASSUME UNCHANGED entry PROVE Shrink
  BY <1>0, <1>1, ShrinkSame
<1>2. ASSUME NEW es, NEW ts, CancelOk(es, ts) \/ CancelFail(es, ts) \/ Gone(es, ts) PROVE Shrink
  BY <1>0, <1>2, ShrinkCancel, ShrinkGone
<1>3. ASSUME Sync \/ Global PROVE Shrink
  BY <1>1, <1>3 DEF Sync, SyncOrders, SyncAccount, SyncMismatch, SyncWhileRecovery, SyncOpen,
     SyncClosed, SyncWaiting, SyncReadFails, ReadFills, Global, GlobAccount, GlobOrders,
     GlobReadFails, venueVars
<1>4. ASSUME Cover PROVE Shrink
  BY <1>1, <1>2, <1>4 DEF Cover, CoverDecide, CoverCancel, CoverPlace, CoverFilled,
     CoverPlaceFails, venueVars
<1>5. ASSUME Recovery PROVE Shrink
  BY <1>1, <1>2, <1>5 DEF Recovery, RecCancel, RecOrders, RecOrdersFail, SrecEntries,
     SrecFlatOrders, SrecFlatFails, SrecFlatCancel, SrecVerify, SrecVerifyFails, venueVars
<1>6. ASSUME Finish PROVE Shrink \/ FinPlace
  BY <1>1, <1>2, <1>6 DEF Finish, FinBlocked, FinL1Orders, FinL1Cancel, FinL1Fails,
     FinErrAccount, FinErrOrders, FinFlat, FinPlaceFails, FinOrders, FinCancel,
     FinCancelFails, FinReadFails, venueVars
<1>7. ASSUME Confirm PROVE Shrink
  BY <1>1, <1>7 DEF Confirm, ConfAccount, ConfDone, ConfAgain, ConfRefused, ConfReadFails, venueVars
<1>8. ASSUME Cancel PROVE Shrink
  BY <1>1, <1>2, <1>8 DEF Cancel, CanAccount, CanOrders, CanCancel, CanCancelFails,
     CanErrAccount, CanErrOrders, CanReadFails, venueVars
<1>9. ASSUME Emergency PROVE Shrink
  <2>1. ASSUME EmgRemoveOk \/ EmgRemoveFail PROVE Shrink
    BY <1>1, <1>2, <2>1 DEF EmgRemoveOk, EmgRemoveFail
  <2> QED
    BY <1>1, <1>9, <2>1 DEF Emergency, EmgOrders, EmgCancel, EmgAccount, EmgClose, EmgFlat,
       EmgFlatOrders, EmgAgain, EmgReread, EmgAgainFails, EmgReadFails, venueVars
<1>10. ASSUME Create PROVE Shrink \/ CrPlace \/ CrPlaceFails
  BY <1>1, <1>10 DEF Create, CrAccount, CrOrders, CrLeverage, CrRefused, CrCount, CrFlat,
     CrfAccount, CrfOrders, CrReadFails, venueVars
<1>11. ASSUME StartMonitor \/ Commands \/ Restart PROVE Shrink
  BY <1>1, <1>11 DEF StartMonitor, Commands, StartReconcile, StartCancel, StartCreate,
     StartEmergency, Begin, Restart, venueVars
<1>12. ASSUME Crash PROVE Shrink
  BY <1>1, <1>2, <1>12 DEF Crash, CallInFlight
<1>13. ASSUME VenueMoves PROVE Shrink
  BY <1>0, <1>13, ShrinkVenue DEF VenueMoves
<1>14. ASSUME UNCHANGED vars PROVE Shrink
  BY <1>1, <1>14 DEF vars, venueVars
<1> QED
  BY <1>3, <1>4, <1>5, <1>6, <1>7, <1>8, <1>9, <1>10, <1>11, <1>12, <1>13, <1>14
     DEF Next, Thread, Places

\* What is known where an entry is placed: which level, how large, and that it was free.
LEMMA PlacedEntry ==
  ASSUME OrderInv, Places
  PROVE  \E k \in Levels :
           /\ entry[k] = 0 /\ ~c.blocked
           /\ entry' = entry \/ entry' = [entry EXCEPT ![k] = Lot]
           /\ CrPlace \/ CrPlaceFails => c.status = "placing"
           /\ FinPlace => k = 1 /\ due[1] = 0
<1>0. OrderControl /\ ControlInv /\ entry \in [Levels -> Nat] /\ regs.k \in Nat
  BY OrderFacts
<1>1. CASE CrPlace \/ CrPlaceFails
  <2>1. pc = "cr_place"
    BY <1>1 DEF CrPlace, CrPlaceFails, At
  <2>2. /\ c.status = "placing" /\ ~c.blocked /\ regs.k \in Levels
        /\ \A l \in Levels : l >= regs.k => entry[l] = 0
    BY <1>0, <2>1 DEF OrderControl
  <2>3. entry[regs.k] = 0
    BY <1>0, <2>2
  <2>4. entry' = entry \/ entry' = [entry EXCEPT ![regs.k] = entry[regs.k] + Lot]
    BY <1>1 DEF CrPlace, CrPlaceFails
  <2>5. entry' = entry \/ entry' = [entry EXCEPT ![regs.k] = Lot]
    BY <2>3, <2>4, LotAssumption
  <2>6. ~FinPlace
    BY <2>1 DEF FinPlace, At
  <2> QED
    BY <2>2, <2>3, <2>5, <2>6
<1>2. CASE FinPlace
  <2>1. pc = "fin_place" /\ entry' = [entry EXCEPT ![1] = entry[1] + Lot]
    BY <1>2 DEF FinPlace, At
  <2>2. entry[1] = 0 /\ due[1] = 0 /\ ~c.blocked
    BY <1>0, <2>1 DEF OrderControl, ControlInv, RearmPcs
  <2>3. 1 \in Levels
    BY NLevelsAssumption DEF Levels
  <2>4. entry' = [entry EXCEPT ![1] = Lot]
    BY <2>1, <2>2, LotAssumption
  <2>5. ~CrPlace /\ ~CrPlaceFails
    BY <2>1 DEF CrPlace, CrPlaceFails, At
  <2> QED
    BY <2>2, <2>3, <2>4, <2>5
<1> QED
  BY <1>1, <1>2 DEF Places

\* Once an unexplained fill has been taken into account, no level gets a larger entry:
\* the rearm of _finish_cycle and the ladder of create_campaign are both out of reach.
THEOREM BlockedPlacesNothing == Spec => NoBuyWhenBlocked
<1>1. ASSUME OrderInv, [Next]_vars
      PROVE  [c.blocked => \A l \in Levels : entry'[l] <= entry[l]]_vars
  BY <1>1, OnlyPlacesGrow, PlacedEntry DEF Shrink
<1> QED
  BY OrderInit, OrderStep, <1>1, PTL DEF Spec, NoBuyWhenBlocked

\* The rearm sends a fresh L1 only after all of the old one is off the book and its native
\* TP has been listed; nothing else but the first ladder places an entry.
THEOREM RearmOnlyReplaces == Spec => RearmReplacesL1
<1>1. ASSUME OrderInv, [Next]_vars
      PROVE  [\A l \in Levels : c.status # "placing" /\ entry'[l] > entry[l]
                => entry[l] = 0 /\ due[l] = 0]_vars
  <2> SUFFICES ASSUME NEW l \in Levels, c.status # "placing", entry'[l] > entry[l]
               PROVE  entry[l] = 0 /\ due[l] = 0
    OBVIOUS
  <2>0. VenueTypeOK /\ VenueTypeOK'
    BY <1>1, OrderStep, OrderFacts DEF OrderInv, CleanInv, TypeOK
  <2>1. entry[l] \in Nat /\ entry'[l] \in Nat
    BY <2>0 DEF VenueTypeOK
  <2>2. ~Shrink
    BY <2>1 DEF Shrink
  <2>3. Places
    BY <1>1, <2>2, OnlyPlacesGrow
  <2>4. PICK k \in Levels :
           /\ entry[k] = 0
           /\ entry' = entry \/ entry' = [entry EXCEPT ![k] = Lot]
           /\ CrPlace \/ CrPlaceFails => c.status = "placing"
           /\ FinPlace => k = 1 /\ due[1] = 0
    BY <1>1, <2>3, PlacedEntry
  <2>5. k = l
    BY <2>0, <2>1, <2>4 DEF VenueTypeOK
  <2> QED
    BY <2>3, <2>4, <2>5 DEF Places
<1> QED
  BY OrderInit, OrderStep, <1>1, PTL DEF Spec, RearmReplacesL1

\* Everything but the global check saves SAFE MODE as it is, or turns it on; a crash brings
\* back what is on disk, which is the same.
LEMMA OnlyGlobalReleases == ASSUME OrderInv, [Next]_vars PROVE (safe => safe') \/ GlobOrders
<1> DEFINE Kept == safe => safe'
<1>1. ASSUME UNCHANGED safe PROVE Kept
  BY <1>1
<1>2. ASSUME UNCHANGED engineVars \/ SyncRaise PROVE Kept
  BY <1>2 DEF engineVars, SyncRaise, Save
<1>3. ASSUME NEW x, Save(x, safe) \/ Save(x, TRUE) PROVE Kept
  BY <1>3 DEF Save
<1>4. ASSUME NEW x, NEW p, NEW v, EnterRecovery(x, p, v) PROVE Kept
  BY <1>4 DEF EnterRecovery, Save
<1>5. ASSUME CoverDone \/ CoverRaise PROVE Kept
  BY <1>2, <1>3, <1>5 DEF CoverDone, CoverRaise
<1>6. ASSUME NEW v, EmgRetry(v) \/ EmgSucceeds PROVE Kept
  BY <1>2, <1>3, <1>4, <1>6 DEF EmgRetry, EmgSucceeds
<1> HIDE DEF Kept
<1>7. ASSUME Sync PROVE Kept
  BY <1>1, <1>2, <1>3, <1>4, <1>7 DEF Sync, SyncOrders, SyncAccount, SyncMismatch,
     SyncWhileRecovery, SyncOpen, SyncClosed, SyncWaiting, SyncReadFails, FillsInMemory
<1>8. ASSUME Cover PROVE Kept
  BY <1>2, <1>5, <1>8 DEF Cover, CoverDecide, CoverCancel, CoverPlace, CoverFilled, CoverPlaceFails
<1>9. ASSUME Recovery PROVE Kept
  BY <1>1, <1>2, <1>3, <1>9 DEF Recovery, RecCancel, RecOrders, RecOrdersFail, SrecEntries,
     SrecFlatOrders, SrecFlatFails, SrecFlatCancel, SrecVerify, SrecVerifyFails
<1>10. ASSUME Finish PROVE Kept
  BY <1>2, <1>3, <1>4, <1>10 DEF Finish, FinBlocked, FinL1Orders, FinL1Cancel, FinL1Fails,
     FinErrAccount, FinErrOrders, FinFlat, FinPlace, FinPlaceFails, FinOrders, FinCancel,
     FinCancelFails, FinReadFails
<1>11. ASSUME Confirm PROVE Kept
  BY <1>2, <1>3, <1>4, <1>11 DEF Confirm, ConfAccount, ConfDone, ConfAgain, ConfRefused, ConfReadFails
<1>12. ASSUME Cancel PROVE Kept
  BY <1>2, <1>3, <1>4, <1>12 DEF Cancel, CanAccount, CanOrders, CanCancel, CanCancelFails,
     CanErrAccount, CanErrOrders, CanReadFails
<1>13. ASSUME Emergency PROVE Kept
  BY <1>2, <1>6, <1>13 DEF Emergency, EmgOrders, EmgCancel, EmgAccount, EmgClose, EmgFlat,
     EmgFlatOrders, EmgAgain, EmgReread, EmgAgainFails, EmgReadFails
<1>14. ASSUME GlobAccount \/ GlobReadFails PROVE Kept
  BY <1>2, <1>3, <1>14 DEF GlobAccount, GlobReadFails
<1>15. ASSUME Create PROVE Kept
  BY <1>2, <1>3, <1>4, <1>15 DEF Create, CrAccount, CrOrders, CrLeverage, CrRefused, CrPlace,
     CrPlaceFails, CreationFailure, CrCount, CrFlat, CrfAccount, CrfOrders, CrReadFails
<1>16. ASSUME StartMonitor \/ Commands \/ Restart PROVE Kept
  BY <1>2, <1>3, <1>16 DEF StartMonitor, Commands, StartReconcile, StartCancel, StartCreate,
     StartEmergency, Restart
<1>17. ASSUME Crash PROVE Kept
  <2>1. safe = disk.safe
    BY OrderFacts DEF OrderState
  <2> QED
    BY <1>1, <1>17, <2>1 DEF Crash
<1>18. ASSUME VenueMoves \/ UNCHANGED vars PROVE Kept
  BY <1>2, <1>18 DEF VenueMoves, vars
<1> QED
  BY <1>7, <1>8, <1>9, <1>10, <1>11, <1>12, <1>13, <1>14, <1>15, <1>16, <1>17, <1>18
     DEF Next, Thread, Global, Kept

\* SAFE MODE ends only when reconcile_system has found nothing: no recovery, and on a coin
\* without a campaign no order of any kind.
THEOREM SafeModeEndsByReconcile == Spec => SafeModeReleased
<1>1. ASSUME OrderInv, [Next]_vars
      PROVE  [safe /\ ~safe' => /\ op = "reconcile" /\ ~InRecovery
                                /\ Active \/ (~Owned(View) /\ ~View.stray)]_vars
  <2> SUFFICES ASSUME safe, ~safe'
               PROVE  /\ op = "reconcile" /\ ~InRecovery
                      /\ Active \/ (~Owned(View) /\ ~View.stray)
    OBVIOUS
  <2>1. safe' = NewSafe
    BY <1>1, OnlyGlobalReleases DEF GlobOrders, Save
  <2> QED
    BY <2>1 DEF NewSafe, AccountRisk
<1> QED
  BY OrderInit, OrderStep, <1>1, PTL DEF Spec, SafeModeReleased

------------------------------------------------------------------------------
(***************************************************************************)
(* The engine implements CampaignContract, for every number of levels, lot *)
(* and bound.                                                              *)
(*                                                                         *)
(* A step is looked at twice: what it does to the book (entries only go,   *)
(* and a clean book stays clean, except where an order is placed) and what *)
(* it does to the campaign (its phase and the block on disk).  The two     *)
(* together are a step of the contract.                                    *)
(***************************************************************************)

LadderStatuses == {"placing", "waiting", "open", "closing", "canceling"}

LEMMA PhaseFacts ==
  ASSUME NEW s \in Statuses
  PROVE  /\ s = "none" => PhaseOf(s) = "off"
         /\ s \in {"recovery", "emergency"} => PhaseOf(s) = "held"
         /\ s \in ClosedStatuses => PhaseOf(s) = "closed"
         /\ s = "emergency_closed" => PhaseOf(s) = "stopped"
         /\ s \in LadderStatuses => PhaseOf(s) = "ladder"
<1>1. s \notin ClosedStatuses \/ s \notin LadderStatuses \cup {"none", "recovery", "emergency", "emergency_closed"}
  BY DEF ClosedStatuses, LadderStatuses
<1>2. s = "none" => PhaseOf(s) = "off"
  BY DEF PhaseOf, ClosedStatuses
<1>3. s \in {"recovery", "emergency"} => PhaseOf(s) = "held"
  BY DEF PhaseOf, ClosedStatuses
<1>4. s \in ClosedStatuses => PhaseOf(s) = "closed"
  BY DEF PhaseOf, ClosedStatuses
<1>5. s = "emergency_closed" => PhaseOf(s) = "stopped"
  BY DEF PhaseOf, ClosedStatuses
<1>6. s \in LadderStatuses => PhaseOf(s) = "ladder"
  BY DEF PhaseOf, ClosedStatuses, LadderStatuses
<1> QED
  BY <1>2, <1>3, <1>4, <1>5, <1>6

LEMMA StatusKinds ==
  /\ ActiveStatuses = LadderStatuses \cup {"recovery", "emergency"}
  /\ Statuses = ActiveStatuses \cup ClosedStatuses \cup {"none", "emergency_closed"}
  /\ ActiveStatuses \cap (ClosedStatuses \cup {"none", "emergency_closed"}) = {}
BY DEF ActiveStatuses, LadderStatuses, ClosedStatuses, Statuses

\* The phase of the campaign in memory, before and after a step.
LEMMA CampaignPhase ==
  ASSUME OrderInv, OrderInv'
  PROVE  /\ Active /\ ~Held(c) => PhaseOf(c.status) = "ladder"
         /\ Active' /\ ~Held(c') => PhaseOf(c'.status) = "ladder"
         /\ Held(c) => PhaseOf(c.status) = "held" /\ disk.c.blocked /\ c.blocked
         /\ Held(c') => PhaseOf(c'.status) = "held" /\ disk'.c.blocked
         /\ ~Active => PhaseOf(c.status) \in {"off", "closed", "stopped"}
         /\ disk.c.blocked \in BOOLEAN /\ disk'.c.blocked \in BOOLEAN
         /\ c.blocked \in BOOLEAN /\ (disk.c.blocked => c.blocked)
<1>1. c \in Campaigns /\ c' \in Campaigns /\ disk.c \in Campaigns /\ disk'.c \in Campaigns
      /\ OrderState /\ OrderState'
  BY OrderFacts DEF OrderInv, CleanInv, TypeOK, EngineTypeOK
<1>2. /\ c.status \in Statuses /\ c'.status \in Statuses /\ c.blocked \in BOOLEAN
      /\ disk.c.blocked \in BOOLEAN /\ disk'.c.blocked \in BOOLEAN
  BY <1>1 DEF Campaigns
<1>3. /\ Held(c) => disk.c.blocked /\ c.blocked
      /\ Held(c') => disk'.c.blocked
      /\ disk.c.blocked => c.blocked
  BY <1>1 DEF OrderState, Held
<1>4. Active /\ ~Held(c) => c.status \in LadderStatuses
  BY StatusKinds DEF Active, Held
<1>5. Active' /\ ~Held(c') => c'.status \in LadderStatuses
  BY StatusKinds DEF Active, Held
<1>6. ~Active => c.status \in ClosedStatuses \cup {"none", "emergency_closed"}
  BY <1>2, StatusKinds DEF Active
<1> QED
  BY <1>2, <1>3, <1>4, <1>5, <1>6, PhaseFacts DEF Held

------------------------------------------------------------------------------
(* The book                                                                 *)

StaysClean == Quiet => Quiet'

LEMMA CleanSame == ASSUME UNCHANGED <<entry, target, due>> PROVE StaysClean
BY DEF StaysClean, Quiet

LEMMA CleanGone ==
  ASSUME NEW es, NEW ts, Gone(es, ts) \/ CancelOk(es, ts) \/ CancelFail(es, ts), UNCHANGED due
  PROVE  StaysClean
<1>1. PICK e, t : Gone(e, t)
  BY DEF CancelOk, CancelFail
<1>2. entry = NoEntries => entry' = NoEntries
  BY <1>1 DEF Gone, NoEntries
<1>3. target = NoTargets => target' = NoTargets
  BY <1>1 DEF Gone, NoTargets
<1> QED
  BY <1>2, <1>3 DEF StaysClean, Quiet

LEMMA CleanTrade ==
  ASSUME NEW p, SetPosition(p, due), UNCHANGED <<entry, target>> PROVE StaysClean
BY DEF StaysClean, Quiet, SetPosition

LEMMA CleanVenue == ASSUME VenueTypeOK, VenueNext PROVE StaysClean
<1>1. ASSUME NEW l \in Levels, EntryFill(l) PROVE StaysClean
  <2>1. entry # NoEntries
    BY <1>1 DEF EntryFill, NoEntries
  <2> QED
    BY <2>1 DEF StaysClean, Quiet
<1>2. ASSUME NEW l \in Levels, ListTarget(l) PROVE StaysClean
  <2>1. due # NoDue
    BY <1>2 DEF ListTarget, NoDue
  <2> QED
    BY <2>1 DEF StaysClean, Quiet
<1>3. ASSUME NEW l \in TargetLevels, TargetFill(l) PROVE StaysClean
  <2>1. target # NoTargets
    BY <1>3 DEF TargetFill, NoTargets
  <2> QED
    BY <2>1 DEF StaysClean, Quiet
<1>4. ASSUME DropReduceOnly PROVE StaysClean
  BY <1>4 DEF DropReduceOnly, StaysClean, Quiet
<1>5. ASSUME StrayBuyFill \/ StraySellFill \/ ManualTrade PROVE StaysClean
  BY <1>5, CleanTrade DEF StrayBuyFill, StraySellFill, ManualTrade
<1>6. ASSUME ManualOrder PROVE StaysClean
  BY <1>6, CleanSame DEF ManualOrder
<1>7. ASSUME ManualCancel PROVE StaysClean
  <2>1. ASSUME NEW l \in Levels, entry[l] > 0 PROVE entry # NoEntries
    BY <2>1 DEF NoEntries
  <2>2. ASSUME NEW l \in TargetLevels, target[l] > 0 PROVE target # NoTargets
    BY <2>2 DEF NoTargets
  <2> QED
    BY <1>7, <2>1, <2>2 DEF ManualCancel, StaysClean, Quiet
<1> QED
  BY <1>1, <1>2, <1>3, <1>4, <1>5, <1>6, <1>7 DEF VenueNext

\* A fallback whose answer is lost.
Lost == At("cover_place") /\ LostFallback /\ UNCHANGED <<entry, due>>

\* Only an order that is placed, an entry or the fallback, ends a clean book.
LEMMA OnlyOrdersSpoil ==
  ASSUME VenueTypeOK, [Next]_vars PROVE StaysClean \/ CoverPlace \/ Lost \/ Places
<1>1. ASSUME UNCHANGED <<entry, target, due>> PROVE StaysClean
  BY <1>1, CleanSame
<1>2. ASSUME NEW es, NEW ts, CancelOk(es, ts) \/ CancelFail(es, ts), UNCHANGED bookVars
      PROVE  StaysClean
  BY <1>2, CleanGone DEF bookVars
<1>3. ASSUME Sync \/ Global PROVE StaysClean
  BY <1>1, <1>3 DEF Sync, SyncOrders, SyncAccount, SyncMismatch, SyncWhileRecovery, SyncOpen,
     SyncClosed, SyncWaiting, SyncReadFails, ReadFills, Global, GlobAccount, GlobOrders,
     GlobReadFails, venueVars
<1>4. ASSUME Cover PROVE StaysClean \/ CoverPlace \/ Lost
  <2>1. ASSUME CoverFilled PROVE StaysClean
    <3>1. target[Fallback] > 0 \/ ~Existing
      BY <2>1 DEF CoverFilled
    <3>2. Fallback \in TargetLevels
      BY NLevelsAssumption DEF Fallback, TargetLevels
    <3>3. target = NoTargets => target' = NoTargets
      <4>1. target' = [target EXCEPT ![Fallback] = 0]
        BY <2>1 DEF CoverFilled
      <4> QED
        BY <3>2, <4>1 DEF NoTargets
    <3>4. due' \in {due, NoDue} /\ entry' = entry
      BY <2>1 DEF CoverFilled, SetPosition
    <3> QED
      BY <3>3, <3>4 DEF StaysClean, Quiet
  <2>2. ASSUME CoverPlaceFails PROVE StaysClean \/ Lost
    BY <1>1, <2>2 DEF CoverPlaceFails, Lost
  <2> QED
    BY <1>1, <1>2, <1>4, <2>1, <2>2 DEF Cover, CoverDecide, CoverCancel, venueVars
<1>5. ASSUME Recovery PROVE StaysClean
  BY <1>1, <1>2, <1>5 DEF Recovery, RecCancel, RecOrders, RecOrdersFail, SrecEntries,
     SrecFlatOrders, SrecFlatFails, SrecFlatCancel, SrecVerify, SrecVerifyFails, venueVars, bookVars
<1>6. ASSUME Finish PROVE StaysClean \/ FinPlace
  BY <1>1, <1>2, <1>6 DEF Finish, FinBlocked, FinL1Orders, FinL1Cancel, FinL1Fails,
     FinErrAccount, FinErrOrders, FinFlat, FinPlaceFails, FinOrders, FinCancel,
     FinCancelFails, FinReadFails, venueVars, bookVars
<1>7. ASSUME Confirm PROVE StaysClean
  BY <1>1, <1>7 DEF Confirm, ConfAccount, ConfDone, ConfAgain, ConfRefused, ConfReadFails, venueVars
<1>8. ASSUME Cancel PROVE StaysClean
  BY <1>1, <1>2, <1>8 DEF Cancel, CanAccount, CanOrders, CanCancel, CanCancelFails,
     CanErrAccount, CanErrOrders, CanReadFails, venueVars
<1>9. ASSUME Emergency PROVE StaysClean
  <2>1. ASSUME EmgRemoveOk \/ EmgRemoveFail PROVE StaysClean
    BY <1>1, <2>1, CleanGone DEF EmgRemoveOk, EmgRemoveFail, bookVars
  <2>2. ASSUME EmgClose PROVE StaysClean
    BY <1>1, <2>2, CleanTrade DEF EmgClose
  <2> QED
    BY <1>1, <1>9, <2>1, <2>2 DEF Emergency, EmgOrders, EmgCancel, EmgAccount, EmgFlat,
       EmgFlatOrders, EmgAgain, EmgReread, EmgAgainFails, EmgReadFails, venueVars
<1>10. ASSUME Create PROVE StaysClean \/ CrPlace \/ CrPlaceFails
  BY <1>1, <1>10 DEF Create, CrAccount, CrOrders, CrLeverage, CrRefused, CrCount, CrFlat,
     CrfAccount, CrfOrders, CrReadFails, venueVars
<1>11. ASSUME StartMonitor \/ Commands \/ Restart PROVE StaysClean
  BY <1>1, <1>11 DEF StartMonitor, Commands, StartReconcile, StartCancel, StartCreate,
     StartEmergency, Begin, Restart, venueVars
<1>12. ASSUME Crash PROVE StaysClean \/ Lost
  BY <1>1, <1>12, CleanGone DEF Crash, CallInFlight, Lost
<1>13. ASSUME VenueMoves PROVE StaysClean
  BY <1>13, CleanVenue DEF VenueMoves
<1>14. ASSUME UNCHANGED vars PROVE StaysClean
  BY <1>1, <1>14 DEF vars, venueVars
<1> QED
  BY <1>3, <1>4, <1>5, <1>6, <1>7, <1>8, <1>9, <1>10, <1>11, <1>12, <1>13, <1>14
     DEF Next, Thread, Places

------------------------------------------------------------------------------
(* The campaign                                                             *)

SamePhase == PhaseOf(c'.status) = PhaseOf(c.status) /\ (disk.c.blocked => disk'.c.blocked)

Holding == PhaseOf(c.status) = "ladder" /\ PhaseOf(c'.status) = "held" /\ disk'.c.blocked

\* A step that moves the campaign on and leaves the book alone.
Turn == Contract!Resume \/ Contract!Close \/ Contract!Stop \/ Contract!Open

Move == SamePhase \/ Holding \/ Turn

BookSame == UNCHANGED <<entry, target, due>>

LEMMA MoveNone == ASSUME UNCHANGED engineVars PROVE Move
BY DEF engineVars, Move, SamePhase

LEMMA MoveSave ==
  ASSUME OrderInv, OrderInv', NEW x, NEW m, Save(x, m), x.status = c.status, c.blocked => x.blocked
  PROVE  Move
BY CampaignPhase DEF Save, Move, SamePhase

\* To recovery or to the emergency, with the block.
LEMMA MoveHold ==
  ASSUME OrderInv, OrderInv', Active, Held(c') PROVE Move
<1>1. PhaseOf(c'.status) = "held" /\ disk'.c.blocked
  BY CampaignPhase
<1>2. CASE Held(c)
  BY <1>1, <1>2, CampaignPhase DEF Move, SamePhase
<1>3. CASE ~Held(c)
  BY <1>1, <1>3, CampaignPhase DEF Move, Holding
<1> QED
  BY <1>2, <1>3

LEMMA MoveRecovery ==
  ASSUME OrderInv, OrderInv', Active, NEW x \in Campaigns, NEW p, NEW v, EnterRecovery(x, p, v)
  PROVE  Move
<1>1. c' = [x EXCEPT !.status = "recovery", !.blocked = TRUE, !.zero = 0]
  BY DEF EnterRecovery, Save
<1>2. c'.status = "recovery"
  BY <1>1 DEF Campaigns
<1> QED
  BY <1>2, MoveHold DEF Held

LEMMA MoveRaise == ASSUME OrderInv, OrderInv', SyncRaise PROVE Move
BY MoveNone, MoveSave DEF SyncRaise

\* To a ladder status: on, or back from an emergency that did nothing.
LEMMA MoveLadder ==
  ASSUME OrderInv, OrderInv', BookSame, Active, ActiveCampaign(c'), ~Held(c'),
         disk.c.blocked => disk'.c.blocked
  PROVE  Move
<1>0. Active'
  BY DEF ActiveCampaign, Active
<1>1. PhaseOf(c'.status) = "ladder"
  BY <1>0, CampaignPhase
<1>2. CASE ~Held(c)
  BY <1>1, <1>2, CampaignPhase DEF Move, SamePhase
<1>3. CASE Held(c)
  <2>1. PhaseOf(c.status) = "held" /\ disk.c.blocked = TRUE /\ disk'.c.blocked = TRUE
    BY <1>3, CampaignPhase
  <2>2. Quiet' = Quiet /\ OpenEntries(entry)' = OpenEntries(entry)
    BY DEF BookSame, Quiet, OpenEntries
  <2>3. Contract!Resume
    BY <1>1, <2>1, <2>2 DEF Contract!Resume
  <2> QED
    BY <2>3 DEF Move, Turn
<1> QED
  BY <1>2, <1>3

\* To a closed status, on a clean book.
LEMMA MoveClose ==
  ASSUME OrderInv, OrderInv', BookSame, Active, Quiet, c'.status \in ClosedStatuses,
         disk'.c.blocked = disk.c.blocked
  PROVE  Move
<1>1. PhaseOf(c'.status) = "closed"
  <2>1. c'.status \in Statuses
    BY DEF Statuses
  <2> QED
    BY <2>1, PhaseFacts
<1>2. PhaseOf(c.status) \in {"ladder", "held"}
  BY CampaignPhase
<1>3. Quiet' = Quiet /\ OpenEntries(entry)' = OpenEntries(entry)
  BY DEF BookSame, Quiet, OpenEntries
<1>4. Contract!Close
  BY <1>1, <1>2, <1>3 DEF Contract!Close
<1> QED
  BY <1>4 DEF Move, Turn

\* The end of an emergency, on a book without entries.
LEMMA MoveStop ==
  ASSUME OrderInv, OrderInv', BookSame, entry = NoEntries, c.status = "emergency",
         c'.status = "emergency_closed", disk'.c.blocked = c.blocked
  PROVE  Move
<1>1. PhaseOf(c'.status) = "stopped" /\ PhaseOf(c.status) = "held"
  <2>1. c'.status \in Statuses /\ c.status \in Statuses
    BY DEF Statuses, ActiveStatuses
  <2> QED
    BY <2>1, PhaseFacts
<1>2. disk.c.blocked = TRUE /\ c.blocked = TRUE
  BY CampaignPhase DEF Held
<1>3. Quiet' = Quiet /\ OpenEntries(entry)' = OpenEntries(entry)
  BY DEF BookSame, Quiet, OpenEntries
<1>4. OpenEntries(entry) = {}
  BY DEF NoEntries, OpenEntries
<1>5. Contract!Stop
  BY <1>1, <1>2, <1>3, <1>4 DEF Contract!Stop
<1> QED
  BY <1>5 DEF Move, Turn

LEMMA MoveCovered ==
  ASSUME OrderInv, OrderInv', pc \in CoverPcs, CoverDone PROVE SamePhase
<1> DEFINE x == IF InRecovery THEN c ELSE [c EXCEPT !.status = "closing"]
<1>0. c \in Campaigns /\ OrderControl
  BY OrderFacts
<1>1. Save(x, safe) /\ x.blocked = c.blocked
  BY <1>0 DEF CoverDone, Campaigns
<1>2. c.status \in {"open", "recovery"}
  BY <1>0 DEF OrderControl
<1>3. x.status = c.status \/ (c.status = "open" /\ x.status = "closing")
  BY <1>0, <1>2 DEF InRecovery, Campaigns
<1> HIDE DEF x
<1>4. PhaseOf(x.status) = PhaseOf(c.status)
  <2>1. PhaseOf("open") = PhaseOf("closing")
    BY PhaseFacts, StatusKinds DEF LadderStatuses
  <2> QED
    BY <1>3, <2>1
<1> QED
  BY <1>1, <1>4, CampaignPhase DEF Save, SamePhase

LEMMA MoveUncovered == ASSUME OrderInv, OrderInv', CoverRaise PROVE Move
BY MoveSave, MoveRaise DEF CoverRaise

LEMMA SyncMoves == ASSUME OrderInv, OrderInv', Sync PROVE Move
<1>0. /\ VenueTypeOK /\ EngineTypeOK /\ Applied \in Campaigns /\ ControlInv
      /\ Applied.status = c.status /\ (c.blocked => Applied.blocked)
  BY OrderFacts, AppliedType, SaveApplied
<1>1. Active
  <2>1. pc \in SyncPcs
    BY DEF Sync, SyncOrders, SyncAccount, SyncMismatch, SyncWhileRecovery, SyncOpen,
           SyncClosed, SyncWaiting, SyncReadFails, At, SyncPcs
  <2> QED
    BY <1>0, <2>1, WorkParts DEF ControlInv
<1>2. CASE UNCHANGED engineVars
  BY <1>2, MoveNone
<1>3. CASE SyncMismatch
  BY <1>0, <1>1, <1>3, MoveRecovery DEF SyncMismatch
<1>4. CASE c' = Applied /\ FillsInMemory
  BY <1>0, <1>4 DEF FillsInMemory, Move, SamePhase
<1>5. CASE SyncOpen
  <2>1. c' = [Applied EXCEPT !.had = TRUE, !.status = "open"] /\ UNCHANGED disk /\ BookSame
    BY <1>5 DEF SyncOpen, FillsInMemory, ReadFills, BookSame
  <2>2. c'.status = "open"
    BY <1>0, <2>1 DEF Campaigns
  <2>3. ActiveCampaign(c') /\ ~Held(c')
    BY <2>2 DEF ActiveCampaign, ActiveStatuses, Held
  <2> QED
    BY <1>1, <2>1, <2>3, MoveLadder
<1>6. CASE SyncWaiting
  BY <1>0, <1>6, MoveSave DEF SyncWaiting
<1>7. CASE SyncReadFails
  BY <1>7, MoveRaise DEF SyncReadFails
<1> QED
  BY <1>2, <1>3, <1>4, <1>5, <1>6, <1>7
     DEF Sync, SyncOrders, SyncAccount, SyncWhileRecovery, SyncClosed

LEMMA CoverMoves == ASSUME OrderInv, OrderInv', Cover PROVE Move
<1>1. pc \in CoverPcs
  BY DEF Cover, CoverDecide, CoverCancel, CoverPlace, CoverFilled, CoverPlaceFails, At, CoverPcs
<1>2. CASE CoverDone
  BY <1>1, <1>2, MoveCovered DEF Move
<1>3. CASE UNCHANGED engineVars
  BY <1>3, MoveNone
<1>4. CASE CoverRaise
  BY <1>4, MoveUncovered
<1> QED
  BY <1>2, <1>3, <1>4 DEF Cover, CoverDecide, CoverCancel, CoverPlace, CoverFilled, CoverPlaceFails

LEMMA RecoveryMoves == ASSUME OrderInv, OrderInv', Recovery PROVE Move
<1>0. /\ VenueTypeOK /\ OrderState /\ OrderControl /\ ControlInv /\ c \in Campaigns
  BY OrderFacts
<1>1. CASE UNCHANGED engineVars
  BY <1>1, MoveNone
<1>2. ASSUME NEW m, Save(c, m) PROVE Move
  BY <1>2, MoveSave
<1>3. CASE SyncRaise
  BY <1>3, MoveRaise
<1>4. CASE c' = [c EXCEPT !.zero = 0] /\ UNCHANGED <<safe, disk, unsaved>>
  <2>1. c'.status = c.status
    BY <1>0, <1>4 DEF Campaigns
  <2> QED
    BY <1>4, <2>1 DEF Move, SamePhase
<1>5. CASE Save([c EXCEPT !.zero = 0], safe)
  <2> DEFINE x == [c EXCEPT !.zero = 0]
  <2>1. Save(x, safe) /\ x.status = c.status /\ x.blocked = c.blocked
    BY <1>0, <1>5 DEF Campaigns
  <2> HIDE DEF x
  <2> QED
    BY <2>1, MoveSave
<1>6. CASE SrecVerify
  <2>1. /\ pc = "srec_verify" /\ Save(Counted, safe) /\ BookSame
    BY <1>6 DEF SrecVerify, At, venueVars, BookSame
  <2>2. InRecovery /\ Active /\ regs.pos = 0 /\ (c.zero >= 1 => due = NoDue)
    <3>1. pc \in FlatPcs /\ pc \in ReadPcs /\ pc \in RecoveryPcs
      BY <2>1 DEF FlatPcs, ReadPcs, RecoveryPcs
    <3>2. InRecovery /\ regs.pos = 0
      BY <1>0, <3>1 DEF ControlInv
    <3> QED
      BY <1>0, <3>1, <3>2 DEF ControlInv, InRecovery, Active, ActiveStatuses
  <2>3. Counted.blocked = c.blocked /\ c.blocked = TRUE /\ disk.c.blocked = TRUE
    <3>1. c.blocked = TRUE /\ disk.c.blocked = TRUE
      BY <2>2, CampaignPhase DEF InRecovery, Held
    <3>2. Counted.blocked = c.blocked
      BY <1>0 DEF Counted, Campaigns
    <3> QED
      BY <3>1, <3>2
  <2>4. CASE Counted.status = c.status
    BY <2>1, <2>3, <2>4, MoveSave
  <2>5. CASE Counted.status # c.status
    <3>1. ~Owned(View) /\ c.zero + 1 >= RecoveryReads /\ Counted.status = "recovery_closed"
      <4>1. c.zero \in Nat
        BY <1>0 DEF Campaigns
      <4> QED
        BY <1>0, <2>5, <4>1, ReadsAssumption DEF Counted, Campaigns
    <3>2. c.zero >= 1
      BY <1>0, <3>1, ReadsAssumption DEF Campaigns
    <3>3. Quiet
      BY <1>0, <2>2, <3>1, <3>2, NotOwned DEF Quiet
    <3>4. c'.status \in ClosedStatuses
      BY <2>1, <3>1 DEF Save, ClosedStatuses
    <3>5. disk'.c.blocked = disk.c.blocked
      BY <2>1, <2>3 DEF Save
    <3> QED
      BY <2>1, <2>2, <3>3, <3>4, <3>5, MoveClose
  <2> QED
    BY <2>4, <2>5
<1> QED
  BY <1>1, <1>2, <1>3, <1>4, <1>5, <1>6 DEF Recovery, RecCancel, RecOrders, RecOrdersFail,
     SrecEntries, SrecFlatOrders, SrecFlatFails, SrecFlatCancel, SrecVerifyFails

LEMMA FinishMoves == ASSUME OrderInv, OrderInv', Finish PROVE Move
<1>0. c \in Campaigns /\ ControlInv /\ OrderState
  BY OrderFacts
<1>1. Active
  <2>1. pc \in FinishPcs
    BY DEF Finish, FinBlocked, FinL1Orders, FinL1Cancel, FinL1Fails, FinErrAccount,
       FinErrOrders, FinFlat, FinPlace, FinPlaceFails, FinOrders, FinCancel,
       FinCancelFails, FinReadFails, At, FinishPcs
  <2> QED
    BY <1>0, <2>1, WorkParts DEF ControlInv
<1>2. CASE UNCHANGED engineVars
  BY <1>2, MoveNone
<1>3. ASSUME NEW p, NEW v, EnterRecovery(c, p, v) PROVE Move
  BY <1>0, <1>1, <1>3, MoveRecovery
<1>4. CASE SyncRaise
  BY <1>4, MoveRaise
<1>5. CASE FinPlace
  <2>1. pc = "fin_place" /\ Save(Rearmed, safe)
    BY <1>5 DEF FinPlace, At
  <2>2. ~c.blocked
    BY <1>0, <2>1 DEF ControlInv, RearmPcs
  <2>3. ~Held(c) /\ ~disk.c.blocked
    BY <2>2, CampaignPhase
  <2>4. c'.status = "waiting"
    BY <1>0, <2>1 DEF Save, Rearmed, Campaigns
  <2>5. Active' /\ ~Held(c')
    BY <2>4 DEF Active, ActiveStatuses, Held
  <2> QED
    BY <1>1, <2>3, <2>5, CampaignPhase DEF Move, SamePhase
<1> QED
  BY <1>2, <1>3, <1>4, <1>5 DEF Finish, FinBlocked, FinL1Orders, FinL1Cancel, FinL1Fails,
     FinErrAccount, FinErrOrders, FinFlat, FinPlaceFails, FinOrders, FinCancel,
     FinCancelFails, FinReadFails

LEMMA ConfirmMoves == ASSUME OrderInv, OrderInv', Confirm PROVE Move
<1>0. VenueTypeOK /\ c \in Campaigns /\ ControlInv /\ OrderControl
  BY OrderFacts
<1>1. Active /\ pc \in ConfirmPcs
  <2>1. pc \in ConfirmPcs
    BY DEF Confirm, ConfAccount, ConfDone, ConfAgain, ConfRefused, ConfReadFails, At, ConfirmPcs
  <2> QED
    BY <1>0, <2>1, WorkParts DEF ControlInv
<1>2. CASE UNCHANGED engineVars
  BY <1>2, MoveNone
<1>3. CASE SyncRaise
  BY <1>3, MoveRaise
<1>4. CASE ConfRefused
  BY <1>0, <1>1, <1>4, MoveRecovery DEF ConfRefused
<1>5. CASE ConfDone
  <2>1. pc = "conf_orders" /\ Save(Confirmed, safe) /\ regs.pos = 0 /\ ~Owned(View) /\ BookSame
    BY <1>5 DEF ConfDone, At, Enough, CleanRead, venueVars, BookSame
  <2>2. Quiet
    BY <1>0, <2>1, NotOwned DEF ControlInv, Quiet
  <2>3. Confirmed.status \in ClosedStatuses /\ Confirmed.blocked = c.blocked
    <3>1. CASE op = "canceling"
      BY <1>0, <3>1 DEF Confirmed, Campaigns, ClosedStatuses
    <3>2. CASE op # "canceling"
      BY <1>0, <3>2 DEF Confirmed, Campaigns, ClosedStatuses
    <3> QED
      BY <3>1, <3>2
  <2>4. disk.c.blocked = c.blocked
    BY <1>0, <1>1 DEF OrderControl, ClearPcs
  <2>5. c'.status \in ClosedStatuses /\ disk'.c.blocked = disk.c.blocked
    BY <2>1, <2>3, <2>4 DEF Save
  <2> QED
    BY <1>1, <2>1, <2>2, <2>5, MoveClose
<1> QED
  BY <1>2, <1>3, <1>4, <1>5 DEF Confirm, ConfAccount, ConfAgain, ConfReadFails

LEMMA CancelMoves == ASSUME OrderInv, OrderInv', Cancel PROVE Move
<1>0. c \in Campaigns /\ ControlInv
  BY OrderFacts
<1>1. Active
  <2>1. pc \in CancelPcs
    BY DEF Cancel, CanAccount, CanOrders, CanCancel, CanCancelFails, CanErrAccount,
           CanErrOrders, CanReadFails, At, CancelPcs
  <2> QED
    BY <1>0, <2>1, WorkParts DEF ControlInv
<1>2. CASE UNCHANGED engineVars
  BY <1>2, MoveNone
<1>3. ASSUME NEW p, NEW v, EnterRecovery(c, p, v) PROVE Move
  BY <1>0, <1>1, <1>3, MoveRecovery
<1>4. CASE Save([c EXCEPT !.status = "canceling"], safe) /\ UNCHANGED venueVars
  <2>1. c'.status = "canceling" /\ disk'.c.blocked = c.blocked /\ BookSame
    BY <1>0, <1>4 DEF Save, Campaigns, venueVars, BookSame
  <2>2. ActiveCampaign(c') /\ ~Held(c')
    BY <2>1 DEF ActiveCampaign, ActiveStatuses, Held
  <2> QED
    BY <1>1, <2>1, <2>2, CampaignPhase, MoveLadder
<1> QED
  BY <1>2, <1>3, <1>4 DEF Cancel, CanAccount, CanOrders, CanCancel, CanCancelFails,
     CanErrAccount, CanErrOrders, CanReadFails

\* emergency_close gives up for this round, or declares the close unconfirmed.
LEMMA MoveRetry == ASSUME OrderInv, OrderInv', NEW v, EmgRetry(v) PROVE Move
BY OrderFacts, MoveNone, MoveSave, MoveRecovery DEF EmgRetry

LEMMA MoveSucceeds ==
  ASSUME OrderInv, OrderInv', pc \in EmergencyPcs, EmgSucceeds,
         Active => BookSame /\ entry = NoEntries
  PROVE  Move
<1>0. c \in Campaigns /\ OrderControl
  BY OrderFacts
<1>1. CASE Active
  <2>1. c.status = "emergency"
    BY <1>0, <1>1 DEF OrderControl
  <2>2. c' = [c EXCEPT !.status = "emergency_closed", !.managed = 0] /\ disk'.c = c'
    BY <1>1 DEF EmgSucceeds, Save
  <2>3. c'.status = "emergency_closed" /\ disk'.c.blocked = c.blocked
    BY <1>0, <2>2 DEF Campaigns
  <2> QED
    BY <1>1, <2>1, <2>3, MoveStop
<1>2. CASE ~Active
  BY <1>2, MoveSave DEF EmgSucceeds
<1> QED
  BY <1>1, <1>2

LEMMA EmergencyMoves == ASSUME OrderInv, OrderInv', Emergency PROVE Move
<1>0. VenueTypeOK /\ VenueTypeOK' /\ OrderControl
  BY OrderFacts DEF OrderInv, CleanInv, TypeOK
<1>1. CASE UNCHANGED engineVars
  BY <1>1, MoveNone
<1>2. ASSUME NEW v, EmgRetry(v) PROVE Move
  BY <1>2, MoveRetry
<1>3. CASE EmgReread
  <2>1. pc \in EmergencyPcs /\ BookSame
    BY <1>3 DEF EmgReread, At, EmergencyPcs, venueVars, BookSame
  <2>2. CASE Remaining(View)
    BY <1>2, <1>3, <2>2 DEF EmgReread
  <2>3. CASE ~Remaining(View)
    <3>1. entry = NoEntries
      BY <1>0, <2>3, NotOwned DEF Remaining
    <3> QED
      BY <1>3, <2>1, <2>3, <3>1, MoveSucceeds DEF EmgReread
  <2> QED
    BY <2>2, <2>3
<1>4. CASE EmgAgainFails
  <2>1. pc \in {"emg_again", "emg_reread"} /\ pc \in EmergencyPcs
    BY <1>4 DEF EmgAgainFails, At, EmergencyPcs
  <2>2. CASE Remaining(regs.view)
    BY <1>2, <1>4, <2>2 DEF EmgAgainFails
  <2>3. CASE ~Remaining(regs.view)
    <3>1. Entries = {} /\ Targets = {}
      BY <2>3 DEF Remaining, Owned, Entries, Targets
    <3>2. entry = NoEntries
      <4>1. OpenEntries(entry) = {}
        BY <1>0, <2>1, <3>1 DEF OrderControl
      <4> QED
        BY <1>0, <4>1, EmptyBook
    <3>3. ASSUME Active PROVE BookSame
      <4>1. ~CancelFail(Entries, Targets)
        BY <3>1 DEF CancelFail
      <4> QED
        BY <1>4, <3>3, <4>1 DEF EmgAgainFails, EmgRemoveFail, venueVars, BookSame
    <3>4. EmgSucceeds
      BY <1>4, <2>3 DEF EmgAgainFails
    <3> QED
      BY <2>1, <3>2, <3>3, <3>4, MoveSucceeds
  <2> QED
    BY <2>2, <2>3
<1> QED
  BY <1>1, <1>2, <1>3, <1>4 DEF Emergency, EmgOrders, EmgCancel, EmgAccount, EmgClose, EmgFlat,
     EmgFlatOrders, EmgAgain, EmgReadFails

LEMMA CreateMoves == ASSUME OrderInv, OrderInv', Create PROVE Move
<1>0. /\ c \in Campaigns /\ disk.c \in Campaigns /\ ControlInv /\ OrderControl /\ OrderState
      /\ OrderState'
  BY OrderFacts DEF OrderInv
<1>1. CASE UNCHANGED engineVars
  BY <1>1, MoveNone
<1>2. CASE CrLeverage
  <2>1. pc = "cr_leverage" /\ Save(NewCampaign, safe) /\ BookSame
    BY <1>2 DEF CrLeverage, At, BookSame
  <2>2. ~Active /\ target = NoTargets /\ due = NoDue
    BY <1>0, <2>1 DEF OrderControl, OpenPcs
  <2>3. Quiet
    BY <1>0, <2>2 DEF OrderState, Quiet
  <2>4. NewCampaign.status = "placing" /\ NewCampaign.blocked = FALSE
    BY DEF NewCampaign, NoCampaign
  <2>5. c'.status = "placing" /\ disk'.c.blocked = FALSE
    BY <2>1, <2>4 DEF Save
  <2>6. PhaseOf(c'.status) = "ladder"
    <3>1. Active' /\ ~Held(c')
      BY <2>5 DEF Active, ActiveStatuses, Held
    <3> QED
      BY <3>1, CampaignPhase
  <2>7. Quiet' = Quiet /\ OpenEntries(entry)' = OpenEntries(entry)
    BY <2>1 DEF BookSame, Quiet, OpenEntries
  <2>8. PhaseOf(c.status) \in {"off", "closed", "stopped"}
    BY <2>2, CampaignPhase
  <2>9. Contract!Open
    BY <2>3, <2>5, <2>6, <2>7, <2>8 DEF Contract!Open
  <2> QED
    BY <2>9 DEF Move, Turn
<1>3. CASE CrPlace
  BY <1>3, MoveSave DEF CrPlace
<1>4. CASE CrFlat /\ Save([c EXCEPT !.status = "waiting"], safe)
  <2>1. c'.status = "waiting" /\ disk'.c.blocked = c.blocked
    BY <1>0, <1>4 DEF Save, Campaigns
  <2>2. ActiveCampaign(c') /\ ~Held(c')
    BY <2>1 DEF ActiveCampaign, ActiveStatuses, Held
  <2>3. Active
    BY <1>0, <1>4 DEF CrFlat, At, ControlInv, WorkPcs
  <2>4. BookSame
    BY <1>4 DEF CrFlat, venueVars, BookSame
  <2> QED
    BY <2>1, <2>2, <2>3, <2>4, CampaignPhase, MoveLadder
<1>5. ASSUME pc \in {"crf_account", "crf_orders"}, NEW p, NEW v, EnterRecovery(c, p, v)
      PROVE  Move
  <2>1. Active
    BY <1>0, <1>5 DEF ControlInv, WorkPcs
  <2> QED
    BY <1>0, <1>5, <2>1, MoveRecovery
<1>6. CASE CrReadFails
  <2>1. pc \in {"cr_account", "cr_orders", "cr_count", "cr_flat", "crf_account", "crf_orders"}
    BY <1>6 DEF CrReadFails, CreatePcs
  <2> QED
    BY <1>1, <1>5, <1>6, <2>1 DEF CrReadFails, CreationFailure
<1> QED
  BY <1>1, <1>2, <1>3, <1>4, <1>5, <1>6 DEF Create, CrAccount, CrOrders, CrRefused, CrPlaceFails,
     CreationFailure, CrCount, CrFlat, CrfAccount, CrfOrders, At

LEMMA OtherMoves ==
  ASSUME OrderInv, OrderInv',
         Global \/ StartMonitor \/ Commands \/ Restart \/ VenueMoves \/ UNCHANGED vars
  PROVE  Move
<1>0. c \in Campaigns
  BY OrderFacts
<1>1. CASE UNCHANGED engineVars
  BY <1>1, MoveNone
<1>2. CASE Global
  BY <1>1, <1>2, MoveSave DEF Global, GlobAccount, GlobOrders, GlobReadFails
<1>3. CASE StartEmergency
  <2>1. CASE Active
    <3>1. c' = [c EXCEPT !.status = "emergency", !.blocked = TRUE]
      BY <1>3, <2>1 DEF StartEmergency, Save
    <3>2. c'.status = "emergency"
      BY <1>0, <3>1 DEF Campaigns
    <3> QED
      BY <2>1, <3>2, MoveHold DEF Held
  <2> QED
    BY <1>1, <1>3, <2>1 DEF StartEmergency
<1> QED
  BY <1>1, <1>2, <1>3 DEF StartMonitor, Commands, StartReconcile, StartCancel, StartCreate,
     Restart, VenueMoves, vars

\* A crash goes back to the campaign on disk, which may be held while the one in memory is
\* a ladder again, never the other way round.
LEMMA CrashMoves == ASSUME OrderInv, OrderInv', Crash PROVE Move
<1>0. OrderState /\ c' = disk.c /\ disk' = disk
  BY OrderFacts DEF Crash
<1>1. CASE ~Active
  BY <1>0, <1>1 DEF OrderState, Move, SamePhase
<1>2. CASE Active /\ Held(c')
  BY <1>2, MoveHold
<1>3. CASE Active /\ ~Held(c')
  <2>1. ~Held(c) /\ Active'
    BY <1>0, <1>3 DEF OrderState, Active, ActiveCampaign
  <2> QED
    BY <1>0, <1>3, <2>1, CampaignPhase DEF Move, SamePhase
<1> QED
  BY <1>1, <1>2, <1>3

LEMMA EveryMove == ASSUME OrderInv, OrderInv', [Next]_vars PROVE Move
BY SyncMoves, CoverMoves, RecoveryMoves, FinishMoves, ConfirmMoves, CancelMoves, EmergencyMoves,
   CreateMoves, OtherMoves, CrashMoves DEF Next, Thread

------------------------------------------------------------------------------
(* The two together                                                         *)

LEMMA BlockedStays ==
  ASSUME OrderInv, OrderInv', disk.c.blocked => disk'.c.blocked PROVE Contract!MayBlock
BY CampaignPhase DEF Contract!MayBlock

LEMMA BookShrinks ==
  ASSUME OrderInv, OrderInv', Shrink, StaysClean PROVE Contract!Shrinks
<1>1. OpenEntries(entry') \subseteq OpenEntries(entry)
  BY OrderFacts, ShrinkFacts DEF OrderInv, CleanInv, TypeOK
<1>2. Quiet' \in BOOLEAN
  BY DEF Quiet
<1> QED
  BY <1>1, <1>2 DEF Contract!Shrinks, StaysClean, OpenEntries

LEMMA CoverProtects == ASSUME OrderInv, OrderInv', CoverPlace PROVE Contract!Protect
<1>1. pc \in CoverPcs /\ CoverDone /\ entry' = entry
  BY DEF CoverPlace, At, CoverPcs
<1>2. SamePhase
  BY <1>1, MoveCovered
<1>3. PhaseOf(c.status) \in {"ladder", "held"}
  <2>1. Active
    BY <1>1, OrderFacts, WorkParts DEF ControlInv
  <2> QED
    BY <2>1, CampaignPhase
<1>4. ~Quiet'
  <2>1. PICK m \in 1..regs.pos : target' = [target EXCEPT ![Fallback] = m]
    BY DEF CoverPlace
  <2>2. Fallback \in TargetLevels
    BY NLevelsAssumption DEF Fallback, TargetLevels
  <2>3. target'[Fallback] # 0
    BY <2>1, <2>2, OrderFacts
  <2> QED
    BY <2>2, <2>3 DEF Quiet, NoTargets
<1>5. Quiet' = FALSE
  BY <1>4 DEF Quiet
<1> QED
  BY <1>1, <1>2, <1>3, <1>5, BlockedStays DEF SamePhase, Contract!Protect, OpenEntries

LEMMA LostPlaces ==
  ASSUME OrderInv, OrderInv', Lost, ~StaysClean
  PROVE  PhaseOf(c.status) \in {"ladder", "held"} /\ entry' = entry /\ Quiet' = FALSE
<1>1. pc \in CoverPcs /\ entry' = entry
  BY DEF Lost, At, CoverPcs
<1>2. Active
  BY <1>1, OrderFacts, WorkParts DEF ControlInv
<1>3. PhaseOf(c.status) \in {"ladder", "held"}
  BY <1>2, CampaignPhase
<1>4. Quiet' = FALSE
  <2>1. Quiet' \in BOOLEAN
    BY DEF Quiet
  <2> QED
    BY <2>1 DEF StaysClean
<1> QED
  BY <1>1, <1>3, <1>4

LEMMA PlaceAllowed == ASSUME OrderInv, OrderInv', Places PROVE Contract!Place \/ Contract!Settle
<1>0. /\ c \in Campaigns /\ ControlInv /\ entry \in [Levels -> Nat] /\ OrderState
  BY OrderFacts
<1>1. PICK k \in Levels :
        /\ entry[k] = 0 /\ ~c.blocked
        /\ entry' = entry \/ entry' = [entry EXCEPT ![k] = Lot]
  BY PlacedEntry
<1>2. UNCHANGED <<target, due>>
  BY DEF Places, CrPlace, CrPlaceFails, FinPlace
<1>3. /\ Active /\ Active' /\ ~Held(c) /\ ~Held(c')
      /\ disk.c.blocked = FALSE /\ disk'.c.blocked = FALSE
  <2>1. Active
    BY <1>0, WorkParts DEF Places, CrPlace, CrPlaceFails, FinPlace, At, ControlInv, FinishPcs, WorkPcs
  <2>2. ~Held(c) /\ disk.c.blocked = FALSE
    BY <1>1, CampaignPhase
  <2>3. CASE CrPlace \/ CrPlaceFails
    <3>1. c' = c /\ disk'.c \in {c, disk.c}
      BY <2>3 DEF CrPlace, CrPlaceFails, CreationFailure, Save, engineVars
    <3>2. c.blocked = FALSE
      BY <1>1, CampaignPhase
    <3> QED
      BY <2>1, <2>2, <3>1, <3>2 DEF Active
  <2>4. CASE FinPlace
    <3>1. c' = Rearmed /\ disk'.c = Rearmed
      BY <2>4 DEF FinPlace, Save
    <3>2. Rearmed.status = "waiting" /\ Rearmed.blocked = FALSE
      <4>1. c.blocked = FALSE
        BY <1>1, CampaignPhase
      <4> QED
        BY <1>0, <4>1 DEF Rearmed, Campaigns
    <3> QED
      BY <2>1, <2>2, <3>1, <3>2 DEF Active, ActiveStatuses, Held
  <2> QED
    BY <2>3, <2>4 DEF Places
<1>4. PhaseOf(c.status) = "ladder" /\ PhaseOf(c'.status) = "ladder"
  BY <1>3, CampaignPhase
<1>5. CASE entry' = entry
  <2>1. Shrink /\ StaysClean
    BY <1>2, <1>5, OrderFacts, ShrinkSame, CleanSame
  <2> QED
    BY <1>3, <1>4, <2>1, BookShrinks, BlockedStays DEF Contract!Settle
<1>6. CASE entry' = [entry EXCEPT ![k] = Lot]
  <2>1. k \notin OpenEntries(entry)
    BY <1>1 DEF OpenEntries
  <2>2. entry'[k] = Lot /\ \A l \in Levels : l # k => entry'[l] = entry[l]
    BY <1>0, <1>6
  <2>3. OpenEntries(entry)' = OpenEntries(entry) \cup {k}
    BY <1>0, <2>2, LotAssumption DEF OpenEntries
  <2>4. ~Quiet'
    BY <2>2, LotAssumption DEF Quiet, NoEntries
  <2>5. Quiet' = FALSE
    BY <2>4 DEF Quiet
  <2> QED
    BY <1>3, <1>4, <2>1, <2>3, <2>5 DEF Contract!Place
<1> QED
  BY <1>1, <1>5, <1>6

LEMMA ContractBegins == Init => Contract!ContractInit
<1> SUFFICES ASSUME Init PROVE Contract!ContractInit
  OBVIOUS
<1>1. /\ c = NoCampaign /\ disk.c = NoCampaign
      /\ entry = NoEntries /\ target = NoTargets /\ due = NoDue
  BY DEF Init, VenueInit
<1>2. PhaseOf(c.status) = "off" /\ disk.c.blocked = FALSE
  <2>1. c.status = "none" /\ disk.c.blocked = FALSE
    BY <1>1 DEF NoCampaign
  <2> QED
    BY <2>1 DEF PhaseOf, ClosedStatuses
<1>3. OpenEntries(entry) = {}
  BY <1>1 DEF OpenEntries, NoEntries
<1>4. Quiet = TRUE
  BY <1>1 DEF Quiet
<1> QED
  BY <1>2, <1>3, <1>4 DEF Contract!ContractInit

LEMMA ContractGoesOn ==
  ASSUME OrderInv, OrderInv', [Next]_vars PROVE Contract!ContractNext
<1>1. CASE Turn
  BY <1>1 DEF Turn, Contract!ContractNext
<1>2. CASE CoverPlace
  BY <1>2, CoverProtects DEF Contract!ContractNext
<1>3. CASE Places
  BY <1>3, PlaceAllowed DEF Contract!ContractNext
<1>4. CASE Shrink /\ StaysClean /\ SamePhase
  BY <1>4, BookShrinks, BlockedStays DEF SamePhase, Contract!Settle, Contract!ContractNext
<1>5. ASSUME (Shrink /\ StaysClean) \/ (Lost /\ ~StaysClean), Holding PROVE Contract!ContractNext
  <2>1. disk'.c.blocked = TRUE
    BY <1>5, CampaignPhase DEF Holding
  <2>2. OpenEntries(entry)' \subseteq OpenEntries(entry) /\ Quiet' \in BOOLEAN
    BY <1>5, BookShrinks, LostPlaces DEF Contract!Shrinks, OpenEntries
  <2> QED
    BY <1>5, <2>1, <2>2 DEF Holding, Contract!Hold, Contract!ContractNext
<1>6. CASE Lost /\ ~StaysClean /\ SamePhase
  <2>1. OpenEntries(entry)' = OpenEntries(entry)
    BY <1>6, LostPlaces DEF OpenEntries
  <2>2. Contract!Protect
    BY <1>6, <2>1, LostPlaces, BlockedStays DEF SamePhase, Contract!Protect
  <2> QED
    BY <2>2 DEF Contract!ContractNext
<1>7. Turn \/ SamePhase \/ Holding
  BY EveryMove DEF Move
<1>8. Shrink \/ Places
  BY OnlyPlacesGrow
<1>9. StaysClean \/ CoverPlace \/ Lost \/ Places
  BY OnlyOrdersSpoil, OrderFacts
<1> QED
  BY <1>1, <1>2, <1>3, <1>4, <1>5, <1>6, <1>7, <1>8, <1>9

\* The engine, with its calls, crashes and two copies of the state, implements what
\* LIVE_HYPERLIQUID.md promises: entries go on the book only for a ladder that is not blocked,
\* a campaign is held only with the rearm durably blocked, it closes only on a clean book
\* and is stopped only without entries.
THEOREM EngineImplementsContract == Spec => ImplementsContract
<1>1. OrderInv /\ [Next]_vars => [Contract!ContractNext]_(Contract!contract)
  <2> SUFFICES ASSUME OrderInv, [Next]_vars PROVE Contract!ContractNext
    OBVIOUS
  <2>1. OrderInv'
    BY OrderStep
  <2> QED
    BY <2>1, ContractGoesOn
<1> QED
  BY OrderInit, OrderStep, ContractBegins, <1>1, PTL
     DEF Spec, ImplementsContract, Contract!ContractSpec
=============================================================================
