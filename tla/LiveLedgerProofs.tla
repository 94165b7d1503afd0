--------------------------- MODULE LiveLedgerProofs ---------------------------
(***************************************************************************)
(* No fill is lost or counted twice, in memory or on disk, and the engine  *)
(* never owns and orders more than one ladder, for every number of levels, *)
(* lot and bound.                                                          *)
(*                                                                         *)
(* The ledger alone is not inductive: a new campaign starts with managed   *)
(* size zero and takes the fills it reads for nobody's, so the account has *)
(* to be flat, and must stay flat, while create_campaign looks at it.  It  *)
(* is because no buy order is open then that the engine does not know of:  *)
(* such orders come only from a rearm whose answer was lost, and SAFE MODE *)
(* stays on, or the campaign stays active, until they are gone.  That is   *)
(* StrayState.                                                             *)
(*                                                                         *)
(* The exposure alone is not inductive either: there must be room for what *)
(* is about to be placed.  ExposureState says how much is taken while the  *)
(* ladder is half placed, and that a rearm leaves the first level free.    *)
(***************************************************************************)
EXTENDS LiveEngineProofs, FiniteSetTheorems

\* Places reached only after a sync that found no unknown order, or in recovery.
SyncedPcs == CoverPcs \cup FinishPcs \cup ConfirmPcs \cup CancelPcs

StrayState ==
  manual = 0 =>
    /\ ~safe /\ (~Active \/ pc \in SyncedPcs) => strayBuy = 0
    /\ pc \in RearmPcs => strayBuy = 0
    /\ pc \in {"sync_account", "sync_fills"} /\ ~regs.view.stray => strayBuy = 0
    /\ pc = "cr_account" => ~safe
    /\ pc \in {"cr_orders", "cr_leverage"} => pos = 0 /\ strayBuy = 0 /\ ~safe

\* Ledger, for every active status: what is missing in the property is not safe to claim
\* at its place, but is what the others follow from.
LedgerOf(x, f) ==
  manual = 0 /\ ActiveCampaign(x) /\ ~x.blocked /\ ~f.foreign
  => pos = x.managed + f.bought - f.sold

LedgerState ==
  /\ LedgerOf(c, unseen)
  /\ LedgerOf(disk.c, Merge(unseen, unsaved))
  /\ manual = 0 => pos >= 0

LedgerInv == OrderInv /\ StrayState /\ LedgerState

LEMMA LedgerFacts ==
  ASSUME OrderInv
  PROVE  /\ c \in Campaigns /\ disk.c \in Campaigns /\ unseen \in Fills /\ unsaved \in Fills
         /\ pos \in Int /\ strayBuy \in Nat /\ straySell \in Nat /\ manual \in Nat
         /\ regs \in Registers /\ safe \in BOOLEAN
BY DEF OrderInv, CleanInv, TypeOK, VenueTypeOK, EngineTypeOK, ControlTypeOK

------------------------------------------------------------------------------
(* Orders the engine does not know of                                       *)

\* Only a rearm whose answer is lost adds one; what is done by hand is counted.
NoNewStray == (manual' = 0 => manual = 0) /\ (manual' = 0 /\ strayBuy = 0 => strayBuy' = 0)

LEMMA StrayVenue == ASSUME VenueTypeOK, VenueNext PROVE NoNewStray
<1>0. manual \in Nat /\ strayBuy \in Nat
  BY DEF VenueTypeOK
<1>1. CASE UNCHANGED <<manual, strayBuy>>
  BY <1>1 DEF NoNewStray
<1>2. CASE StrayBuyFill
  BY <1>0, <1>2 DEF StrayBuyFill, NoNewStray
<1>3. CASE ByHand
  BY <1>0, <1>3 DEF ByHand, NoNewStray
<1> QED
  BY <1>1, <1>2, <1>3 DEF VenueNext, EntryFill, ListTarget, TargetFill, DropReduceOnly,
     StraySellFill, ManualTrade, ManualOrder, ManualCancel

LEMMA OnlyRearmStrays ==
  ASSUME VenueTypeOK, [Next]_vars PROVE NoNewStray \/ FinPlaceFails \/ (Crash /\ pc = "fin_place")
<1>1. ASSUME UNCHANGED <<manual, strayBuy>> PROVE NoNewStray
  BY <1>1 DEF NoNewStray
<1>2. ASSUME Sync \/ Global PROVE NoNewStray
  BY <1>1, <1>2 DEF Sync, SyncOrders, SyncAccount, SyncMismatch, SyncWhileRecovery, SyncOpen,
     SyncClosed, SyncWaiting, SyncReadFails, ReadFills, Global, GlobAccount, GlobOrders,
     GlobReadFails, venueVars
<1>3. ASSUME Cover PROVE NoNewStray
  BY <1>1, <1>3 DEF Cover, CoverDecide, CoverCancel, CoverPlace, CoverFilled, CoverPlaceFails,
     bookVars, venueVars
<1>4. ASSUME Recovery PROVE NoNewStray
  BY <1>1, <1>4 DEF Recovery, RecCancel, RecOrders, RecOrdersFail, SrecEntries,
     SrecFlatOrders, SrecFlatFails, SrecFlatCancel, SrecVerify, SrecVerifyFails, venueVars, bookVars
<1>5. ASSUME Finish PROVE NoNewStray \/ FinPlaceFails
  BY <1>1, <1>5 DEF Finish, FinBlocked, FinL1Orders, FinL1Cancel, FinL1Fails,
     FinErrAccount, FinErrOrders, FinFlat, FinPlace, FinOrders, FinCancel,
     FinCancelFails, FinReadFails, venueVars, bookVars
<1>6. ASSUME Confirm PROVE NoNewStray
  BY <1>1, <1>6 DEF Confirm, ConfAccount, ConfDone, ConfAgain, ConfRefused, ConfReadFails, venueVars
<1>7. ASSUME Cancel PROVE NoNewStray
  BY <1>1, <1>7 DEF Cancel, CanAccount, CanOrders, CanCancel, CanCancelFails,
     CanErrAccount, CanErrOrders, CanReadFails, venueVars, bookVars
<1>8. ASSUME Emergency PROVE NoNewStray
  <2>1. ASSUME EmgRemoveOk \/ EmgRemoveFail PROVE NoNewStray
    BY <2>1 DEF EmgRemoveOk, EmgRemoveFail, bookVars, NoNewStray
  <2> QED
    BY <1>1, <1>8, <2>1 DEF Emergency, EmgOrders, EmgCancel, EmgAccount, EmgClose, EmgFlat,
       EmgFlatOrders, EmgAgain, EmgReread, EmgAgainFails, EmgReadFails, venueVars
<1>9. ASSUME Create PROVE NoNewStray
  BY <1>1, <1>9 DEF Create, CrAccount, CrOrders, CrLeverage, CrRefused, CrPlace, CrPlaceFails,
     CrCount, CrFlat, CrfAccount, CrfOrders, CrReadFails, venueVars
<1>10. ASSUME StartMonitor \/ Commands \/ Restart PROVE NoNewStray
  BY <1>1, <1>10 DEF StartMonitor, Commands, StartReconcile, StartCancel, StartCreate,
     StartEmergency, Begin, Restart, venueVars
<1>11. ASSUME Crash PROVE NoNewStray \/ pc = "fin_place"
  BY <1>1, <1>11 DEF Crash, CallInFlight, LostFallback, At
<1>12. ASSUME VenueMoves PROVE NoNewStray
  BY <1>12, StrayVenue DEF VenueMoves
<1>13. ASSUME UNCHANGED vars PROVE NoNewStray
  BY <1>1, <1>13 DEF vars, venueVars
<1> QED
  BY <1>2, <1>3, <1>4, <1>5, <1>6, <1>7, <1>8, <1>9, <1>10, <1>11, <1>12, <1>13 DEF Next, Thread

\* Nothing StrayState says becomes due in the step.
LEMMA StrayKeeps ==
  ASSUME StrayState, NoNewStray, safe => safe',
         ~Active' => ~Active \/ pc \in SyncedPcs \/ safe',
         pc' \in SyncedPcs => pc \in SyncedPcs \/ safe',
         pc' \in RearmPcs => pc \in RearmPcs,
         pc' \notin OpenPcs \cup {"sync_account", "sync_fills"}
  PROVE  StrayState'
BY DEF StrayState, NoNewStray, OpenPcs

LEMMA StrayNone ==
  ASSUME strayBuy' = 0, pc' \notin OpenPcs PROVE StrayState'
BY DEF StrayState, OpenPcs

\* The campaign stays active, or SAFE MODE is on, and the thread goes to a place about which
\* nothing is said.
LEMMA StrayOut ==
  ASSUME Active' \/ safe',
         pc' \notin SyncedPcs \cup RearmPcs \cup OpenPcs \cup {"sync_account", "sync_fills"}
  PROVE  StrayState'
BY DEF StrayState, OpenPcs

LEMMA SafeStays == ASSUME OrderInv, [Next]_vars, pc # "glob_orders" PROVE safe => safe'
BY OnlyGlobalReleases DEF GlobOrders, At

LEMMA OutPlaces ==
  /\ {"idle", "down", "glob_account", "glob_orders", "sync_orders", "rec_cancel", "rec_orders",
      "srec_entries", "srec_orders", "srec_flat_orders", "srec_flat_cancel", "srec_verify",
      "cr_place", "cr_count", "cr_flat", "crf_account", "crf_orders"} \cup EmergencyPcs
        \subseteq Pcs \ (SyncedPcs \cup RearmPcs \cup OpenPcs \cup {"sync_account", "sync_fills"})
  /\ RearmPcs \subseteq SyncedPcs
  /\ {"can_account", "fin_err_account", "conf_account", "cover"} \cap (RearmPcs \cup OpenPcs) = {}
  /\ SyncedPcs \cap (OpenPcs \cup {"sync_account", "sync_fills", "glob_orders"}) = {}
BY DEF SyncedPcs, RearmPcs, OpenPcs, Pcs, CoverPcs, FinishPcs, ConfirmPcs, CancelPcs,
       EmergencyPcs, SyncPcs, RecoveryPcs, GlobalPcs, CreatePcs

LEMMA ReturnTo ==
  ASSUME SyncReturn \/ RecoveryReturn \/ EndOp \/ SyncRaise
  PROVE  pc' \in {"idle", "glob_account", "can_account"}
BY DEF SyncReturn, RecoveryReturn, EndOp, SyncRaise, Goto

LEMMA SyncStray ==
  ASSUME OrderInv, StrayState, [Next]_vars, Sync PROVE StrayState'
<1>0. /\ VenueTypeOK /\ EngineTypeOK /\ Applied \in Campaigns /\ ControlInv
      /\ strayBuy \in Nat /\ straySell \in Nat /\ c \in Campaigns /\ regs \in Registers
      /\ Applied.status = c.status
  BY OrderFacts, LedgerFacts, AppliedType, SaveApplied
<1>1. pc \in SyncPcs /\ Active
  <2>1. pc \in SyncPcs
    BY DEF Sync, SyncOrders, SyncAccount, SyncMismatch, SyncWhileRecovery, SyncOpen,
           SyncClosed, SyncWaiting, SyncReadFails, At, SyncPcs
  <2> QED
    BY <1>0, <2>1, WorkParts DEF ControlInv
<1>2. /\ UNCHANGED <<manual, strayBuy, straySell>> /\ NoNewStray
  BY DEF Sync, SyncOrders, SyncAccount, SyncMismatch, SyncWhileRecovery, SyncOpen,
     SyncClosed, SyncWaiting, SyncReadFails, ReadFills, venueVars, NoNewStray
<1>3. safe => safe'
  BY <1>1, SafeStays DEF SyncPcs
<1>4. CASE SyncOrders
  <2>1. pc' = "sync_account" /\ regs' = [regs EXCEPT !.view = View] /\ UNCHANGED engineVars
    BY <1>4 DEF SyncOrders, ReadOrders, Goto
  <2>2. ~regs'.view.stray => ~(strayBuy + straySell > 0)
    BY <1>0, <2>1 DEF Registers, View
  <2>3. ~regs'.view.stray => strayBuy' = 0
    <3>1. ~(strayBuy + straySell > 0) => strayBuy' = 0
      BY <1>0, <1>2
    <3> QED
      BY <2>2, <3>1
  <2>4. Active'
    BY <1>1, <2>1 DEF engineVars, Active
  <2> QED
    BY <2>1, <2>3, <2>4 DEF StrayState, SyncedPcs, CoverPcs, FinishPcs, ConfirmPcs, CancelPcs, RearmPcs
<1>5. CASE SyncAccount
  <2>1. /\ pc = "sync_account" /\ pc' = "sync_fills" /\ regs' = [regs EXCEPT !.pos = pos]
        /\ UNCHANGED engineVars
    BY <1>5 DEF SyncAccount, ReadAccount, Goto, At
  <2>2. regs'.view = regs.view
    BY <1>0, <2>1 DEF Registers
  <2>3. Active'
    BY <1>1, <2>1 DEF engineVars, Active
  <2> QED
    BY <1>2, <2>1, <2>2, <2>3 DEF StrayState, SyncedPcs, CoverPcs, FinishPcs, ConfirmPcs, CancelPcs, RearmPcs
<1>6. CASE SyncMismatch
  <2>1. safe' = TRUE /\ pc' = "rec_cancel"
    BY <1>6 DEF SyncMismatch, EnterRecovery, Save, Goto
  <2> QED
    BY <2>1, OutPlaces, StrayOut
<1>7. CASE SyncWhileRecovery
  <2>1. pc' = "srec_entries" /\ Active'
    BY <1>0, <1>1, <1>7 DEF SyncWhileRecovery, Goto, Active
  <2> QED
    BY <2>1, OutPlaces, StrayOut
<1>8. CASE SyncOpen \/ SyncClosed \/ SyncWaiting
  <2>1. pc = "sync_fills" /\ ~regs.view.stray
    BY <1>8 DEF SyncOpen, SyncClosed, SyncWaiting, Unexplained, At
  <2>2. manual = 0 => strayBuy' = 0
    BY <1>2, <2>1 DEF StrayState
  <2>3. pc' \in {"cover", "fin_blocked", "fin_l1_orders", "fin_orders", "idle", "glob_account",
                 "can_account"}
    BY <1>8, ReturnTo DEF SyncOpen, SyncClosed, SyncWaiting, Goto, FinishBranch
  <2>4. pc' \notin OpenPcs
    BY <2>3 DEF OpenPcs
  <2>5. manual' = manual
    BY <1>2
  <2> QED
    BY <2>2, <2>4, <2>5 DEF StrayState, OpenPcs
<1>9. CASE SyncReadFails
  <2>1. CASE safe' = TRUE /\ pc' \in {"idle", "glob_account"}
    BY <2>1, OutPlaces, StrayOut
  <2>2. CASE UNCHANGED engineVars /\ pc' = "idle"
    <3>1. Active'
      BY <1>1, <2>2 DEF engineVars, Active
    <3> QED
      BY <2>2, <3>1, OutPlaces, StrayOut
  <2> QED
    BY <1>9, <2>1, <2>2 DEF SyncReadFails, SyncRaise, Save, EndOp, Goto
<1> QED
  BY <1>4, <1>5, <1>6, <1>7, <1>8, <1>9 DEF Sync

\* Coverage, closing a cycle and cancelling all begin after a clean sync or in SAFE MODE.
LEMMA SyncedStray ==
  ASSUME OrderInv, StrayState, [Next]_vars, Cover \/ Finish \/ Confirm \/ Cancel, ~FinPlaceFails
  PROVE  StrayState'
<1>1. pc \in SyncedPcs
  BY DEF Cover, CoverDecide, CoverCancel, CoverPlace, CoverFilled, CoverPlaceFails,
     Finish, FinBlocked, FinL1Orders, FinL1Cancel, FinL1Fails, FinErrAccount, FinErrOrders,
     FinFlat, FinPlace, FinPlaceFails, FinOrders, FinCancel, FinCancelFails, FinReadFails,
     Confirm, ConfAccount, ConfDone, ConfAgain, ConfRefused, ConfReadFails,
     Cancel, CanAccount, CanOrders, CanCancel, CanCancelFails, CanErrAccount, CanErrOrders,
     CanReadFails, At, SyncedPcs, CoverPcs, FinishPcs, ConfirmPcs, CancelPcs
<1>2. safe => safe'
  BY <1>1, OutPlaces, SafeStays
<1>3. ~Crash
  <2>1. pc' # "down" \/ pc' = pc
    BY ReturnTo DEF Cover, CoverDecide, CoverCancel, CoverPlace, CoverFilled, CoverPlaceFails,
     CoverDone, CoverRaise,
     Finish, FinBlocked, FinL1Orders, FinL1Cancel, FinL1Fails, FinErrAccount, FinErrOrders,
     FinFlat, FinPlace, FinPlaceFails, FinOrders, FinCancel, FinCancelFails, FinReadFails,
     Confirm, ConfAccount, ConfDone, ConfAgain, ConfRefused, ConfReadFails,
     Cancel, CanAccount, CanOrders, CanCancel, CanCancelFails, CanErrAccount, CanErrOrders,
     CanReadFails, EnterRecovery, ReadOrders, ReadAccount, Goto
  <2>2. pc # "down"
    BY <1>1 DEF SyncedPcs, CoverPcs, FinishPcs, ConfirmPcs, CancelPcs
  <2> QED
    BY <2>1, <2>2 DEF Crash
<1>4. NoNewStray
  BY <1>3, OnlyRearmStrays, OrderFacts
<1>5. /\ pc' \in RearmPcs => pc \in RearmPcs
      /\ pc' \notin OpenPcs \cup {"sync_account", "sync_fills"}
  <2>1. ASSUME CoverDone \/ CoverRaise \/ SyncReturn \/ SyncRaise \/ EndOp
        PROVE  pc' \in {"idle", "glob_account", "can_account"}
    BY <2>1, ReturnTo DEF CoverDone, CoverRaise
  <2>2. CASE Cover \/ Confirm \/ Cancel
    <3>1. pc' \in {"idle", "glob_account", "can_account", "cover_cancel", "cover_place",
                   "rec_cancel", "conf_account", "conf_orders", "can_orders", "can_cancel",
                   "can_err_account", "can_err_orders"}
      BY <2>1, <2>2 DEF Cover, CoverDecide, CoverCancel, CoverPlace, CoverFilled, CoverPlaceFails,
         Confirm, ConfAccount, ConfDone, ConfAgain, ConfRefused, ConfReadFails,
         Cancel, CanAccount, CanOrders, CanCancel, CanCancelFails, CanErrAccount, CanErrOrders,
         CanReadFails, EnterRecovery, ReadOrders, ReadAccount, Goto
    <3> QED
      BY <3>1 DEF RearmPcs, OpenPcs
  <2>3. CASE Finish
    <3>1. \/ pc \in RearmPcs /\ pc' \in RearmPcs
          \/ pc' \in {"idle", "glob_account", "can_account", "rec_cancel", "fin_err_account",
                      "fin_err_orders", "fin_notflat", "fin_cancel", "conf_account"}
      BY <2>1, <2>3 DEF Finish, FinBlocked, FinL1Orders, FinL1Cancel, FinL1Fails, FinErrAccount,
         FinErrOrders, FinFlat, FinPlace, FinPlaceFails, FinOrders, FinCancel, FinCancelFails,
         FinReadFails, At, RearmPcs, EnterRecovery, ReadOrders, ReadAccount, Goto
    <3> QED
      BY <3>1 DEF RearmPcs, OpenPcs
  <2> QED
    BY <2>2, <2>3
<1> QED
  BY <1>1, <1>2, <1>4, <1>5, StrayKeeps

\* The answer of a rearm is lost: SAFE MODE goes on, or the campaign is left as it is.
LEMMA RearmLostStray == ASSUME OrderInv, FinPlaceFails PROVE StrayState'
<1>1. pc = "fin_place" /\ SyncRaise
  BY DEF FinPlaceFails, At
<1>2. Active
  BY <1>1, OrderFacts DEF ControlInv, WorkPcs, FinishPcs
<1>3. CASE safe' = TRUE /\ pc' \in {"idle", "glob_account"}
  BY <1>3, OutPlaces, StrayOut
<1>4. CASE UNCHANGED engineVars /\ pc' = "idle"
  <2>1. Active'
    BY <1>2, <1>4 DEF engineVars, Active
  <2> QED
    BY <1>4, <2>1, OutPlaces, StrayOut
<1> QED
  BY <1>1, <1>3, <1>4 DEF SyncRaise, Save, EndOp, Goto

\* Recovery is always in SAFE MODE.
LEMMA RecoveryStray == ASSUME OrderInv, StrayState, [Next]_vars, Recovery PROVE StrayState'
<1>1. pc \in RecoveryPcs
  BY DEF Recovery, RecCancel, RecOrders, RecOrdersFail, SrecEntries, SrecFlatOrders,
         SrecFlatFails, SrecFlatCancel, SrecVerify, SrecVerifyFails, At, RecoveryPcs
<1>2. safe'
  <2>1. InRecovery /\ pc # "glob_orders"
    BY <1>1, OrderFacts DEF OrderControl, RecoveryPcs
  <2> QED
    BY <2>1, SafeStays, OrderFacts DEF OrderState
<1>3. pc' \in {"idle", "glob_account", "can_account", "rec_orders", "srec_orders", "cover",
               "srec_flat_orders", "srec_flat_cancel", "srec_verify"}
  BY ReturnTo DEF Recovery, RecCancel, RecOrders, RecOrdersFail, SrecEntries, SrecFlatOrders,
         SrecFlatFails, SrecFlatCancel, SrecVerify, SrecVerifyFails, ReadOrders, Goto
<1>4. pc' \notin RearmPcs \cup OpenPcs \cup {"sync_account", "sync_fills"}
  BY <1>3 DEF RearmPcs, OpenPcs
<1> QED
  BY <1>2, <1>4 DEF StrayState, OpenPcs

LEMMA EmergencyStray == ASSUME OrderInv, StrayState, [Next]_vars, Emergency PROVE StrayState'
<1>1. pc \in EmergencyPcs
  BY DEF Emergency, EmgOrders, EmgCancel, EmgAccount, EmgClose, EmgFlat, EmgFlatOrders,
     EmgAgain, EmgReread, EmgAgainFails, EmgReadFails, At, EmergencyPcs
<1>2. safe => safe'
  BY <1>1, SafeStays DEF EmergencyPcs
<1>3. pc' \in EmergencyPcs \cup {"idle", "rec_cancel"}
  BY DEF Emergency, EmgOrders, EmgCancel, EmgAccount, EmgClose, EmgFlat, EmgFlatOrders,
     EmgAgain, EmgReread, EmgAgainFails, EmgReadFails, EmgRetry, EmgSucceeds, EnterRecovery,
     ReadOrders, ReadAccount, Goto, EndOp, EmergencyPcs
<1>4. NoNewStray
  <2>1. ~FinPlaceFails /\ pc # "fin_place"
    BY <1>1 DEF FinPlaceFails, At, EmergencyPcs
  <2> QED
    BY <2>1, OnlyRearmStrays, OrderFacts
<1>5. ~Active' => ~Active \/ safe'
  <2>1. ASSUME NEW v, EmgRetry(v) \/ EmgSucceeds PROVE safe' \/ c' = c
    BY <2>1 DEF EmgRetry, EmgSucceeds, EnterRecovery, Save, engineVars
  <2>2. safe' \/ c' = c
    BY <2>1 DEF Emergency, EmgOrders, EmgCancel, EmgAccount, EmgClose, EmgFlat, EmgFlatOrders,
     EmgAgain, EmgReread, EmgAgainFails, EmgReadFails, engineVars
  <2> QED
    BY <2>2 DEF Active
<1> QED
  BY <1>2, <1>3, <1>4, <1>5, OutPlaces, StrayKeeps

LEMMA NoStray == ASSUME OrderInv, ~View.stray PROVE strayBuy = 0
<1>1. ~(strayBuy + straySell > 0)
  BY DEF View
<1> QED
  BY <1>1, LedgerFacts

LEMMA GlobalStray == ASSUME OrderInv, StrayState, [Next]_vars, Global PROVE StrayState'
<1>1. UNCHANGED <<strayBuy, manual>> /\ NoNewStray
  BY DEF Global, GlobAccount, GlobOrders, GlobReadFails, venueVars, NoNewStray
<1>2. CASE GlobOrders
  <2>1. pc' = "idle" /\ safe' = NewSafe /\ c' = c
    BY <1>2 DEF GlobOrders, EndOp, Save
  <2>2. ~safe' /\ ~Active' => strayBuy' = 0
    <3>1. ~safe' => ~AccountRisk
      BY <2>1 DEF NewSafe
    <3>2. ~AccountRisk /\ ~Active => ~View.stray
      BY DEF AccountRisk
    <3>3. ~View.stray => strayBuy = 0
      BY NoStray
    <3> QED
      BY <1>1, <2>1, <3>1, <3>2, <3>3 DEF Active
  <2> QED
    BY <2>1, <2>2, OutPlaces DEF StrayState, OpenPcs
<1>3. CASE GlobAccount \/ GlobReadFails
  <2>1. pc' \in {"glob_orders", "idle"} /\ c' = c
    BY <1>3 DEF GlobAccount, GlobReadFails, ReadAccount, Goto, EndOp, engineVars, Save
  <2>2. safe => safe'
    BY <1>3 DEF GlobAccount, GlobReadFails, engineVars, Save
  <2> QED
    BY <1>1, <2>1, <2>2, OutPlaces, StrayKeeps DEF Active
<1> QED
  BY <1>2, <1>3 DEF Global

LEMMA CreateStray == ASSUME OrderInv, StrayState, [Next]_vars, Create PROVE StrayState'
<1>0. /\ c \in Campaigns /\ strayBuy \in Nat /\ straySell \in Nat /\ OrderControl /\ ControlInv
  BY OrderFacts, LedgerFacts
<1>1. pc \in CreatePcs
  BY DEF Create, CrAccount, CrOrders, CrLeverage, CrRefused, CrPlace, CrPlaceFails,
     CrCount, CrFlat, CrfAccount, CrfOrders, CrReadFails, At, CreatePcs
<1>2. safe => safe'
  BY <1>1, SafeStays DEF CreatePcs
<1>3. UNCHANGED <<strayBuy, manual>> /\ NoNewStray
  BY DEF Create, CrAccount, CrOrders, CrLeverage, CrRefused, CrPlace, CrPlaceFails,
     CrCount, CrFlat, CrfAccount, CrfOrders, CrReadFails, venueVars, NoNewStray
<1>4. CASE pc' \in {"idle", "cr_place", "cr_count", "cr_flat", "crf_account", "crf_orders", "rec_cancel"}
  <2>1. Active => Active' \/ safe'
    <3>1. ASSUME NEW p, NEW v, EnterRecovery(c, p, v) PROVE safe'
      BY <3>1 DEF EnterRecovery, Save
    <3>2. CASE CrLeverage
      BY <1>0, <3>2 DEF CrLeverage, At, OrderControl, OpenPcs
    <3>3. CASE CrFlat
      <4>1. c' \in {c, [c EXCEPT !.status = "waiting"]}
        BY <3>3 DEF CrFlat, Save, CreationFailure, engineVars
      <4> QED
        BY <1>0, <4>1 DEF Campaigns, Active, ActiveStatuses
    <3> QED
      BY <3>1, <3>2, <3>3 DEF Create, CrAccount, CrOrders, CrRefused, CrPlace, CrPlaceFails,
         CrCount, CrfAccount, CrfOrders, CrReadFails, CreationFailure, Save, engineVars, Active
  <2> QED
    BY <1>2, <1>3, <1>4, <2>1, OutPlaces, StrayKeeps
<1>5. CASE pc' = "cr_orders"
  <2>1. pc = "cr_account" /\ pos = 0 /\ UNCHANGED <<pos, safe>> /\ c' = c
    BY <1>1, <1>5 DEF Create, CrAccount, CrOrders, CrLeverage, CrRefused, CrPlace, CrPlaceFails,
       CrCount, CrFlat, CrfAccount, CrfOrders, CrReadFails, CreationFailure, EnterRecovery,
       ReadAccount, Goto, EndOp, At, engineVars, venueVars
  <2>2. ~Active
    BY <1>0, <2>1 DEF OrderControl, OpenPcs
  <2>3. manual = 0 => ~safe /\ strayBuy = 0
    BY <2>1, <2>2 DEF StrayState
  <2> QED
    BY <1>3, <1>5, <2>1, <2>3 DEF StrayState, RearmPcs
<1>6. CASE pc' = "cr_leverage"
  <2>1. pc = "cr_orders" /\ UNCHANGED <<pos, safe>> /\ c' = c
    BY <1>1, <1>6 DEF Create, CrAccount, CrOrders, CrLeverage, CrRefused, CrPlace, CrPlaceFails,
       CrCount, CrFlat, CrfAccount, CrfOrders, CrReadFails, CreationFailure, EnterRecovery,
       ReadAccount, Goto, EndOp, At, engineVars, venueVars
  <2>2. manual = 0 => pos = 0 /\ ~safe /\ strayBuy = 0
    BY <2>1 DEF StrayState
  <2> QED
    BY <1>3, <1>6, <2>1, <2>2 DEF StrayState, RearmPcs
<1> QED
  <2>1. pc' \in {"idle", "cr_orders", "cr_leverage", "cr_place", "cr_count", "cr_flat",
                 "crf_account", "crf_orders", "rec_cancel"}
    BY DEF Create, CrAccount, CrOrders, CrLeverage, CrRefused, CrPlace, CrPlaceFails,
       CrCount, CrFlat, CrfAccount, CrfOrders, CrReadFails, CreationFailure, EnterRecovery,
       ReadAccount, Goto, EndOp
  <2> QED
    BY <1>4, <1>5, <1>6, <2>1

LEMMA StartStray ==
  ASSUME OrderInv, StrayState, StartMonitor \/ Commands \/ Restart \/ UNCHANGED vars PROVE StrayState'
<1>0. c \in Campaigns
  BY OrderFacts
<1>1. UNCHANGED <<pos, strayBuy, manual>> /\ NoNewStray
  BY DEF StartMonitor, Commands, StartReconcile, StartCancel, StartCreate, StartEmergency,
     Begin, Restart, vars, venueVars, NoNewStray
<1>2. CASE UNCHANGED vars
  BY <1>2 DEF vars, venueVars, engineVars, control, StrayState, Active
<1>3. CASE StartCreate
  <2>1. pc' = "cr_account" /\ ~safe /\ ~Active /\ UNCHANGED engineVars
    BY <1>3 DEF StartCreate, Begin
  <2>2. manual = 0 => strayBuy = 0
    BY <2>1 DEF StrayState
  <2>3. ~safe'
    BY <2>1 DEF engineVars
  <2> QED
    BY <1>1, <2>1, <2>2, <2>3 DEF StrayState
<1>4. CASE pc' \in {"sync_orders", "glob_account", "emg_orders"} /\ ~StartCreate /\ ~UNCHANGED vars
  <2>1. (Active => Active') /\ (safe => safe')
    <3>1. CASE UNCHANGED engineVars
      BY <3>1 DEF engineVars, Active
    <3>2. CASE Save([c EXCEPT !.status = "emergency", !.blocked = TRUE], safe)
      <4>1. c'.status = "emergency" /\ safe' = safe
        BY <1>0, <3>2 DEF Save, Campaigns
      <4> QED
        BY <4>1 DEF Active, ActiveStatuses
    <3> QED
      BY <1>4, <3>1, <3>2 DEF StartMonitor, Commands, StartReconcile, StartCancel, StartEmergency, Restart
  <2>2. pc' \notin SyncedPcs \cup RearmPcs \cup OpenPcs \cup {"sync_account", "sync_fills"}
    BY <1>4, OutPlaces DEF EmergencyPcs
  <2> QED
    BY <1>1, <2>1, <2>2, StrayKeeps
<1> QED
  BY <1>2, <1>3, <1>4 DEF StartMonitor, Commands, StartReconcile, StartCancel, StartEmergency,
     Begin, Restart

\* The campaign on disk is active exactly when the one in memory is.
LEMMA CrashStray == ASSUME OrderInv, StrayState, [Next]_vars, Crash PROVE StrayState'
<1>1. c' = disk.c /\ safe' = safe /\ pc' = "down"
  BY OrderFacts DEF Crash, OrderState
<1>2. Active' = Active
  BY <1>1, OrderFacts DEF OrderState, Active, ActiveCampaign
<1>3. CASE pc = "fin_place"
  <2>1. Active
    BY <1>3, OrderFacts DEF ControlInv, WorkPcs, FinishPcs
  <2> QED
    BY <1>1, <1>2, <2>1, OutPlaces, StrayOut
<1>4. CASE pc # "fin_place"
  <2>1. NoNewStray
    <3>1. ~FinPlaceFails
      BY <1>4 DEF FinPlaceFails, At
    <3> QED
      BY <1>4, <3>1, OnlyRearmStrays, OrderFacts
  <2> QED
    BY <1>1, <1>2, <2>1, OutPlaces, StrayKeeps
<1> QED
  BY <1>3, <1>4

\* While create_campaign looks at the account nothing on the book can fill.
LEMMA VenueStray == ASSUME OrderInv, StrayState, VenueMoves PROVE StrayState'
<1>0. /\ NoNewStray /\ UNCHANGED <<safe, c, pc, regs>> /\ VenueNext
      /\ OrderState /\ OrderControl /\ pos \in Int /\ strayBuy \in Nat /\ manual \in Nat
  BY OrderFacts, LedgerFacts, StrayVenue DEF VenueMoves, engineVars, control
<1>1. Active' = Active
  BY <1>0 DEF Active
<1>2. pc \in {"cr_orders", "cr_leverage"} /\ manual' = 0 => pos' = 0
  <2> SUFFICES ASSUME pc \in {"cr_orders", "cr_leverage"}, manual' = 0 PROVE pos' = 0
    OBVIOUS
  <2>1. pos = 0 /\ strayBuy = 0 /\ manual = 0
    BY <1>0 DEF NoNewStray, StrayState
  <2>2. entry = NoEntries
    BY <1>0 DEF OrderControl, OrderState, OpenPcs
  <2>3. ASSUME NEW l \in Levels PROVE ~EntryFill(l)
    BY <2>2, <2>3 DEF EntryFill, NoEntries
  <2>4. ~StrayBuyFill /\ ~StraySellFill
    BY <2>1 DEF StrayBuyFill, StraySellFill
  <2>5. ~ByHand
    BY <1>0 DEF ByHand
  <2>6. ASSUME NEW l \in TargetLevels PROVE ~TargetFill(l)
    BY <2>1 DEF TargetFill
  <2> QED
    BY <1>0, <2>1, <2>3, <2>4, <2>5, <2>6 DEF VenueNext, ListTarget, DropReduceOnly, ManualTrade,
       ManualOrder, ManualCancel
<1> QED
  BY <1>0, <1>1, <1>2 DEF StrayState, NoNewStray

LEMMA StrayStep == ASSUME OrderInv, StrayState, [Next]_vars PROVE StrayState'
BY SyncStray, SyncedStray, RearmLostStray, RecoveryStray, EmergencyStray, GlobalStray, CreateStray,
   StartStray, CrashStray, VenueStray DEF Next, Thread

------------------------------------------------------------------------------
(* The venue's side of the ledger                                           *)

\* The position moves with the fills: by what is bought and sold, unless a fill is foreign.
Follows ==
  /\ manual' = 0 => manual = 0
  /\ unseen.foreign => unseen'.foreign
  /\ manual' = 0 /\ ~unseen'.foreign
       => pos' - unseen'.bought + unseen'.sold = pos - unseen.bought + unseen.sold
  /\ manual' = 0 /\ pos >= 0 => pos' >= 0

LEMMA FollowsSame == ASSUME UNCHANGED <<pos, unseen, manual>> PROVE Follows
BY DEF Follows

LEMMA FollowsForeign ==
  ASSUME unseen \in Fills, Foreign, UNCHANGED manual, manual = 0 /\ pos >= 0 => pos' >= 0
  PROVE  Follows
BY DEF Fills, Foreign, Follows

LEMMA FollowsVenue == ASSUME VenueTypeOK, VenueNext PROVE Follows
<1>0. pos \in Int /\ unseen \in Fills /\ manual \in Nat
  BY DEF VenueTypeOK
<1>1. ASSUME NEW l \in Levels, EntryFill(l) PROVE Follows
  <2>1. /\ pos' = pos + 1 /\ manual' = manual
        /\ unseen' = [unseen EXCEPT !.bought = unseen.bought + 1,
                                    !.deepest = Deeper(unseen.deepest, l)]
    BY <1>1 DEF EntryFill, SetPosition
  <2>2. /\ unseen'.bought = unseen.bought + 1 /\ unseen'.sold = unseen.sold
        /\ unseen'.foreign = unseen.foreign
    BY <1>0, <2>1 DEF Fills
  <2>3. unseen.bought \in Nat /\ unseen.sold \in Nat
    BY <1>0 DEF Fills
  <2> QED
    BY <1>0, <2>1, <2>2, <2>3 DEF Follows
<1>2. ASSUME NEW l \in TargetLevels, TargetFill(l) PROVE Follows
  <2>1. /\ pos' = pos - 1 /\ pos > 0 /\ manual' = manual
        /\ unseen' = [unseen EXCEPT !.sold = unseen.sold + 1]
    BY <1>2 DEF TargetFill, SetPosition
  <2>2. /\ unseen'.bought = unseen.bought /\ unseen'.sold = unseen.sold + 1
        /\ unseen'.foreign = unseen.foreign
    BY <1>0, <2>1 DEF Fills
  <2>3. unseen.bought \in Nat /\ unseen.sold \in Nat
    BY <1>0 DEF Fills
  <2> QED
    BY <1>0, <2>1, <2>2, <2>3 DEF Follows
<1>3. CASE UNCHANGED <<pos, unseen, manual>>
  BY <1>3, FollowsSame
<1>4. CASE StrayBuyFill \/ StraySellFill
  BY <1>0, <1>4, FollowsForeign DEF StrayBuyFill, StraySellFill, SetPosition
<1>5. CASE ByHand /\ (Foreign \/ unseen' = unseen)
  <2>1. manual' # 0
    BY <1>0, <1>5 DEF ByHand
  <2>2. unseen.foreign => unseen'.foreign
    BY <1>0, <1>5 DEF Foreign, Fills
  <2> QED
    BY <2>1, <2>2 DEF Follows
<1> QED
  BY <1>1, <1>2, <1>3, <1>4, <1>5 DEF VenueNext, ListTarget, DropReduceOnly, ManualTrade,
     ManualOrder, ManualCancel

\* Steps that read the fills, or begin a campaign, or lose memory, are looked at one by one.
FillsRead == SyncMismatch \/ SyncWhileRecovery \/ SyncOpen \/ SyncClosed \/ SyncWaiting
Rereads   == FillsRead \/ CrLeverage \/ Crash

LEMMA FollowsStep == ASSUME OrderInv, [Next]_vars PROVE Follows \/ Rereads
<1>0. VenueTypeOK /\ pos \in Int /\ unseen \in Fills /\ manual \in Nat /\ regs \in Registers
  BY OrderFacts, LedgerFacts
<1>1. ASSUME UNCHANGED <<pos, unseen, manual>> PROVE Follows
  BY <1>1, FollowsSame
<1>2. ASSUME Sync \/ Global PROVE Follows \/ FillsRead
  BY <1>1, <1>2 DEF Sync, SyncOrders, SyncAccount, SyncReadFails, FillsRead, Global, GlobAccount,
     GlobOrders, GlobReadFails, venueVars
<1>3. ASSUME CoverFilled PROVE Follows
  <2>1. PICK m \in 1..regs.pos :
           LET sold == IF m < pos THEN m ELSE pos
           IN /\ SetPosition(pos - sold, due)
              /\ \/ unseen' = [unseen EXCEPT !.sold = @ + sold]
                 \/ Foreign
    BY <1>3 DEF CoverFilled
  <2> DEFINE sold == IF m < pos THEN m ELSE pos
  <2>2. /\ pos' = pos - sold /\ pos > 0 /\ manual' = manual
        /\ \/ unseen' = [unseen EXCEPT !.sold = unseen.sold + sold]
           \/ Foreign
    BY <1>3, <2>1 DEF CoverFilled, SetPosition
  <2>3. sold \in Nat /\ sold <= pos
    BY <1>0, <2>2
  <2> HIDE DEF sold
  <2>4. CASE unseen' = [unseen EXCEPT !.sold = unseen.sold + sold]
    <3>1. /\ unseen'.bought = unseen.bought /\ unseen'.sold = unseen.sold + sold
          /\ unseen'.foreign = unseen.foreign
      BY <1>0, <2>2, <2>4 DEF Fills
    <3>2. unseen.bought \in Nat /\ unseen.sold \in Nat
      BY <1>0 DEF Fills
    <3> QED
      BY <1>0, <2>2, <2>3, <3>1, <3>2 DEF Follows
  <2>5. CASE Foreign
    BY <1>0, <2>2, <2>3, <2>5, FollowsForeign
  <2> QED
    BY <2>2, <2>4, <2>5
<1>4. ASSUME Cover PROVE Follows
  BY <1>1, <1>3, <1>4 DEF Cover, CoverDecide, CoverCancel, CoverPlace, CoverPlaceFails,
     bookVars, venueVars
<1>5. ASSUME Recovery PROVE Follows
  BY <1>1, <1>5 DEF Recovery, RecCancel, RecOrders, RecOrdersFail, SrecEntries,
     SrecFlatOrders, SrecFlatFails, SrecFlatCancel, SrecVerify, SrecVerifyFails, venueVars, bookVars
<1>6. ASSUME Finish PROVE Follows
  BY <1>1, <1>6 DEF Finish, FinBlocked, FinL1Orders, FinL1Cancel, FinL1Fails,
     FinErrAccount, FinErrOrders, FinFlat, FinPlace, FinPlaceFails, FinOrders, FinCancel,
     FinCancelFails, FinReadFails, venueVars, bookVars
<1>7. ASSUME Confirm PROVE Follows
  BY <1>1, <1>7 DEF Confirm, ConfAccount, ConfDone, ConfAgain, ConfRefused, ConfReadFails, venueVars
<1>8. ASSUME Cancel PROVE Follows
  BY <1>1, <1>8 DEF Cancel, CanAccount, CanOrders, CanCancel, CanCancelFails,
     CanErrAccount, CanErrOrders, CanReadFails, venueVars, bookVars
<1>9. ASSUME EmgClose PROVE Follows
  <2>1. CASE Foreign /\ \E p \in (IF pos > 0 THEN 0..(pos - 1) ELSE (pos + 1)..0) : SetPosition(p, due)
    <3>1. pos >= 0 /\ pos # 0 => pos' >= 0
      BY <1>0, <2>1 DEF SetPosition
    <3>2. manual' = manual
      BY <1>9 DEF EmgClose
    <3>3. pos # 0 \/ UNCHANGED <<pos, unseen, manual>>
      BY <1>9 DEF EmgClose
    <3> QED
      BY <1>0, <1>1, <2>1, <3>1, <3>2, <3>3, FollowsForeign
  <2>2. CASE UNCHANGED <<pos, unseen, manual>>
    BY <1>1, <2>2
  <2> QED
    BY <1>9, <2>1, <2>2 DEF EmgClose
<1>10. ASSUME Emergency PROVE Follows
  <2>1. ASSUME EmgRemoveOk \/ EmgRemoveFail PROVE Follows
    BY <1>1, <2>1 DEF EmgRemoveOk, EmgRemoveFail, bookVars
  <2> QED
    BY <1>1, <1>9, <1>10, <2>1 DEF Emergency, EmgOrders, EmgCancel, EmgAccount, EmgFlat,
       EmgFlatOrders, EmgAgain, EmgReread, EmgAgainFails, EmgReadFails, venueVars
<1>11. ASSUME Create PROVE Follows \/ CrLeverage
  BY <1>1, <1>11 DEF Create, CrAccount, CrOrders, CrRefused, CrPlace, CrPlaceFails,
     CrCount, CrFlat, CrfAccount, CrfOrders, CrReadFails, venueVars
<1>12. ASSUME StartMonitor \/ Commands \/ Restart PROVE Follows
  BY <1>1, <1>12 DEF StartMonitor, Commands, StartReconcile, StartCancel, StartCreate,
     StartEmergency, Begin, Restart, venueVars
<1>13. ASSUME VenueMoves PROVE Follows
  BY <1>0, <1>13, FollowsVenue DEF VenueMoves
<1>14. ASSUME UNCHANGED vars PROVE Follows
  BY <1>1, <1>14 DEF vars, venueVars
<1> QED
  BY <1>2, <1>4, <1>5, <1>6, <1>7, <1>8, <1>10, <1>11, <1>12, <1>13, <1>14
     DEF Next, Thread, Rereads

------------------------------------------------------------------------------
(* The engine's side of the ledger                                          *)

\* A campaign that can still be held to account has the managed size of the one before.
Worth(x) ==
  ActiveCampaign(x) /\ ~x.blocked => Active /\ ~c.blocked /\ x.managed = c.managed

BooksKept ==
  /\ Worth(c')
  /\ \/ UNCHANGED <<disk, unsaved>>
     \/ disk'.c = c' /\ unsaved' = NoFills

LEMMA MergeFields ==
  ASSUME NEW f \in Fills, NEW g \in Fills
  PROVE  /\ Merge(f, g).bought = f.bought + g.bought
         /\ Merge(f, g).sold = f.sold + g.sold
         /\ ~Merge(f, g).foreign => ~f.foreign /\ ~g.foreign
         /\ ~f.foreign /\ ~g.foreign => ~Merge(f, g).foreign
         /\ f.bought \in Nat /\ f.sold \in Nat /\ g.bought \in Nat /\ g.sold \in Nat
BY DEF Merge, Fills

LEMMA NoFillsFields ==
  NoFills \in Fills /\ NoFills.bought = 0 /\ NoFills.sold = 0 /\ ~NoFills.foreign
BY NLevelsAssumption DEF NoFills, Fills, TargetLevels

\* What has just been saved with no fill pending is worth on disk what it is in memory.
LEMMA SavedLedger ==
  ASSUME unseen' \in Fills, LedgerOf(c, unseen)', disk'.c = c', unsaved' = NoFills
  PROVE  LedgerOf(disk.c, Merge(unseen, unsaved))'
<1>1. /\ Merge(unseen', NoFills).bought = unseen'.bought
      /\ Merge(unseen', NoFills).sold = unseen'.sold
      /\ ~Merge(unseen', NoFills).foreign => ~unseen'.foreign
  <2>1. unseen'.bought \in Nat /\ unseen'.sold \in Nat
    BY DEF Fills
  <2> QED
    BY <2>1, MergeFields, NoFillsFields
<1> QED
  BY <1>1 DEF LedgerOf, ActiveCampaign

LEMMA LedgerGoesOn ==
  ASSUME OrderInv, OrderInv', LedgerState, Follows, BooksKept PROVE LedgerState'
<1>0. /\ unseen \in Fills /\ unsaved \in Fills /\ unseen' \in Fills /\ unsaved' \in Fills
      /\ pos \in Int /\ pos' \in Int /\ manual \in Nat
      /\ c.managed \in Nat /\ disk.c.managed \in Nat
  BY LedgerFacts DEF OrderInv, CleanInv, TypeOK, VenueTypeOK, EngineTypeOK, Campaigns
<1>1. /\ unseen.bought \in Nat /\ unseen.sold \in Nat
      /\ unseen'.bought \in Nat /\ unseen'.sold \in Nat
      /\ unsaved.bought \in Nat /\ unsaved.sold \in Nat
  BY <1>0 DEF Fills
<1>2. LedgerOf(c, unseen)'
  <2> SUFFICES ASSUME manual' = 0, ActiveCampaign(c'), ~c'.blocked, ~unseen'.foreign
               PROVE  pos' = c'.managed + unseen'.bought - unseen'.sold
    BY DEF LedgerOf, ActiveCampaign
  <2>1. ActiveCampaign(c) /\ ~c.blocked /\ c'.managed = c.managed
    BY DEF BooksKept, Worth, Active, ActiveCampaign
  <2>2. manual = 0 /\ ~unseen.foreign
        /\ pos' - unseen'.bought + unseen'.sold = pos - unseen.bought + unseen.sold
    BY DEF Follows
  <2>3. pos = c.managed + unseen.bought - unseen.sold
    BY <2>1, <2>2 DEF LedgerState, LedgerOf
  <2> QED
    BY <1>0, <1>1, <2>1, <2>2, <2>3
<1>3. LedgerOf(disk.c, Merge(unseen, unsaved))'
  <2>1. CASE disk' = disk /\ unsaved' = unsaved
    <3> SUFFICES ASSUME manual' = 0, ActiveCampaign(disk.c), ~disk.c.blocked,
                        ~Merge(unseen', unsaved).foreign
                 PROVE  pos' = disk.c.managed + Merge(unseen', unsaved).bought
                                 - Merge(unseen', unsaved).sold
      BY <2>1 DEF LedgerOf, ActiveCampaign
    <3>1. ~unseen'.foreign /\ ~unsaved.foreign
      BY <1>0, MergeFields
    <3>2. manual = 0 /\ ~unseen.foreign
          /\ pos' - unseen'.bought + unseen'.sold = pos - unseen.bought + unseen.sold
      BY <3>1 DEF Follows
    <3>3. ~Merge(unseen, unsaved).foreign
      BY <1>0, <3>1, <3>2, MergeFields
    <3>4. pos = disk.c.managed + Merge(unseen, unsaved).bought - Merge(unseen, unsaved).sold
      BY <3>2, <3>3 DEF LedgerState, LedgerOf
    <3>5. /\ Merge(unseen, unsaved).bought = unseen.bought + unsaved.bought
          /\ Merge(unseen, unsaved).sold = unseen.sold + unsaved.sold
          /\ Merge(unseen', unsaved).bought = unseen'.bought + unsaved.bought
          /\ Merge(unseen', unsaved).sold = unseen'.sold + unsaved.sold
      BY <1>0, MergeFields
    <3> QED
      BY <1>0, <1>1, <3>2, <3>4, <3>5
  <2>2. CASE disk'.c = c' /\ unsaved' = NoFills
    BY <1>0, <1>2, <2>2, SavedLedger
  <2> QED
    BY <2>1, <2>2 DEF BooksKept
<1>4. (manual = 0 => pos >= 0)'
  BY DEF Follows, LedgerState
<1> QED
  BY <1>2, <1>3, <1>4 DEF LedgerState

LEMMA BooksSame == ASSUME UNCHANGED engineVars PROVE BooksKept
BY DEF engineVars, BooksKept, Worth, Active, ActiveCampaign

LEMMA BooksSaved == ASSUME NEW x, NEW m, Save(x, m), Worth(x) PROVE BooksKept
BY DEF Save, BooksKept

LEMMA WorthSelf == Worth(c)
BY DEF Worth, Active, ActiveCampaign

LEMMA BooksRaise == ASSUME SyncRaise PROVE BooksKept
BY BooksSame, BooksSaved, WorthSelf DEF SyncRaise

LEMMA BooksRecovery ==
  ASSUME NEW x \in Campaigns, NEW p, NEW v, EnterRecovery(x, p, v) PROVE BooksKept
<1> DEFINE y == [x EXCEPT !.status = "recovery", !.blocked = TRUE, !.zero = 0]
<1>1. y.blocked /\ Save(y, TRUE)
  BY DEF Campaigns, EnterRecovery
<1> HIDE DEF y
<1> QED
  BY <1>1, BooksSaved DEF Worth

\* Another status of a campaign that stays active changes nothing the ledger looks at.
LEMMA BooksStatus ==
  ASSUME OrderInv, Active, NEW s, NEW m, Save([c EXCEPT !.status = s], m) PROVE BooksKept
<1> DEFINE y == [c EXCEPT !.status = s]
<1>1. y.blocked = c.blocked /\ y.managed = c.managed /\ Save(y, m)
  BY LedgerFacts DEF Campaigns
<1> HIDE DEF y
<1> QED
  BY <1>1, BooksSaved DEF Worth

LEMMA BooksCovered == ASSUME OrderInv, Active, CoverDone \/ CoverRaise PROVE BooksKept
<1>1. CASE CoverRaise
  BY <1>1, BooksRaise, BooksSaved, WorthSelf DEF CoverRaise
<1>2. CASE CoverDone
  <2>1. CASE InRecovery
    BY <1>2, <2>1, BooksSaved, WorthSelf DEF CoverDone
  <2>2. CASE ~InRecovery
    BY <1>2, <2>2, BooksStatus DEF CoverDone
  <2> QED
    BY <2>1, <2>2
<1> QED
  BY <1>1, <1>2

LEMMA RecoveryBooks == ASSUME OrderInv, Recovery PROVE BooksKept
<1>0. c \in Campaigns /\ OrderState /\ OrderControl
  BY OrderFacts
<1>1. c.blocked /\ InRecovery
  <2>1. pc \in RecoveryPcs
    BY DEF Recovery, RecCancel, RecOrders, RecOrdersFail, SrecEntries, SrecFlatOrders,
           SrecFlatFails, SrecFlatCancel, SrecVerify, SrecVerifyFails, At, RecoveryPcs
  <2> QED
    BY <1>0, <2>1 DEF OrderControl, OrderState, InRecovery, Held
<1>2. ASSUME NEW m, NEW x, Save(x, m), x.blocked PROVE BooksKept
  BY <1>2, BooksSaved DEF Worth
<1>3. CASE UNCHANGED engineVars \/ SyncRaise
  BY <1>3, BooksSame, BooksRaise
<1>4. CASE c' = [c EXCEPT !.zero = 0] /\ UNCHANGED <<safe, disk, unsaved>>
  <2>1. c'.blocked
    BY <1>0, <1>1, <1>4 DEF Campaigns
  <2> QED
    BY <1>4, <2>1 DEF BooksKept, Worth
<1>5. CASE Save([c EXCEPT !.zero = 0], safe)
  <2>1. [c EXCEPT !.zero = 0].blocked
    BY <1>0, <1>1 DEF Campaigns
  <2> QED
    BY <1>2, <1>5, <2>1
<1>6. CASE Save(Counted, safe)
  <2>1. Counted.blocked
    BY <1>0, <1>1 DEF Counted, Campaigns
  <2> QED
    BY <1>2, <1>6, <2>1
<1> QED
  BY <1>1, <1>2, <1>3, <1>4, <1>5, <1>6 DEF Recovery, RecCancel, RecOrders, RecOrdersFail,
     SrecEntries, SrecFlatOrders, SrecFlatFails, SrecFlatCancel, SrecVerify, SrecVerifyFails

\* A closed cycle holds nothing when it is rearmed: the managed size is zero already.
LEMMA FinishBooks == ASSUME OrderInv, Finish PROVE BooksKept
<1>0. c \in Campaigns /\ OrderControl /\ ControlInv
  BY OrderFacts
<1>1. CASE UNCHANGED engineVars \/ SyncRaise
  BY <1>1, BooksSame, BooksRaise
<1>2. ASSUME NEW p, NEW v, EnterRecovery(c, p, v) PROVE BooksKept
  BY <1>0, <1>2, BooksRecovery
<1>3. CASE FinPlace
  <2>1. pc = "fin_place" /\ Save(Rearmed, safe)
    BY <1>3 DEF FinPlace, At
  <2>2. c.managed = 0 /\ Active
    BY <1>0, <2>1 DEF OrderControl, ControlInv, RearmPcs, WorkPcs, FinishPcs
  <2>3. Rearmed.managed = 0 /\ Rearmed.blocked = c.blocked
    BY <1>0 DEF Rearmed, Campaigns
  <2> QED
    BY <2>1, <2>2, <2>3, BooksSaved DEF Worth
<1> QED
  BY <1>1, <1>2, <1>3 DEF Finish, FinBlocked, FinL1Orders, FinL1Cancel, FinL1Fails,
     FinErrAccount, FinErrOrders, FinFlat, FinPlaceFails, FinOrders, FinCancel,
     FinCancelFails, FinReadFails

LEMMA ConfirmBooks == ASSUME OrderInv, Confirm \/ Cancel PROVE BooksKept
<1>0. c \in Campaigns /\ ControlInv
  BY OrderFacts
<1>1. CASE UNCHANGED engineVars \/ SyncRaise
  BY <1>1, BooksSame, BooksRaise
<1>2. ASSUME NEW p, NEW v, EnterRecovery(c, p, v) PROVE BooksKept
  BY <1>0, <1>2, BooksRecovery
<1>3. CASE ConfDone
  <2>1. ~ActiveCampaign(Confirmed)
    <3>1. Confirmed.status \in {"canceled", "completed"}
      BY <1>0 DEF Confirmed, Campaigns
    <3> QED
      BY <3>1 DEF ActiveCampaign, ActiveStatuses
  <2> QED
    BY <1>3, <2>1, BooksSaved DEF ConfDone, Worth
<1>4. CASE CanOrders
  <2>1. Active
    BY <1>0, <1>4, WorkParts DEF CanOrders, At, ControlInv, CancelPcs
  <2> QED
    BY <1>1, <1>2, <1>4, <2>1, BooksStatus DEF CanOrders
<1> QED
  BY <1>1, <1>2, <1>3, <1>4 DEF Confirm, ConfAccount, ConfAgain, ConfRefused, ConfReadFails,
     Cancel, CanAccount, CanCancel, CanCancelFails, CanErrAccount, CanErrOrders, CanReadFails

LEMMA EmergencyBooks == ASSUME OrderInv, Emergency PROVE BooksKept
<1>0. c \in Campaigns
  BY OrderFacts
<1>1. CASE UNCHANGED engineVars
  BY <1>1, BooksSame
<1>2. ASSUME NEW v, EmgRetry(v) PROVE BooksKept
  BY <1>0, <1>2, BooksSame, BooksSaved, BooksRecovery, WorthSelf DEF EmgRetry
<1>3. CASE EmgSucceeds
  <2>1. CASE Active
    <3>1. ~ActiveCampaign([c EXCEPT !.status = "emergency_closed", !.managed = 0])
      BY <1>0 DEF Campaigns, ActiveCampaign, ActiveStatuses
    <3> QED
      BY <1>3, <2>1, <3>1, BooksSaved DEF EmgSucceeds, Worth
  <2>2. CASE ~Active
    BY <1>3, <2>2, BooksSaved, WorthSelf DEF EmgSucceeds
  <2> QED
    BY <2>1, <2>2
<1> QED
  BY <1>1, <1>2, <1>3 DEF Emergency, EmgOrders, EmgCancel, EmgAccount, EmgClose, EmgFlat,
     EmgFlatOrders, EmgAgain, EmgReread, EmgAgainFails, EmgReadFails

LEMMA CreateBooks == ASSUME OrderInv, Create, ~CrLeverage PROVE BooksKept
<1>0. c \in Campaigns /\ ControlInv
  BY OrderFacts
<1>1. CASE UNCHANGED engineVars
  BY <1>1, BooksSame
<1>2. ASSUME NEW p, NEW v, EnterRecovery(c, p, v) PROVE BooksKept
  BY <1>0, <1>2, BooksRecovery
<1>3. CASE CrPlace
  BY <1>3, BooksSaved, WorthSelf DEF CrPlace
<1>4. CASE CrFlat
  <2>1. Active
    BY <1>0, <1>4 DEF CrFlat, At, ControlInv, WorkPcs
  <2> QED
    BY <1>1, <1>4, <2>1, BooksStatus DEF CrFlat, CreationFailure
<1> QED
  BY <1>1, <1>2, <1>3, <1>4 DEF Create, CrAccount, CrOrders, CrRefused, CrPlaceFails,
     CrCount, CrfAccount, CrfOrders, CrReadFails, CreationFailure

LEMMA BooksStep == ASSUME OrderInv, [Next]_vars PROVE BooksKept \/ Rereads
<1>0. c \in Campaigns /\ ControlInv
  BY OrderFacts
<1>1. ASSUME UNCHANGED engineVars PROVE BooksKept
  BY <1>1, BooksSame
<1>2. ASSUME Sync PROVE BooksKept \/ FillsRead
  BY <1>1, <1>2, BooksRaise DEF Sync, SyncOrders, SyncAccount, SyncReadFails, FillsRead
<1>3. ASSUME Cover PROVE BooksKept
  <2>1. Active
    <3>1. pc \in CoverPcs
      BY <1>3 DEF Cover, CoverDecide, CoverCancel, CoverPlace, CoverFilled, CoverPlaceFails, At, CoverPcs
    <3> QED
      BY <1>0, <3>1, WorkParts DEF ControlInv
  <2> QED
    BY <1>1, <1>3, <2>1, BooksCovered DEF Cover, CoverDecide, CoverCancel, CoverPlace, CoverFilled,
       CoverPlaceFails
<1>4. ASSUME Global PROVE BooksKept
  BY <1>1, <1>4, BooksSaved, WorthSelf DEF Global, GlobAccount, GlobOrders, GlobReadFails
<1>5. ASSUME StartMonitor \/ Commands \/ Restart PROVE BooksKept
  <2>1. ASSUME NEW m, Save([c EXCEPT !.status = "emergency", !.blocked = TRUE], m) PROVE BooksKept
    <3>1. [c EXCEPT !.status = "emergency", !.blocked = TRUE].blocked
      BY <1>0 DEF Campaigns
    <3> QED
      BY <2>1, <3>1, BooksSaved DEF Worth
  <2> QED
    BY <1>1, <1>5, <2>1 DEF StartMonitor, Commands, StartReconcile, StartCancel, StartCreate,
       StartEmergency, Restart
<1> QED
  BY <1>1, <1>2, <1>3, <1>4, <1>5, RecoveryBooks, FinishBooks, ConfirmBooks, EmergencyBooks,
     CreateBooks DEF Next, Thread, Rereads, VenueMoves, vars

------------------------------------------------------------------------------
(* The steps that change both sides                                         *)

\* The managed size after the fills is the position, unless the campaign is blocked.
LEMMA AppliedExact ==
  ASSUME OrderInv, LedgerState, Active, manual = 0, ~Applied.blocked
  PROVE  pos = Applied.managed
<1>0. /\ c \in Campaigns /\ unseen \in Fills /\ pos \in Int
  BY LedgerFacts
<1>1. c.managed \in Nat /\ unseen.bought \in Nat /\ unseen.sold \in Nat
      /\ c.blocked \in BOOLEAN /\ unseen.foreign \in BOOLEAN
  BY <1>0 DEF Campaigns, Fills
<1>2. Applied.blocked = (c.blocked \/ unseen.foreign)
  BY <1>0 DEF Applied, Campaigns
<1>3. ~c.blocked /\ ~unseen.foreign
  BY <1>2
<1>4. pos = c.managed + unseen.bought - unseen.sold /\ pos >= 0
  BY <1>3 DEF LedgerState, LedgerOf, Active, ActiveCampaign
<1> DEFINE net == c.managed + unseen.bought - unseen.sold
<1>5. Applied.managed = IF net > 0 THEN net ELSE 0
  BY <1>0 DEF Applied, Campaigns
<1> QED
  BY <1>0, <1>1, <1>4, <1>5

\* Fills that were pending and have been read are pending on disk all the same.
LEMMA ReadTwice ==
  ASSUME NEW f \in Fills, NEW g \in Fills
  PROVE  /\ Merge(NoFills, Merge(g, f)).bought = Merge(f, g).bought
         /\ Merge(NoFills, Merge(g, f)).sold = Merge(f, g).sold
         /\ ~Merge(NoFills, Merge(g, f)).foreign => ~Merge(f, g).foreign
<1>1. Merge(g, f) \in Fills
  BY MergeType
<1>2. /\ Merge(f, g).bought = f.bought + g.bought /\ Merge(f, g).sold = f.sold + g.sold
      /\ ~f.foreign /\ ~g.foreign => ~Merge(f, g).foreign
      /\ f.bought \in Nat /\ f.sold \in Nat /\ g.bought \in Nat /\ g.sold \in Nat
  BY MergeFields
<1>3. /\ Merge(g, f).bought = g.bought + f.bought /\ Merge(g, f).sold = g.sold + f.sold
      /\ ~Merge(g, f).foreign => ~f.foreign /\ ~g.foreign
  BY MergeFields
<1>4. /\ Merge(NoFills, Merge(g, f)).bought = 0 + Merge(g, f).bought
      /\ Merge(NoFills, Merge(g, f)).sold = 0 + Merge(g, f).sold
      /\ ~Merge(NoFills, Merge(g, f)).foreign => ~Merge(g, f).foreign
  BY <1>1, MergeFields, NoFillsFields
<1> QED
  BY <1>2, <1>3, <1>4

LEMMA FillsLedger ==
  ASSUME OrderInv, OrderInv', LedgerState, FillsRead PROVE LedgerState'
<1>0. /\ EngineTypeOK /\ VenueTypeOK /\ Applied \in Campaigns /\ ControlInv
      /\ unseen \in Fills /\ unsaved \in Fills /\ unseen' \in Fills /\ pos \in Int
      /\ Applied.managed \in Nat
  BY OrderFacts, LedgerFacts, AppliedType DEF OrderInv, CleanInv, TypeOK, VenueTypeOK, Campaigns
<1>1. Active
  <2>1. pc \in SyncPcs
    BY DEF FillsRead, SyncMismatch, SyncWhileRecovery, SyncOpen, SyncClosed, SyncWaiting, At, SyncPcs
  <2> QED
    BY <1>0, <2>1, WorkParts DEF ControlInv
<1>2. unseen' = NoFills /\ pos' = pos /\ manual' = manual
  BY DEF FillsRead, SyncMismatch, SyncWhileRecovery, SyncOpen, SyncClosed, SyncWaiting, ReadFills
<1>3. CASE SyncMismatch
  <2>1. c' = [Applied EXCEPT !.status = "recovery", !.blocked = TRUE, !.zero = 0] /\ disk'.c = c'
    BY <1>3 DEF SyncMismatch, EnterRecovery, Save
  <2>2. c'.blocked
    BY <1>0, <2>1 DEF Campaigns
  <2> QED
    BY <1>2, <2>1, <2>2 DEF LedgerState, LedgerOf
<1>4. CASE ~SyncMismatch
  <2>1. c'.managed = Applied.managed /\ c'.blocked = Applied.blocked
    BY <1>0, <1>4 DEF FillsRead, SyncWhileRecovery, SyncOpen, SyncClosed, SyncWaiting, Save, Campaigns
  <2>2. LedgerOf(c, unseen)'
    <3>1. manual = 0 /\ ~c'.blocked => pos = c'.managed
      BY <1>1, <2>1, AppliedExact
    <3> QED
      BY <1>0, <1>2, <2>1, <3>1, NoFillsFields DEF LedgerOf
  <2>3. CASE SyncWaiting
    <3>1. disk'.c = c' /\ unsaved' = NoFills
      BY <2>3 DEF SyncWaiting, Save
    <3> QED
      BY <1>0, <1>2, <2>2, <3>1, SavedLedger DEF LedgerState
  <2>4. CASE FillsInMemory
    <3>1. disk' = disk /\ unsaved' = Merge(unsaved, unseen)
      BY <2>4 DEF FillsInMemory
    <3>2. LedgerOf(disk.c, Merge(unseen, unsaved))'
      BY <1>0, <1>2, <3>1, ReadTwice DEF LedgerState, LedgerOf, ActiveCampaign
    <3> QED
      BY <1>2, <2>2, <3>2 DEF LedgerState
  <2> QED
    BY <1>4, <2>3, <2>4 DEF FillsRead, SyncWhileRecovery, SyncOpen, SyncClosed
<1> QED
  BY <1>3, <1>4

\* A new campaign starts on a flat account; what it reads again is nobody's.
LEMMA OpenLedger ==
  ASSUME OrderInv, OrderInv', StrayState, LedgerState, CrLeverage PROVE LedgerState'
<1>0. unseen' \in Fills
  BY DEF OrderInv, CleanInv, TypeOK, VenueTypeOK
<1>1. /\ pc = "cr_leverage" /\ c' = NewCampaign /\ disk'.c = c' /\ unsaved' = NoFills
      /\ pos' = pos /\ manual' = manual
      /\ unseen' \in {NoFills, [NoFills EXCEPT !.foreign = TRUE]}
  BY DEF CrLeverage, At, Save
<1>2. manual = 0 => pos = 0
  BY <1>1 DEF StrayState
<1>3. c'.managed = 0 /\ unseen'.bought = 0 /\ unseen'.sold = 0
  BY <1>1 DEF NewCampaign, NoCampaign, NoFills
<1>4. LedgerOf(c, unseen)'
  BY <1>1, <1>2, <1>3 DEF LedgerOf
<1> QED
  BY <1>0, <1>1, <1>2, <1>4, SavedLedger DEF LedgerState

\* A crash goes back to the campaign on disk and to all the fills it has not accounted for.
LEMMA CrashLedger ==
  ASSUME OrderInv, OrderInv', LedgerState, Crash PROVE LedgerState'
<1>0. unseen' \in Fills
  BY DEF OrderInv, CleanInv, TypeOK, VenueTypeOK
<1>1. /\ c' = disk.c /\ disk' = disk /\ unseen' = Merge(unseen, unsaved) /\ unsaved' = NoFills
      /\ pos' = pos /\ manual' = manual
  BY DEF Crash
<1>2. LedgerOf(c, unseen)'
  BY <1>1 DEF LedgerState, LedgerOf, ActiveCampaign
<1> QED
  BY <1>0, <1>1, <1>2, SavedLedger DEF LedgerState

LEMMA LedgerInit == Init => LedgerInv
<1> SUFFICES ASSUME Init PROVE LedgerInv
  OBVIOUS
<1>1. OrderInv
  BY OrderInit
<1>2. /\ c = NoCampaign /\ disk.c = NoCampaign /\ pc = "down" /\ pos = 0 /\ strayBuy = 0
  BY DEF Init, VenueInit
<1>3. StrayState
  BY <1>2, OutPlaces DEF StrayState, OpenPcs
<1>4. ~ActiveCampaign(c) /\ ~ActiveCampaign(disk.c)
  BY <1>2 DEF ActiveCampaign, ActiveStatuses, NoCampaign
<1>5. LedgerState
  BY <1>2, <1>4 DEF LedgerState, LedgerOf
<1> QED
  BY <1>1, <1>3, <1>5 DEF LedgerInv

LEMMA LedgerStep == LedgerInv /\ [Next]_vars => LedgerInv'
<1> SUFFICES ASSUME LedgerInv, [Next]_vars PROVE LedgerInv'
  OBVIOUS
<1>1. OrderInv /\ OrderInv' /\ StrayState /\ StrayState' /\ LedgerState
  BY OrderStep, StrayStep DEF LedgerInv
<1>2. CASE Rereads
  BY <1>1, <1>2, FillsLedger, OpenLedger, CrashLedger DEF Rereads, LedgerInv
<1>3. CASE ~Rereads
  BY <1>1, <1>3, FollowsStep, BooksStep, LedgerGoesOn DEF LedgerInv
<1> QED
  BY <1>2, <1>3

\* What the engine believes it owns, plus the fills it has not read, is the position: no
\* fill is lost or counted twice.
THEOREM LedgerCorrect == Spec => []LedgerExact
<1>1. LedgerInv => LedgerExact
  BY DEF LedgerInv, LedgerState, LedgerOf, LedgerExact, Ledger, ActiveCampaign, ActiveStatuses
<1> QED
  BY LedgerInit, LedgerStep, <1>1, PTL DEF Spec

\* The same of what a restart would find on disk, at any moment.
THEOREM LedgerDurable == Spec => []LedgerSurvivesCrash
<1>1. LedgerInv => LedgerSurvivesCrash
  BY DEF LedgerInv, LedgerState, LedgerOf, LedgerSurvivesCrash, Ledger, ActiveCampaign, ActiveStatuses
<1> QED
  BY LedgerInit, LedgerStep, <1>1, PTL DEF Spec

------------------------------------------------------------------------------
(* Sums over the levels                                                     *)

\* The library adds up a finite set one chosen element at a time, by a function defined on
\* its subsets; nothing about such a function is known before it is shown to exist.
Pick(s) == CHOOSE x \in s : TRUE

OneMore(g, e, s) == IF s = {} THEN 0 ELSE e[Pick(s)] + g[s \ {Pick(s)}]

IsSum(g, e, D) ==
  /\ g \in [SUBSET D -> Nat]
  /\ \A s \in SUBSET D : g[s] = OneMore(g, e, s)

\* A nonempty set of numbers has a least one, a nonempty set of subsets a minimal one.
LEMMA LeastNumber ==
  ASSUME NEW T \in SUBSET Nat, T # {} PROVE \E m \in T : \A k \in T : ~(k < m)
<1>1. \E x \in T : \A y \in T : ~(<<y, x>> \in OpToRel(<, Nat))
  BY NatLessThanWellFounded, WFMin
<1> QED
  BY <1>1 DEF OpToRel

LEMMA MinimalSubset ==
  ASSUME NEW D, IsFiniteSet(D), NEW T \in SUBSET (SUBSET D), T # {}
  PROVE  \E m \in T : \A s \in T : s \subseteq m => s = m
<1>1. FiniteSubsetsOf(D) = SUBSET D
  BY FS_FiniteSubsetsOfFinite
<1>2. IsWellFoundedOn(StrictSubsetOrdering(D), SUBSET D)
  BY <1>1, FS_StrictSubsetOrderingWellFounded
<1>3. \E x \in T : \A y \in T : ~(<<y, x>> \in StrictSubsetOrdering(D))
  BY <1>2, WFMin
<1> QED
  BY <1>3 DEF StrictSubsetOrdering

LEMMA PickIn == ASSUME NEW s, s # {} PROVE Pick(s) \in s
BY DEF Pick

LEMMA OneMoreType ==
  ASSUME NEW D, NEW e \in [D -> Nat], NEW g \in [SUBSET D -> Nat], NEW s \in SUBSET D
  PROVE  OneMore(g, e, s) \in Nat
<1>1. CASE s # {}
  <2>1. Pick(s) \in D /\ s \ {Pick(s)} \in SUBSET D
    BY <1>1, PickIn
  <2>2. e[Pick(s)] \in Nat /\ g[s \ {Pick(s)}] \in Nat
    BY <2>1
  <2> QED
    BY <2>2 DEF OneMore
<1>2. CASE s = {}
  BY <1>2 DEF OneMore
<1> QED
  BY <1>1, <1>2

LEMMA SumExists ==
  ASSUME NEW D, IsFiniteSet(D), NEW e \in [D -> Nat] PROVE \E g : IsSum(g, e, D)
<1> DEFINE UpTo(g, n) == \A s \in SUBSET D : Cardinality(s) <= n => g[s] = OneMore(g, e, s)
           Unsummed == {n \in Nat : ~\E g \in [SUBSET D -> Nat] : UpTo(g, n)}
<1>0. \A s \in SUBSET D : IsFiniteSet(s) /\ Cardinality(s) \in Nat /\ Cardinality(s) <= Cardinality(D)
  BY FS_Subset, FS_CardinalityType
<1>1. 0 \notin Unsummed
  <2> DEFINE g == [s \in SUBSET D |-> 0]
  <2>1. ASSUME NEW s \in SUBSET D, Cardinality(s) <= 0 PROVE g[s] = OneMore(g, e, s)
    <3>1. Cardinality(s) = 0
      BY <1>0, <2>1
    <3>2. s = {}
      BY <1>0, <3>1, FS_EmptySet
    <3> QED
      BY <3>2 DEF OneMore
  <2>2. g \in [SUBSET D -> Nat]
    OBVIOUS
  <2> QED
    BY <2>1, <2>2
<1>2. ASSUME NEW n \in Nat, n + 1 \in Unsummed PROVE n \in Unsummed
  <2> SUFFICES ASSUME NEW g \in [SUBSET D -> Nat], UpTo(g, n) PROVE FALSE
    BY <1>2
  <2> DEFINE h == [s \in SUBSET D |-> OneMore(g, e, s)]
  <2>1. h \in [SUBSET D -> Nat]
    BY OneMoreType
  <2>2. ASSUME NEW s \in SUBSET D, Cardinality(s) <= n + 1 PROVE h[s] = OneMore(h, e, s)
    <3>1. CASE s = {}
      BY <3>1 DEF OneMore
    <3>2. CASE s # {}
      <4> DEFINE t == s \ {Pick(s)}
      <4>1. Cardinality(t) = Cardinality(s) - 1 /\ t \in SUBSET D
        BY <1>0, <3>2, PickIn, FS_RemoveElement
      <4>2. Cardinality(t) <= n
        BY <1>0, <2>2, <4>1
      <4>3. g[t] = OneMore(g, e, t)
        BY <4>1, <4>2
      <4>4. g[t] = h[t]
        BY <4>1, <4>3
      <4> HIDE DEF t
      <4>5. OneMore(g, e, s) = e[Pick(s)] + g[t] /\ OneMore(h, e, s) = e[Pick(s)] + h[t]
        BY <3>2 DEF OneMore, t
      <4> QED
        BY <4>4, <4>5
    <3> QED
      BY <3>1, <3>2
  <2> HIDE DEF h
  <2> QED
    BY <1>2, <2>1, <2>2
<1>3. Unsummed = {}
  <2> SUFFICES ASSUME Unsummed # {} PROVE FALSE
    OBVIOUS
  <2>0. Unsummed \in SUBSET Nat
    OBVIOUS
  <2> HIDE DEF Unsummed
  <2>1. PICK m \in Unsummed : \A k \in Unsummed : ~(k < m)
    BY <2>0, LeastNumber
  <2>2. m \in Nat /\ m # 0
    BY <1>1, <2>0
  <2>3. m - 1 \in Nat /\ (m - 1) + 1 = m
    BY <2>2
  <2>4. m - 1 \in Unsummed
    BY <1>2, <2>3
  <2> QED
    BY <2>1, <2>2, <2>4
<1>4. PICK g \in [SUBSET D -> Nat] : UpTo(g, Cardinality(D))
  BY <1>3, FS_CardinalityType
<1>5. \A s \in SUBSET D : g[s] = OneMore(g, e, s)
  BY <1>0, <1>4
<1> QED
  BY <1>4, <1>5 DEF IsSum

SumOf(e, D) == MapThenSumSet(LAMBDA l : e[l], D)

SumFn(g, e, D) == g = [s \in SUBSET D |-> OneMore(g, e, s)]

Sums(e, D) == CHOOSE g : SumFn(g, e, D)

LEMMA SumFnIs == ASSUME NEW D, NEW e, NEW g PROVE (IsSum(g, e, D) => SumFn(g, e, D))
BY DEF IsSum, SumFn

LEMMA SumOfIs ==
  ASSUME NEW D, NEW e
  PROVE  SumOf(e, D) = Sums(e, D)[D]
BY Zenon DEF Sums, SumOf, MapThenSumSet, MapThenFoldSet, SumFn, OneMore, Pick

LEMMA Same == ASSUME NEW e, NEW D PROVE MapThenSumSet(LAMBDA l : e[l], D) = SumOf(e, D)
BY DEF SumOf

\* Whatever satisfies the recursion has numbers for values.
LEMMA SumTyped ==
  ASSUME NEW D, IsFiniteSet(D), NEW e \in [D -> Nat], NEW g, SumFn(g, e, D) PROVE IsSum(g, e, D)
<1>1. \A s \in SUBSET D : g[s] = OneMore(g, e, s)
  BY Zenon DEF SumFn
<1> DEFINE Wrong == {s \in SUBSET D : g[s] \notin Nat}
<1>2. Wrong = {}
  <2> SUFFICES ASSUME Wrong # {} PROVE FALSE
    OBVIOUS
  <2>0. Wrong \in SUBSET (SUBSET D)
    OBVIOUS
  <2> HIDE DEF Wrong
  <2>1. PICK s \in Wrong : \A t \in Wrong : t \subseteq s => t = s
    BY <2>0, MinimalSubset
  <2>2. g[s] = OneMore(g, e, s) /\ g[s] \notin Nat
    BY <1>1, <2>1 DEF Wrong
  <2>3. s # {}
    BY <2>2 DEF OneMore
  <2>4. Pick(s) \in s
    BY <2>3, PickIn
  <2>5. g[s \ {Pick(s)}] \in Nat
    BY <2>0, <2>1, <2>4 DEF Wrong
  <2>6. e[Pick(s)] \in Nat
    BY <2>0, <2>1, <2>4 DEF Wrong
  <2> QED
    BY <2>2, <2>3, <2>5, <2>6 DEF OneMore
<1>3. g \in [SUBSET D -> Nat]
  <2>1. g = [s \in SUBSET D |-> g[s]]
    BY Zenon DEF SumFn
  <2> QED
    BY <1>2, <2>1
<1> QED
  BY <1>1, <1>3 DEF IsSum

LEMMA SumIsSum ==
  ASSUME NEW D, IsFiniteSet(D), NEW e \in [D -> Nat] PROVE IsSum(Sums(e, D), e, D)
<1>1. \E k : SumFn(k, e, D)
  BY SumExists, SumFnIs
<1>2. SumFn(Sums(e, D), e, D)
  BY <1>1 DEF Sums
<1> QED
  BY <1>2, SumTyped

\* Sums over a set taken apart at any of its elements.
LEMMA AnyElement ==
  ASSUME NEW D, IsFiniteSet(D), NEW e \in [D -> Nat], NEW g, IsSum(g, e, D),
         NEW s \in SUBSET D, NEW x \in s
  PROVE  g[s] = e[x] + g[s \ {x}]
<1> DEFINE Wrong == {t \in SUBSET D : \E y \in t : g[t] # e[y] + g[t \ {y}]}
<1> SUFFICES ASSUME Wrong # {} PROVE FALSE
  OBVIOUS
<1>0. Wrong \in SUBSET (SUBSET D)
  OBVIOUS
<1> HIDE DEF Wrong
<1>1. PICK t \in Wrong : \A u \in Wrong : u \subseteq t => u = t
  BY <1>0, MinimalSubset
<1>2. PICK y \in t : g[t] # e[y] + g[t \ {y}]
  BY <1>1 DEF Wrong
<1> DEFINE p == Pick(t)
<1>3. p \in t
  BY <1>2, PickIn
<1>4. t \in SUBSET D
  BY <1>0, <1>1
<1> HIDE DEF p
<1>5. g[t] = e[p] + g[t \ {p}]
  BY <1>3, <1>4 DEF IsSum, OneMore, p
<1>6. y # p
  BY <1>2, <1>5
<1>7. t \ {p} \notin Wrong /\ t \ {y} \notin Wrong
  BY <1>1, <1>2, <1>3
<1> DEFINE r == (t \ {p}) \ {y}
<1>8. r = (t \ {y}) \ {p} /\ r \in SUBSET D
  BY <1>4
<1>9. g[t \ {p}] = e[y] + g[r]
  BY <1>2, <1>4, <1>6, <1>7 DEF Wrong
<1>10. g[t \ {y}] = e[p] + g[(t \ {y}) \ {p}]
  BY <1>3, <1>4, <1>6, <1>7 DEF Wrong
<1> HIDE DEF r
<1>11. g[t \ {y}] = e[p] + g[r]
  BY <1>8, <1>10
<1>12. e[p] \in Nat /\ e[y] \in Nat /\ g[r] \in Nat
  BY <1>2, <1>3, <1>4, <1>8 DEF IsSum
<1> QED
  BY <1>2, <1>5, <1>9, <1>11, <1>12

\* Terms that grow nowhere give a sum that does not grow.
LEMMA SumMonotone ==
  ASSUME NEW D, IsFiniteSet(D), NEW e \in [D -> Nat], NEW f \in [D -> Nat],
         NEW s \in SUBSET D, NEW g, IsSum(g, e, D), NEW h, IsSum(h, f, D),
         \A x \in s : e[x] <= f[x]
  PROVE  g[s] <= h[s]
<1> DEFINE Wrong == {t \in SUBSET D : t \subseteq s /\ ~(g[t] <= h[t])}
<1> SUFFICES ASSUME Wrong # {} PROVE FALSE
  OBVIOUS
<1>0. Wrong \in SUBSET (SUBSET D)
  OBVIOUS
<1> HIDE DEF Wrong
<1>1. PICK t \in Wrong : \A u \in Wrong : u \subseteq t => u = t
  BY <1>0, MinimalSubset
<1>2. t \in SUBSET D /\ t \subseteq s /\ ~(g[t] <= h[t])
  BY <1>1 DEF Wrong
<1>3. g[t] = OneMore(g, e, t) /\ h[t] = OneMore(h, f, t)
  BY <1>2 DEF IsSum
<1>4. t # {}
  BY <1>2, <1>3 DEF OneMore
<1> DEFINE p == Pick(t)
<1>5. p \in t
  BY <1>4, PickIn
<1>6. g[t] = e[p] + g[t \ {p}] /\ h[t] = f[p] + h[t \ {p}]
  BY <1>3, <1>4 DEF OneMore
<1> HIDE DEF p
<1>7. g[t \ {p}] <= h[t \ {p}]
  BY <1>1, <1>2, <1>5 DEF Wrong
<1>8. e[p] \in Nat /\ f[p] \in Nat /\ e[p] <= f[p]
  BY <1>2, <1>5
<1>9. g[t \ {p}] \in Nat /\ h[t \ {p}] \in Nat
  BY <1>2 DEF IsSum
<1> QED
  BY <1>2, <1>6, <1>7, <1>8, <1>9

\* Terms of at most b each sum to at most b times their number.
LEMMA SumBound ==
  ASSUME NEW D, IsFiniteSet(D), NEW e \in [D -> Nat], NEW s \in SUBSET D, NEW g, IsSum(g, e, D),
         NEW b \in Nat, \A x \in s : e[x] <= b
  PROVE  g[s] <= Cardinality(s) * b
<1> DEFINE Wrong == {t \in SUBSET D : t \subseteq s /\ ~(g[t] <= Cardinality(t) * b)}
<1> SUFFICES ASSUME Wrong # {} PROVE FALSE
  OBVIOUS
<1>0. Wrong \in SUBSET (SUBSET D)
  OBVIOUS
<1> HIDE DEF Wrong
<1>1. PICK t \in Wrong : \A u \in Wrong : u \subseteq t => u = t
  BY <1>0, MinimalSubset
<1>2. t \in SUBSET D /\ t \subseteq s /\ ~(g[t] <= Cardinality(t) * b)
  BY <1>1 DEF Wrong
<1>3. g[t] = OneMore(g, e, t)
  BY <1>2 DEF IsSum
<1>4. t # {}
  <2> SUFFICES ASSUME t = {} PROVE FALSE
    OBVIOUS
  <2>1. g[t] = 0
    BY <1>3 DEF OneMore
  <2>2. Cardinality(t) = 0
    BY FS_EmptySet
  <2> QED
    BY <1>2, <2>1, <2>2
<1> DEFINE p == Pick(t)
<1>5. p \in t
  BY <1>4, PickIn
<1>6. g[t] = e[p] + g[t \ {p}]
  BY <1>3, <1>4 DEF OneMore
<1> HIDE DEF p
<1>7. g[t \ {p}] <= Cardinality(t \ {p}) * b
  BY <1>1, <1>2, <1>5 DEF Wrong
<1>8. IsFiniteSet(t) /\ Cardinality(t) \in Nat
  BY <1>2, FS_Subset, FS_CardinalityType
<1>9. Cardinality(t \ {p}) = Cardinality(t) - 1
  BY <1>5, <1>8, FS_RemoveElement
<1>10. e[p] \in Nat /\ e[p] <= b /\ g[t \ {p}] \in Nat
  BY <1>2, <1>5 DEF IsSum
<1>11. (Cardinality(t) - 1) * b = Cardinality(t) * b - b
  BY <1>8
<1>12. Cardinality(t) * b \in Nat
  BY <1>8
<1> QED
  BY <1>2, <1>6, <1>7, <1>9, <1>10, <1>11, <1>12


\* What the exposure argument needs of the library's sum.
LEMMA SumNat ==
  ASSUME NEW D, IsFiniteSet(D), NEW e \in [D -> Nat] PROVE SumOf(e, D) \in Nat
<1>1. Sums(e, D) \in [SUBSET D -> Nat]
  BY SumIsSum DEF IsSum
<1> QED
  BY <1>1, SumOfIs

LEMMA SumNoGreater ==
  ASSUME NEW D, IsFiniteSet(D), NEW e \in [D -> Nat], NEW f \in [D -> Nat],
         \A x \in D : e[x] <= f[x]
  PROVE  SumOf(e, D) <= SumOf(f, D)
<1>1. IsSum(Sums(e, D), e, D) /\ IsSum(Sums(f, D), f, D)
  BY SumIsSum
<1>2. Sums(e, D)[D] <= Sums(f, D)[D]
  BY <1>1, SumMonotone
<1> QED
  BY <1>2, SumOfIs

LEMMA SumSplit ==
  ASSUME NEW D, IsFiniteSet(D), NEW e \in [D -> Nat], NEW k \in D
  PROVE  SumOf(e, D) = e[k] + Sums(e, D)[D \ {k}]
<1>1. IsSum(Sums(e, D), e, D)
  BY SumIsSum
<1>2. Sums(e, D)[D] = e[k] + Sums(e, D)[D \ {k}]
  BY <1>1, AnyElement
<1> QED
  BY <1>2, SumOfIs

\* One term changed changes the sum by as much.
LEMMA SumUpdate ==
  ASSUME NEW D, IsFiniteSet(D), NEW e \in [D -> Nat], NEW f \in [D -> Nat], NEW k \in D,
         \A x \in D : x # k => e[x] = f[x]
  PROVE  SumOf(f, D) = SumOf(e, D) + f[k] - e[k]
<1>1. IsSum(Sums(e, D), e, D) /\ IsSum(Sums(f, D), f, D)
  BY SumIsSum
<1> DEFINE s == D \ {k}
<1>2. s \in SUBSET D /\ (\A x \in s : e[x] <= f[x] /\ f[x] <= e[x])
  <2>1. \A x \in s : e[x] = f[x] /\ e[x] \in Nat
    OBVIOUS
  <2> QED
    BY <2>1
<1> HIDE DEF s
<1>3. Sums(e, D)[s] <= Sums(f, D)[s]
  BY <1>1, <1>2, SumMonotone
<1>4. Sums(f, D)[s] <= Sums(e, D)[s]
  BY <1>1, <1>2, SumMonotone
<1>5. SumOf(e, D) = e[k] + Sums(e, D)[s] /\ SumOf(f, D) = f[k] + Sums(f, D)[s]
  BY SumSplit DEF s
<1>6. Sums(e, D)[s] \in Nat /\ Sums(f, D)[s] \in Nat
  BY <1>1, <1>2 DEF IsSum
<1> QED
  BY <1>3, <1>4, <1>5, <1>6

LEMMA SumBounded ==
  ASSUME NEW D, IsFiniteSet(D), NEW e \in [D -> Nat], NEW b \in Nat, \A x \in D : e[x] <= b
  PROVE  SumOf(e, D) <= Cardinality(D) * b
<1>1. IsSum(Sums(e, D), e, D)
  BY SumIsSum
<1>2. Sums(e, D)[D] <= Cardinality(D) * b
  BY <1>1, SumBound
<1> QED
  BY <1>2, SumOfIs

LEMMA SumBoundedBut ==
  ASSUME NEW D, IsFiniteSet(D), NEW e \in [D -> Nat], NEW b \in Nat, \A x \in D : e[x] <= b,
         NEW k \in D, e[k] = 0
  PROVE  SumOf(e, D) <= (Cardinality(D) - 1) * b
<1>1. IsSum(Sums(e, D), e, D)
  BY SumIsSum
<1>2. Sums(e, D)[D \ {k}] <= Cardinality(D \ {k}) * b
  BY <1>1, SumBound
<1>3. Cardinality(D \ {k}) = Cardinality(D) - 1
  BY FS_RemoveElement
<1>4. SumOf(e, D) = e[k] + Sums(e, D)[D \ {k}] /\ Sums(e, D)[D \ {k}] \in Nat
  BY <1>1, SumSplit DEF IsSum
<1> QED
  BY <1>2, <1>3, <1>4

LEMMA SumZero ==
  ASSUME NEW D, IsFiniteSet(D), NEW e \in [D -> Nat], \A x \in D : e[x] = 0
  PROVE  SumOf(e, D) = 0
<1>1. SumOf(e, D) <= Cardinality(D) * 0
  BY SumBounded
<1>2. Cardinality(D) \in Nat
  BY FS_CardinalityType
<1> QED
  BY <1>1, <1>2, SumNat
------------------------------------------------------------------------------
(* Exposure                                                                 *)

Exposure == pos + SumOf(entry, Levels) + strayBuy

ExposureState ==
  manual = 0 =>
    /\ Exposure <= NLevels * Lot
    /\ pc = "cr_place" => Exposure <= (regs.k - 1) * Lot
    /\ pc = "fin_place" \/ (pc = "fin_flat" /\ regs.k >= 1) => Exposure <= (NLevels - 1) * Lot

ExposureInv == LedgerInv /\ ExposureState

LEMMA LevelsFinite == IsFiniteSet(Levels) /\ Cardinality(Levels) = NLevels
BY NLevelsAssumption, FS_Interval DEF Levels

LEMMA ExposureType ==
  ASSUME VenueTypeOK PROVE SumOf(entry, Levels) \in Nat /\ Exposure \in Int
<1>1. SumOf(entry, Levels) \in Nat
  BY LevelsFinite, SumNat DEF VenueTypeOK
<1> QED
  BY <1>1 DEF Exposure, VenueTypeOK

LEMMA ExposureNext ==
  /\ Exposure' = pos' + SumOf(entry', Levels) + strayBuy'
  /\ VenueTypeOK' => SumOf(entry', Levels) \in Nat /\ entry' \in [Levels -> Nat]
                     /\ pos' \in Int /\ strayBuy' \in Nat
<1>1. ASSUME VenueTypeOK' PROVE SumOf(entry', Levels) \in Nat
  BY <1>1, LevelsFinite, SumNat DEF VenueTypeOK
<1>2. Exposure' = pos' + SumOf(entry', Levels) + strayBuy'
  BY DEF Exposure
<1>3. VenueTypeOK' => entry' \in [Levels -> Nat] /\ pos' \in Int /\ strayBuy' \in Nat
  BY DEF VenueTypeOK, Levels
<1> QED
  BY <1>1, <1>2, <1>3

\* The engine buys nothing: the position and the unknown buy orders do not grow.
BuysNothing == manual' = 0 => manual = 0 /\ (pos >= 0 => pos' <= pos) /\ strayBuy' <= strayBuy

LEMMA BuysSame == ASSUME VenueTypeOK, UNCHANGED <<pos, strayBuy, manual>> PROVE BuysNothing
BY DEF VenueTypeOK, BuysNothing

LEMMA BuysEngine ==
  ASSUME OrderInv, [Next]_vars
  PROVE  BuysNothing \/ VenueMoves \/ FinPlaceFails \/ (Crash /\ pc = "fin_place")
<1>0. VenueTypeOK /\ pos \in Int /\ strayBuy \in Nat /\ manual \in Nat /\ regs \in Registers
  BY OrderFacts, LedgerFacts
<1>1. ASSUME UNCHANGED <<pos, strayBuy, manual>> PROVE BuysNothing
  BY <1>0, <1>1, BuysSame
<1>2. ASSUME Sync \/ Global PROVE BuysNothing
  BY <1>1, <1>2 DEF Sync, SyncOrders, SyncAccount, SyncMismatch, SyncWhileRecovery, SyncOpen,
     SyncClosed, SyncWaiting, SyncReadFails, ReadFills, Global, GlobAccount, GlobOrders,
     GlobReadFails, venueVars
<1>3. ASSUME CoverFilled PROVE BuysNothing
  <2>1. PICK m \in 1..regs.pos :
           LET sold == IF m < pos THEN m ELSE pos IN SetPosition(pos - sold, due)
    BY <1>3 DEF CoverFilled
  <2>2. pos > 0 /\ pos' <= pos /\ UNCHANGED <<strayBuy, manual>>
    BY <1>0, <1>3, <2>1 DEF CoverFilled, SetPosition, Registers
  <2> QED
    BY <1>0, <2>2 DEF BuysNothing
<1>4. ASSUME Cover PROVE BuysNothing
  BY <1>1, <1>3, <1>4 DEF Cover, CoverDecide, CoverCancel, CoverPlace, CoverPlaceFails,
     bookVars, venueVars
<1>5. ASSUME Recovery PROVE BuysNothing
  BY <1>1, <1>5 DEF Recovery, RecCancel, RecOrders, RecOrdersFail, SrecEntries,
     SrecFlatOrders, SrecFlatFails, SrecFlatCancel, SrecVerify, SrecVerifyFails, venueVars, bookVars
<1>6. ASSUME Finish PROVE BuysNothing \/ FinPlaceFails
  BY <1>1, <1>6 DEF Finish, FinBlocked, FinL1Orders, FinL1Cancel, FinL1Fails,
     FinErrAccount, FinErrOrders, FinFlat, FinPlace, FinOrders, FinCancel,
     FinCancelFails, FinReadFails, venueVars, bookVars
<1>7. ASSUME Confirm PROVE BuysNothing
  BY <1>1, <1>7 DEF Confirm, ConfAccount, ConfDone, ConfAgain, ConfRefused, ConfReadFails, venueVars
<1>8. ASSUME Cancel PROVE BuysNothing
  BY <1>1, <1>8 DEF Cancel, CanAccount, CanOrders, CanCancel, CanCancelFails,
     CanErrAccount, CanErrOrders, CanReadFails, venueVars, bookVars
<1>9. ASSUME EmgClose PROVE BuysNothing
  <2>1. UNCHANGED <<strayBuy, manual>>
    BY <1>9 DEF EmgClose
  <2>2. pos >= 0 => pos' <= pos
    <3>1. CASE pos # 0 /\ \E p \in (IF pos > 0 THEN 0..(pos - 1) ELSE (pos + 1)..0) : SetPosition(p, due)
      BY <1>0, <3>1 DEF SetPosition
    <3>2. CASE pos' = pos
      BY <1>0, <3>2
    <3> QED
      BY <1>9, <3>1, <3>2 DEF EmgClose
  <2> QED
    BY <1>0, <2>1, <2>2 DEF BuysNothing
<1>10. ASSUME Emergency PROVE BuysNothing
  <2>1. ASSUME EmgRemoveOk \/ EmgRemoveFail PROVE BuysNothing
    <3>1. UNCHANGED <<pos, manual>> /\ (strayBuy' = strayBuy \/ strayBuy' \in 0..strayBuy)
      BY <2>1 DEF EmgRemoveOk, EmgRemoveFail, bookVars
    <3>2. strayBuy' <= strayBuy
      BY <1>0, <3>1
    <3> QED
      BY <1>0, <3>1, <3>2 DEF BuysNothing
  <2> QED
    BY <1>1, <1>9, <1>10, <2>1 DEF Emergency, EmgOrders, EmgCancel, EmgAccount, EmgFlat,
       EmgFlatOrders, EmgAgain, EmgReread, EmgAgainFails, EmgReadFails, venueVars
<1>11. ASSUME Create PROVE BuysNothing
  BY <1>1, <1>11 DEF Create, CrAccount, CrOrders, CrLeverage, CrRefused, CrPlace, CrPlaceFails,
     CrCount, CrFlat, CrfAccount, CrfOrders, CrReadFails, venueVars
<1>12. ASSUME StartMonitor \/ Commands \/ Restart PROVE BuysNothing
  BY <1>1, <1>12 DEF StartMonitor, Commands, StartReconcile, StartCancel, StartCreate,
     StartEmergency, Begin, Restart, venueVars
<1>13. ASSUME Crash PROVE BuysNothing \/ pc = "fin_place"
  BY <1>1, <1>13 DEF Crash, CallInFlight, LostFallback, At
<1>14. ASSUME UNCHANGED vars PROVE BuysNothing
  BY <1>1, <1>14 DEF vars, venueVars
<1> QED
  BY <1>2, <1>4, <1>5, <1>6, <1>7, <1>8, <1>10, <1>11, <1>12, <1>13, <1>14 DEF Next, Thread

\* Buys nothing and puts no entry on the book: the exposure does not grow.
NoMore == manual' = 0 => manual = 0 /\ (pos >= 0 => Exposure' <= Exposure)

LEMMA NoMoreShrunk ==
  ASSUME VenueTypeOK, VenueTypeOK', BuysNothing, Shrink PROVE NoMore
<1>1. SumOf(entry', Levels) <= SumOf(entry, Levels)
  <2>1. \A l \in Levels : entry'[l] <= entry[l]
    BY DEF Shrink
  <2>2. entry' \in [Levels -> Nat] /\ entry \in [Levels -> Nat]
    BY ExposureNext DEF VenueTypeOK
  <2> QED
    BY <2>1, <2>2, LevelsFinite, SumNoGreater
<1>2. /\ SumOf(entry', Levels) \in Nat /\ SumOf(entry, Levels) \in Nat
      /\ pos \in Int /\ pos' \in Int /\ strayBuy \in Nat /\ strayBuy' \in Nat
  BY ExposureType, ExposureNext DEF VenueTypeOK
<1> QED
  BY <1>1, <1>2, ExposureNext DEF NoMore, BuysNothing, Exposure

\* A fill moves units from the book to the position.
LEMMA NoMoreVenue ==
  ASSUME VenueTypeOK, VenueTypeOK', VenueNext PROVE NoMore
<1>0. /\ SumOf(entry', Levels) \in Nat /\ SumOf(entry, Levels) \in Nat
      /\ entry \in [Levels -> Nat] /\ entry' \in [Levels -> Nat]
      /\ pos \in Int /\ pos' \in Int /\ strayBuy \in Nat /\ strayBuy' \in Nat /\ manual \in Nat
  BY ExposureType, ExposureNext DEF VenueTypeOK
<1>1. ASSUME NEW l \in Levels, EntryFill(l) PROVE NoMore
  <2>1. /\ pos' = pos + 1 /\ entry[l] > 0 /\ entry' = [entry EXCEPT ![l] = entry[l] - 1]
        /\ UNCHANGED <<strayBuy, manual>>
    BY <1>1 DEF EntryFill, SetPosition
  <2>2. entry'[l] = entry[l] - 1 /\ \A m \in Levels : m # l => entry[m] = entry'[m]
    BY <1>0, <2>1
  <2>3. SumOf(entry', Levels) = SumOf(entry, Levels) + entry'[l] - entry[l]
    BY <1>0, <2>2, LevelsFinite, SumUpdate
  <2>4. entry[l] \in Nat
    BY <1>0
  <2>5. SumOf(entry', Levels) = SumOf(entry, Levels) - 1
    BY <1>0, <2>2, <2>3, <2>4
  <2> QED
    BY <1>0, <2>1, <2>5, ExposureNext DEF NoMore, Exposure
<1>2. CASE StrayBuyFill
  <2>1. /\ pos' = pos + 1 /\ strayBuy' = strayBuy - 1 /\ UNCHANGED <<entry, manual>>
    BY <1>2 DEF StrayBuyFill, SetPosition
  <2> QED
    BY <1>0, <2>1, ExposureNext DEF NoMore, Exposure
<1>3. CASE ByHand
  BY <1>0, <1>3 DEF ByHand, NoMore
<1>4. ASSUME pos' <= pos, UNCHANGED <<entry, strayBuy, manual>> PROVE NoMore
  BY <1>0, <1>4, ExposureNext DEF NoMore, Exposure
<1> QED
  BY <1>0, <1>1, <1>2, <1>3, <1>4 DEF VenueNext, ListTarget, TargetFill, DropReduceOnly,
     StraySellFill, ManualTrade, ManualOrder, ManualCancel, SetPosition

LEMMA NoMoreStep ==
  ASSUME OrderInv, OrderInv', [Next]_vars
  PROVE  NoMore \/ Places \/ FinPlaceFails \/ (Crash /\ pc = "fin_place")
<1>0. VenueTypeOK /\ VenueTypeOK'
  BY OrderFacts DEF OrderInv, CleanInv, TypeOK
<1>1. CASE VenueMoves
  BY <1>0, <1>1, NoMoreVenue DEF VenueMoves
<1>2. CASE BuysNothing
  BY <1>0, <1>2, OnlyPlacesGrow, NoMoreShrunk
<1> QED
  BY <1>1, <1>2, BuysEngine

\* The places at which there is room for what is about to be placed.
RoomPcs == {"cr_place", "fin_flat", "fin_place"}

LEMMA ReturnRoom ==
  ASSUME SyncReturn \/ RecoveryReturn \/ EndOp \/ SyncRaise \/ CoverDone \/ CoverRaise
  PROVE  pc' \notin RoomPcs
<1>1. pc' \in {"idle", "glob_account", "can_account"}
  BY ReturnTo DEF CoverDone, CoverRaise
<1> QED
  BY <1>1 DEF RoomPcs

\* How the engine gets to such a place.
LEMMA RoomStep ==
  ASSUME OrderInv, [Next]_vars, pc' \in RoomPcs
  PROVE  UNCHANGED <<pc, regs>> \/ CrLeverage \/ CrPlace \/ FinL1Cancel \/ FinFlat
<1> DEFINE Out == pc' \notin RoomPcs
<1>1. ASSUME NEW x, NEW p, NEW v, EnterRecovery(x, p, v) PROVE Out
  BY <1>1 DEF EnterRecovery, Goto, RoomPcs
<1>2. ASSUME Sync \/ Global PROVE Out
  BY <1>1, <1>2, ReturnRoom DEF Sync, SyncOrders, SyncAccount, SyncMismatch, SyncWhileRecovery,
     SyncOpen, SyncClosed, SyncWaiting, SyncReadFails, Global, GlobAccount, GlobOrders,
     GlobReadFails, ReadOrders, ReadAccount, Goto, FinishBranch, RoomPcs
<1>3. ASSUME Cover \/ Recovery PROVE Out
  BY <1>3, ReturnRoom DEF Cover, CoverDecide, CoverCancel, CoverPlace, CoverFilled,
     CoverPlaceFails, Recovery, RecCancel, RecOrders, RecOrdersFail, SrecEntries, SrecFlatOrders,
     SrecFlatFails, SrecFlatCancel, SrecVerify, SrecVerifyFails, ReadOrders, Goto, RoomPcs
<1>4. ASSUME Finish PROVE Out \/ FinL1Cancel \/ FinFlat
  BY <1>1, <1>4, ReturnRoom DEF Finish, FinBlocked, FinL1Orders, FinL1Fails, FinErrAccount,
     FinErrOrders, FinPlace, FinPlaceFails, FinOrders, FinCancel, FinCancelFails, FinReadFails,
     ReadOrders, ReadAccount, Goto, RoomPcs
<1>5. ASSUME Confirm \/ Cancel PROVE Out
  BY <1>1, <1>5, ReturnRoom DEF Confirm, ConfAccount, ConfDone, ConfAgain, ConfRefused,
     ConfReadFails, Cancel, CanAccount, CanOrders, CanCancel, CanCancelFails, CanErrAccount,
     CanErrOrders, CanReadFails, ReadOrders, ReadAccount, Goto, RoomPcs
<1>6. ASSUME Emergency PROVE Out
  BY <1>1, <1>6, ReturnRoom DEF Emergency, EmgOrders, EmgCancel, EmgAccount, EmgClose, EmgFlat,
     EmgFlatOrders, EmgAgain, EmgReread, EmgAgainFails, EmgReadFails, EmgRetry, EmgSucceeds,
     ReadOrders, ReadAccount, Goto, RoomPcs
<1>7. ASSUME Create PROVE Out \/ CrLeverage \/ CrPlace
  BY <1>1, <1>7, ReturnRoom DEF Create, CrAccount, CrOrders, CrRefused, CrPlaceFails, CrCount,
     CrFlat, CrfAccount, CrfOrders, CrReadFails, CreationFailure, ReadAccount, Goto, RoomPcs
<1>8. ASSUME StartMonitor \/ Commands \/ Restart \/ Crash PROVE Out
  BY <1>8 DEF StartMonitor, Commands, StartReconcile, StartCancel, StartCreate, StartEmergency,
     Begin, Restart, Crash, RoomPcs
<1>9. ASSUME VenueMoves \/ UNCHANGED vars PROVE UNCHANGED <<pc, regs>>
  BY <1>9 DEF VenueMoves, vars, control
<1> QED
  BY <1>2, <1>3, <1>4, <1>5, <1>6, <1>7, <1>8, <1>9 DEF Next, Thread

LEMMA Times ==
  /\ \A k \in Nat : k * Lot \in Nat /\ (k <= NLevels => k * Lot <= NLevels * Lot)
  /\ \A k \in Nat : (k - 1) * Lot + Lot = k * Lot
  /\ (NLevels - 1) * Lot \in Nat
<1>0. NLevels \in Nat /\ NLevels >= 1 /\ Lot \in Nat /\ Lot >= 1
  BY NLevelsAssumption, LotAssumption
<1>1. ASSUME NEW k \in Nat, k <= NLevels PROVE k * Lot <= NLevels * Lot
  <2> DEFINE d == NLevels - k
  <2>1. d \in Nat /\ NLevels = k + d
    BY <1>0, <1>1
  <2> HIDE DEF d
  <2>2. (k + d) * Lot = k * Lot + d * Lot /\ k * Lot \in Nat /\ d * Lot \in Nat
    BY <1>0, <2>1
  <2> QED
    BY <2>1, <2>2
<1>2. \A k \in Nat : k * Lot \in Nat
  BY <1>0
<1>3. ASSUME NEW k \in Nat PROVE (k - 1) * Lot + Lot = k * Lot
  BY <1>0
<1>4. (NLevels - 1) \in Nat
  BY <1>0
<1> QED
  BY <1>1, <1>2, <1>3, <1>4

\* The exposure does not grow, and the thread is where it was or where nothing is claimed.
LEMMA ExposureKept ==
  ASSUME OrderInv, OrderInv', LedgerState, ExposureState, NoMore,
         UNCHANGED <<pc, regs>> \/ pc' \notin RoomPcs \/ (pc' = "fin_flat" /\ regs'.k = 0)
  PROVE  ExposureState'
<1> SUFFICES ASSUME manual' = 0 PROVE ExposureState'
  BY DEF ExposureState
<1>1. manual = 0 /\ pos >= 0
  BY DEF NoMore, LedgerState
<1>2. Exposure \in Int /\ Exposure' \in Int /\ Exposure' <= Exposure
  <2>1. VenueTypeOK /\ VenueTypeOK'
    BY DEF OrderInv, CleanInv, TypeOK
  <2>2. Exposure \in Int
    BY <2>1, ExposureType
  <2>3. Exposure' \in Int
    BY <2>1, ExposureNext
  <2> QED
    BY <1>1, <2>2, <2>3 DEF NoMore
<1>3. NLevels * Lot \in Int /\ (NLevels - 1) * Lot \in Int /\ regs.k \in Nat
      /\ (regs.k - 1) * Lot \in Int
  <2>1. NLevels \in Nat /\ Lot \in Nat /\ regs.k \in Nat
    BY NLevelsAssumption, LotAssumption, OrderFacts
  <2> QED
    BY <2>1, Times
<1>4. Exposure' <= NLevels * Lot
  BY <1>1, <1>2, <1>3 DEF ExposureState
<1>5. CASE UNCHANGED <<pc, regs>>
  BY <1>1, <1>2, <1>3, <1>4, <1>5 DEF ExposureState
<1>6. CASE pc' \notin RoomPcs \/ (pc' = "fin_flat" /\ regs'.k = 0)
  BY <1>4, <1>6 DEF ExposureState, RoomPcs
<1> QED
  BY <1>5, <1>6

\* A new campaign starts on an empty book, flat and with no unknown buy order.
LEMMA OpenExposure ==
  ASSUME OrderInv, OrderInv', StrayState, LedgerState, ExposureState, CrLeverage
  PROVE  ExposureState'
<1> SUFFICES ASSUME manual' = 0 PROVE ExposureState'
  BY DEF ExposureState
<1>1. /\ pc = "cr_leverage" /\ pc' = "cr_place" /\ UNCHANGED <<pos, entry, strayBuy, manual>>
      /\ regs' = [regs EXCEPT !.k = 1]
  BY DEF CrLeverage, At, Goto
<1>2. pos = 0 /\ strayBuy = 0
  BY <1>1 DEF StrayState
<1>3. entry = NoEntries
  BY <1>1, OrderFacts DEF OrderControl, OrderState, OpenPcs
<1>4. SumOf(entry, Levels) = 0
  <2>1. entry \in [Levels -> Nat] /\ \A l \in Levels : entry[l] = 0
    BY <1>3, OrderFacts DEF NoEntries
  <2> QED
    BY <2>1, LevelsFinite, SumZero
<1>5. Exposure' = 0
  BY <1>1, <1>2, <1>4, ExposureNext
<1>6. regs'.k = 1
  BY <1>1, OrderFacts DEF Registers
<1>7. NLevels * Lot \in Nat /\ (1 - 1) * Lot = 0
  BY NLevelsAssumption, LotAssumption
<1> QED
  BY <1>1, <1>5, <1>6, <1>7 DEF ExposureState

\* Flat, L1 off the book, no unknown buy order: there is room for one level.
LEMMA FlatExposure ==
  ASSUME OrderInv, OrderInv', StrayState, ExposureState, NoMore, FinFlat PROVE ExposureState'
<1> SUFFICES ASSUME manual' = 0 PROVE ExposureState'
  BY DEF ExposureState
<1>1. pc = "fin_flat" /\ UNCHANGED <<pos, entry, strayBuy, manual>>
  BY DEF FinFlat, At, venueVars
<1>2. Exposure' = Exposure
  BY <1>1, ExposureNext DEF Exposure
<1>3. Exposure <= NLevels * Lot
  BY <1>1 DEF ExposureState
<1>4. CASE pos # 0
  <2>1. pc' = "fin_notflat"
    BY <1>4 DEF FinFlat, ReadAccount, Goto
  <2> QED
    BY <1>2, <1>3, <2>1 DEF ExposureState
<1>5. CASE pos = 0
  <2>1. strayBuy = 0
    BY <1>1 DEF StrayState, RearmPcs
  <2>2. /\ entry \in [Levels -> Nat] /\ entry[1] = 0 /\ Lot \in Nat /\ 1 \in Levels
        /\ \A l \in Levels : entry[l] <= Lot
    BY <1>1, OrderFacts, LotAssumption, NLevelsAssumption DEF OrderControl, OrderState, Levels
  <2>3. SumOf(entry, Levels) <= (NLevels - 1) * Lot
    BY <2>2, LevelsFinite, SumBoundedBut
  <2>4. SumOf(entry, Levels) \in Nat
    BY <2>2, LevelsFinite, SumNat
  <2>5. Exposure <= (NLevels - 1) * Lot
    BY <1>5, <2>1, <2>3, <2>4 DEF Exposure
  <2>6. pc' \in {"fin_flat", "fin_place"}
    BY <1>5 DEF FinFlat, Goto
  <2> QED
    BY <1>2, <1>3, <2>5, <2>6 DEF ExposureState
<1> QED
  BY <1>4, <1>5

\* Each level of the ladder adds one lot to what was placed before it.
LEMMA PlacedExposure ==
  ASSUME OrderInv, OrderInv', ExposureState, Places PROVE ExposureState'
<1> SUFFICES ASSUME manual' = 0 PROVE ExposureState'
  BY DEF ExposureState
<1>1. UNCHANGED <<pos, strayBuy, manual>>
  BY DEF Places, CrPlace, CrPlaceFails, FinPlace
<1>2. Exposure' <= Exposure + Lot /\ Exposure \in Int /\ Exposure' \in Int /\ Lot \in Nat
  <2>0. VenueTypeOK /\ VenueTypeOK'
    BY DEF OrderInv, CleanInv, TypeOK
  <2>1. PICK k \in Levels :
           entry[k] = 0 /\ (entry' = entry \/ entry' = [entry EXCEPT ![k] = Lot])
    BY PlacedEntry
  <2>2. /\ entry \in [Levels -> Nat] /\ entry' \in [Levels -> Nat] /\ Lot \in Nat
        /\ pos \in Int /\ strayBuy \in Nat
    BY <2>0, ExposureNext, LotAssumption DEF VenueTypeOK
  <2>3. entry'[k] <= Lot /\ entry'[k] \in Nat /\ \A l \in Levels : l # k => entry[l] = entry'[l]
    BY <2>1, <2>2
  <2>4. SumOf(entry', Levels) = SumOf(entry, Levels) + entry'[k] - entry[k]
    BY <2>2, <2>3, LevelsFinite, SumUpdate
  <2>5. SumOf(entry, Levels) \in Nat /\ SumOf(entry', Levels) \in Nat
    BY <2>0, ExposureType, ExposureNext
  <2> QED
    BY <1>1, <2>1, <2>2, <2>3, <2>4, <2>5, ExposureNext DEF Exposure
<1>3. NLevels \in Nat /\ NLevels >= 1 /\ regs.k \in Nat /\ NLevels * Lot \in Nat
  BY NLevelsAssumption, OrderFacts, Times
<1>4. CASE CrPlace \/ CrPlaceFails
  <2>1. pc = "cr_place"
    BY <1>4 DEF CrPlace, CrPlaceFails, At
  <2>2. Exposure <= (regs.k - 1) * Lot
    BY <1>1, <2>1 DEF ExposureState
  <2>3. regs.k <= NLevels
    BY <2>1, OrderFacts DEF OrderControl, Levels
  <2>4. (regs.k - 1) * Lot + Lot = regs.k * Lot /\ regs.k * Lot <= NLevels * Lot
        /\ regs.k * Lot \in Nat
    BY <1>3, <2>3, Times
  <2>5. (regs.k - 1) * Lot \in Int
    BY <1>2, <1>3
  <2>6. Exposure' <= regs.k * Lot /\ Exposure' <= NLevels * Lot
    BY <1>2, <1>3, <2>2, <2>4, <2>5
  <2>7. \/ pc' \in {"cr_count", "crf_account"}
        \/ pc' = "cr_place" /\ regs' = [regs EXCEPT !.k = regs.k + 1]
    BY <1>4 DEF CrPlace, CrPlaceFails, CreationFailure, Goto
  <2>8. pc' = "cr_place" => (regs'.k - 1) * Lot = regs.k * Lot
    BY <1>3, <2>7, OrderFacts DEF Registers
  <2>9. pc' \notin {"fin_place", "fin_flat"}
    BY <2>7
  <2> QED
    BY <2>6, <2>8, <2>9 DEF ExposureState
<1>5. CASE FinPlace
  <2>1. pc = "fin_place" /\ SyncReturn
    BY <1>5 DEF FinPlace, At
  <2>2. Exposure <= (NLevels - 1) * Lot
    BY <1>1, <2>1 DEF ExposureState
  <2>3. (NLevels - 1) * Lot + Lot = NLevels * Lot /\ (NLevels - 1) * Lot \in Nat
    BY <1>3, Times
  <2>4. Exposure' <= NLevels * Lot
    BY <1>2, <1>3, <2>2, <2>3
  <2>5. pc' \notin RoomPcs
    BY <2>1, ReturnRoom
  <2> QED
    BY <2>4, <2>5 DEF ExposureState, RoomPcs
<1> QED
  BY <1>4, <1>5 DEF Places

\* A rearm whose answer is lost may be on the book all the same.
LEMMA LostExposure ==
  ASSUME OrderInv, OrderInv', ExposureState, FinPlaceFails \/ (Crash /\ pc = "fin_place")
  PROVE  ExposureState'
<1> SUFFICES ASSUME manual' = 0 PROVE ExposureState'
  BY DEF ExposureState
<1>1. /\ pc = "fin_place" /\ UNCHANGED <<pos, entry, manual>>
      /\ strayBuy' \in {strayBuy, strayBuy + Lot}
  BY DEF FinPlaceFails, Crash, CallInFlight, Gone, At
<1>2. Exposure' <= Exposure + Lot /\ Exposure \in Int /\ Exposure' \in Int /\ Lot \in Nat
  <2>1. VenueTypeOK
    BY DEF OrderInv, CleanInv, TypeOK
  <2>2. SumOf(entry, Levels) \in Nat /\ pos \in Int /\ strayBuy \in Nat /\ Lot \in Nat
    BY <2>1, ExposureType, LotAssumption DEF VenueTypeOK
  <2> QED
    BY <1>1, <2>2, ExposureNext DEF Exposure
<1>3. Exposure <= (NLevels - 1) * Lot
  BY <1>1 DEF ExposureState
<1>4. (NLevels - 1) * Lot + Lot = NLevels * Lot /\ (NLevels - 1) * Lot \in Nat
  BY NLevelsAssumption, Times
<1>5. Exposure' <= NLevels * Lot
  BY <1>2, <1>3, <1>4
<1>6. pc' \notin RoomPcs
  BY ReturnRoom DEF FinPlaceFails, Crash, RoomPcs
<1> QED
  BY <1>5, <1>6 DEF ExposureState, RoomPcs

LEMMA ExposureInit == Init => ExposureInv
<1> SUFFICES ASSUME Init PROVE ExposureInv
  OBVIOUS
<1>1. LedgerInv
  BY LedgerInit
<1>2. pos = 0 /\ entry = NoEntries /\ strayBuy = 0 /\ pc = "down"
  BY DEF Init, VenueInit
<1>3. SumOf(entry, Levels) = 0
  <2>1. entry \in [Levels -> Nat] /\ \A l \in Levels : entry[l] = 0
    BY <1>2 DEF NoEntries
  <2> QED
    BY <2>1, LevelsFinite, SumZero
<1>4. Exposure <= NLevels * Lot
  BY <1>2, <1>3, NLevelsAssumption, LotAssumption DEF Exposure
<1> QED
  BY <1>1, <1>2, <1>4 DEF ExposureInv, ExposureState

LEMMA ExposureStep == ExposureInv /\ [Next]_vars => ExposureInv'
<1> SUFFICES ASSUME ExposureInv, [Next]_vars PROVE ExposureInv'
  OBVIOUS
<1>1. LedgerInv /\ LedgerInv' /\ ExposureState
  BY LedgerStep DEF ExposureInv
<1>2. OrderInv /\ OrderInv' /\ StrayState /\ LedgerState
  BY <1>1 DEF LedgerInv
<1>3. CASE Places \/ FinPlaceFails \/ (Crash /\ pc = "fin_place")
  BY <1>1, <1>2, <1>3, PlacedExposure, LostExposure DEF ExposureInv
<1>4. CASE CrLeverage
  BY <1>1, <1>2, <1>4, OpenExposure DEF ExposureInv
<1>5. CASE NoMore /\ FinFlat
  BY <1>1, <1>2, <1>5, FlatExposure DEF ExposureInv
<1>6. CASE NoMore /\ ~FinFlat /\ ~CrLeverage /\ ~Places
  <2>1. UNCHANGED <<pc, regs>> \/ pc' \notin RoomPcs \/ FinL1Cancel
    BY <1>2, <1>6, RoomStep DEF Places
  <2>2. FinL1Cancel => pc' = "fin_flat" /\ regs'.k = 0
    BY DEF FinL1Cancel, Goto, NoRegisters
  <2> QED
    BY <1>1, <1>2, <1>6, <2>1, <2>2, ExposureKept DEF ExposureInv
<1> QED
  BY <1>2, <1>3, <1>4, <1>5, <1>6, NoMoreStep

\* Without trades by hand the venue can never fill the engine beyond one ladder, whatever
\* answers are lost and wherever the process dies.
THEOREM OneLadderAtMost == Spec => []ExposureBounded
<1>1. ExposureInv => ExposureBounded
  BY DEF ExposureInv, ExposureState, ExposureBounded, Exposure, SumOf
<1> QED
  BY ExposureInit, ExposureStep, <1>1, PTL DEF Spec

==============================================================================
