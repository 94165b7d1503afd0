------------------------------ MODULE LiveEngine ------------------------------
(***************************************************************************)
(* live/engine.py: the LIVE campaign engine.  One thread at a time holds   *)
(* action_lock, so the engine is one process; but the venue may move and   *)
(* the process may die between any two gateway calls.  Every action below  *)
(* therefore makes at most one gateway call, followed by the local work    *)
(* the code does before the next one.                                      *)
(*                                                                         *)
(*   pc    the gateway call the thread is about to make                    *)
(*   op    the operation it belongs to ("canceling": cancel_waiting_       *)
(*         campaign once its first _sync_campaign has returned)            *)
(*   regs  the local variables that survive from one call to the next      *)
(*   c     the campaign in memory; safe is system.safeMode                 *)
(*   disk  what _save_locked last wrote                                    *)
(*   unsaved  fills applied in memory since the last save                  *)
(*                                                                         *)
(* Simplifications.  One coin; LIVE enabled; the size tolerance is below   *)
(* one unit, so comparisons are exact.  A trading call takes effect before *)
(* it returns or raises, or never.  Every fill is read once and known by   *)
(* its order: how _fill_key, seenFills and the overlap of the cursor see   *)
(* to it, and a failed order_status (915-919), are left out, as are        *)
(* prices, fees and PnL.                                                   *)
(***************************************************************************)
EXTENDS Venue, FiniteSetsExt

CONSTANTS
  CancelReads,     \* clean reads before "canceled"          (4 in the code)
  FinishReads,     \* clean reads before "completed"         (3)
  RecoveryReads,   \* clean syncs before "recovery_closed"   (3)
  CloseTries,      \* market-close attempts of an emergency  (3)
  EmergencyTries,  \* confirmation rounds of an emergency    (8)
  MaxFaults        \* bound: failed calls and crashes

ASSUME ReadsAssumption ==
  /\ CancelReads \in Nat \ {0}
  /\ FinishReads \in Nat \ {0}
  /\ RecoveryReads \in Nat \ {0, 1}
ASSUME TriesAssumption == CloseTries \in Nat \ {0} /\ EmergencyTries \in Nat \ {0}
ASSUME MaxFaultsAssumption == MaxFaults \in Nat

VARIABLES c, safe, disk, unsaved, pc, op, regs, faults

engineVars == <<c, safe, disk, unsaved>>
control    == <<pc, op, regs>>
vars       == <<venueVars, engineVars, control, faults>>

ActiveStatuses == {"placing", "waiting", "open", "closing", "canceling",
                   "emergency", "recovery"}
ClosedStatuses == {"canceled", "completed", "recovery_closed"}
Statuses       == ActiveStatuses \cup ClosedStatuses \cup {"none", "emergency_closed"}

Campaigns == [status : Statuses, managed : Nat, had : BOOLEAN,
              deepest : TargetLevels, blocked : BOOLEAN, zero : Nat]

NoCampaign == [status |-> "none", managed |-> 0, had |-> FALSE,
               deepest |-> 0, blocked |-> FALSE, zero |-> 0]

\* An open_orders answer: sizes of the owned rows, and whether there are others.
Views  == [entry : [Levels -> Nat], target : [TargetLevels -> Nat], stray : BOOLEAN]
NoView == [entry |-> NoEntries, target |-> NoTargets, stray |-> FALSE]

Registers   == [pos : Int, view : Views, k : Nat, tries : Nat, risk : BOOLEAN]
NoRegisters == [pos |-> 0, view |-> NoView, k |-> 0, tries |-> 0, risk |-> FALSE]

SyncOps == {"monitor", "startup", "reconcile", "cancel"}
Ops     == SyncOps \cup {"none", "canceling", "emergency", "create"}

SyncPcs     == {"sync_orders", "sync_account", "sync_fills"}
CoverPcs    == {"cover", "cover_cancel", "cover_place"}
RecoveryPcs == {"rec_cancel", "rec_orders", "srec_entries", "srec_orders",
                "srec_flat_orders", "srec_flat_cancel", "srec_verify"}
FinishPcs   == {"fin_blocked", "fin_l1_orders", "fin_l1_cancel", "fin_err_account",
                "fin_err_orders", "fin_flat", "fin_notflat", "fin_place",
                "fin_orders", "fin_cancel"}
ConfirmPcs  == {"conf_account", "conf_orders"}
CancelPcs   == {"can_account", "can_orders", "can_cancel", "can_err_account",
                "can_err_orders"}
EmergencyPcs == {"emg_orders", "emg_cancel", "emg_account", "emg_close",
                 "emg_flat", "emg_flat_orders", "emg_again", "emg_reread"}
GlobalPcs   == {"glob_account", "glob_orders"}
CreatePcs   == {"cr_account", "cr_orders", "cr_leverage", "cr_place", "cr_count",
                "cr_flat", "crf_account", "crf_orders"}
Pcs == {"idle", "down"} \cup SyncPcs \cup CoverPcs \cup RecoveryPcs \cup FinishPcs
         \cup ConfirmPcs \cup CancelPcs \cup EmergencyPcs \cup GlobalPcs \cup CreatePcs

EngineTypeOK ==
  /\ c \in Campaigns /\ safe \in BOOLEAN
  /\ disk \in [c : Campaigns, safe : BOOLEAN]
  /\ unsaved \in Fills

ControlTypeOK == pc \in Pcs /\ op \in Ops /\ regs \in Registers

TypeOK == VenueTypeOK /\ EngineTypeOK /\ ControlTypeOK /\ faults \in Nat

Init ==
  /\ VenueInit
  /\ c = NoCampaign /\ safe = FALSE
  /\ disk = [c |-> NoCampaign, safe |-> FALSE]
  /\ unsaved = NoFills
  /\ pc = "down" /\ op = "none" /\ regs = NoRegisters
  /\ faults = 0

------------------------------------------------------------------------------
(* Helpers                                                                  *)

Active   == c.status \in ActiveStatuses
InRecovery == c.status = "recovery"

View == [entry |-> entry, target |-> target, stray |-> strayBuy + straySell > 0]
Owned(v) == OpenEntries(v.entry) # {} \/ OpenTargets(v.target) # {}

At(p)   == pc = p
Goto(p) == pc' = p /\ UNCHANGED op
Keep    == regs' = regs
Fault   == faults < MaxFaults /\ faults' = faults + 1
NoFault == UNCHANGED faults

\* _save_locked: the whole in-memory state, campaign and safeMode, goes to disk.
Save(campaign, mode) ==
  /\ c' = campaign /\ safe' = mode
  /\ disk' = [c |-> campaign, safe |-> mode]
  /\ unsaved' = NoFills

\* The operation returns, or raises to its caller, and releases action_lock.
EndOp == pc' = "idle" /\ op' = "none" /\ regs' = NoRegisters

ReadAccount(p) == Goto(p) /\ regs' = [regs EXCEPT !.pos = pos]
ReadOrders(p)  == Goto(p) /\ regs' = [regs EXCEPT !.view = View]

\* After _sync_campaign: the callers go on to compare the whole account; the monitor
\* only when its global check is due.
SyncReturn ==
  \/ /\ op = "monitor" /\ EndOp
  \/ /\ op \in {"monitor", "startup", "reconcile"}
     /\ Goto("glob_account") /\ regs' = [NoRegisters EXCEPT !.risk = regs.risk]
  \/ /\ op = "cancel" /\ c'.status \in ActiveStatuses
     /\ pc' = "can_account" /\ op' = "canceling" /\ regs' = NoRegisters
  \/ /\ op = "cancel" /\ c'.status \notin ActiveStatuses /\ EndOp

\* _sync_campaign raises: monitor, startup and reconcile turn SAFE MODE on and save;
\* cancel_waiting_campaign lets the exception through.
SyncRaise ==
  \/ /\ op \in SyncOps \ {"cancel"}
     /\ Save(c, TRUE)
     /\ \/ op = "monitor" /\ EndOp
        \/ /\ Goto("glob_account")
           /\ regs' = [NoRegisters EXCEPT !.risk = (op = "reconcile")]
  \/ /\ op = "cancel" /\ EndOp /\ UNCHANGED engineVars

\* Mutant: the automatic rearm is not blocked.
EnterRecoveryUnblocked(campaign, p, v) ==
  /\ Save([campaign EXCEPT !.status = "recovery", !.zero = 0], TRUE)
  /\ Goto("rec_cancel")
  /\ regs' = [regs EXCEPT !.pos = p, !.view = v]

\* _enter_recovery, up to its first gateway call.
EnterRecovery(campaign, p, v) ==
  /\ Save([campaign EXCEPT !.status = "recovery", !.blocked = TRUE, !.zero = 0], TRUE)
  /\ Goto("rec_cancel")
  /\ regs' = [regs EXCEPT !.pos = p, !.view = v]

\* Where _enter_recovery and _sync_recovery go once they are done.
RecoveryReturn == IF op \in SyncOps THEN SyncReturn ELSE EndOp

(* _cancel_specific_and_verify on the rows of view v, kinds es and ts.  It  *)
(* succeeds when none of them is open after the request, by it or because   *)
(* they had filled; otherwise any part of them may be gone.                 *)
Gone(es, ts) ==
  /\ entry'  = [l \in Levels |-> IF l \in es THEN 0 ELSE entry[l]]
  /\ target' = [l \in TargetLevels |-> IF l \in ts THEN 0 ELSE target[l]]

CancelOk(es, ts)   == Gone(es, ts) /\ NoFault
CancelFail(es, ts) ==
  /\ Fault
  /\ es \cup ts # {}
  /\ \E e \in SUBSET es, t \in SUBSET ts : Gone(e, t)

Entries == OpenEntries(regs.view.entry)
Targets == OpenTargets(regs.view.target)

bookVars == <<pos, due, strayBuy, straySell, unseen, manual>>

------------------------------------------------------------------------------
(* _sync_campaign: open orders, then the account, then the fills            *)

SyncOrders ==
  /\ At("sync_orders") /\ ReadOrders("sync_account")
  /\ UNCHANGED <<venueVars, engineVars, faults>>

SyncAccount ==
  /\ At("sync_account") /\ ReadAccount("sync_fills")
  /\ UNCHANGED <<venueVars, engineVars, faults>>

\* Mutant: sells beyond the managed size are not cut off at zero.
AppliedBelowZero ==
  [c EXCEPT !.managed = @ + unseen.bought - unseen.sold,
            !.had     = @ \/ unseen.bought > 0,
            !.deepest = Deeper(@, unseen.deepest),
            !.blocked = @ \/ unseen.foreign]

\* _apply_new_fills: every fill once; one that is not owned blocks the L1 rearm.
Applied ==
  LET net == c.managed + unseen.bought - unseen.sold
  IN [c EXCEPT !.managed = IF net > 0 THEN net ELSE 0,
               !.had     = @ \/ unseen.bought > 0,
               !.deepest = Deeper(@, unseen.deepest),
               !.blocked = @ \/ unseen.foreign]

\* Mutant: the fills are applied but not marked as seen.
ReadFillsUnmarked == UNCHANGED <<unseen, pos, entry, target, due, strayBuy, straySell, manual, faults>>

\* The fills are read: they are seen now, on disk only with the next save.
ReadFills ==
  /\ unseen' = NoFills
  /\ UNCHANGED <<pos, entry, target, due, strayBuy, straySell, manual, faults>>

\* Mutant: the seen marks reach the disk before the campaign they changed.
FillsMarkedOnDisk == UNCHANGED <<safe, disk, unsaved>>

FillsInMemory == unsaved' = Merge(unsaved, unseen) /\ UNCHANGED <<safe, disk>>

\* Mutant: orders the engine does not recognise are left alone.
UnexplainedPosition == regs.pos < 0 \/ regs.pos # Applied.managed

Unexplained == \/ regs.view.stray
               \/ regs.pos < 0
               \/ regs.pos # Applied.managed

SyncMismatch ==
  /\ At("sync_fills") /\ ReadFills
  /\ ~InRecovery /\ Unexplained
  /\ EnterRecovery(Applied, regs.pos, regs.view)

SyncWhileRecovery ==
  /\ At("sync_fills") /\ ReadFills
  /\ InRecovery
  /\ c' = Applied /\ FillsInMemory
  /\ Goto("srec_entries") /\ Keep

SyncOpen ==
  /\ At("sync_fills") /\ ReadFills
  /\ ~InRecovery /\ ~Unexplained /\ regs.pos > 0
  /\ c' = [Applied EXCEPT !.had = TRUE, !.status = "open"]
  /\ FillsInMemory
  /\ Goto("cover") /\ Keep

\* Mutant: a blocked campaign is rearmed like any other.
FinishBranchUnblocked(campaign) ==
  IF campaign.deepest = 0 THEN "fin_blocked"
  ELSE IF campaign.deepest = 1 THEN "fin_l1_orders"
  ELSE "fin_orders"

\* _finish_cycle chooses its branch before its first call.
FinishBranch(campaign) ==
  IF campaign.blocked \/ campaign.deepest = 0 THEN "fin_blocked"
  ELSE IF campaign.deepest = 1 THEN "fin_l1_orders"
  ELSE "fin_orders"

\* The position is gone.
SyncClosed ==
  /\ At("sync_fills") /\ ReadFills
  /\ ~InRecovery /\ ~Unexplained /\ regs.pos = 0 /\ Applied.had
  /\ c' = Applied /\ FillsInMemory
  /\ Goto(FinishBranch(Applied))
  /\ regs' = NoRegisters

SyncWaiting ==
  /\ At("sync_fills") /\ ReadFills
  /\ ~InRecovery /\ ~Unexplained /\ regs.pos = 0 /\ ~Applied.had
  /\ Save(Applied, safe)
  /\ SyncReturn

SyncReadFails ==
  /\ pc \in SyncPcs /\ Fault /\ SyncRaise
  /\ UNCHANGED venueVars

Sync == \/ SyncOrders \/ SyncAccount \/ SyncMismatch \/ SyncWhileRecovery
        \/ SyncOpen \/ SyncClosed \/ SyncWaiting \/ SyncReadFails

------------------------------------------------------------------------------
(* _ensure_target_coverage of regs.pos units, given the orders regs.view    *)

NativeProtected(v) == MapThenSumSet(LAMBDA l : v.target[l], Levels)

\* Coverage is complete: the caller is _sync_campaign (the campaign is then "closing"),
\* or _enter_recovery / _sync_recovery, which save and return.
CoverDone ==
  /\ Save(IF InRecovery THEN c ELSE [c EXCEPT !.status = "closing"], safe)
  /\ IF InRecovery THEN RecoveryReturn ELSE SyncReturn

\* Coverage raises: recovery swallows it, _sync_campaign does not.
CoverRaise ==
  IF InRecovery THEN Save(c, safe) /\ RecoveryReturn ELSE SyncRaise

\* Units the native targets of the view leave uncovered; the fallback must have that size.
Missing(m) == m + NativeProtected(regs.view) = regs.pos

CoverDecide ==
  /\ At("cover")
  /\ \/ /\ NativeProtected(regs.view) >= regs.pos
        /\ IF regs.view.target[Fallback] > 0
             THEN Goto("cover_cancel") /\ Keep /\ UNCHANGED engineVars
             ELSE CoverDone
     \/ /\ NativeProtected(regs.view) < regs.pos
        /\ IF Missing(regs.view.target[Fallback])
             THEN CoverDone
             ELSE Goto("cover_place") /\ Keep /\ UNCHANGED engineVars
  /\ UNCHANGED <<venueVars, faults>>

\* The native targets suffice: the fallback goes.
CoverCancel ==
  /\ At("cover_cancel")
  /\ UNCHANGED bookVars
  /\ \/ CancelOk({}, {Fallback}) /\ CoverDone
     \/ CancelFail({}, {Fallback}) /\ CoverRaise

\* A new fallback, or the open one changed to the missing size; the cloid of a new one
\* is recorded only once the call has returned.
Existing == regs.view.target[Fallback] > 0

CoverPlace ==
  /\ At("cover_place")
  /\ pos > 0 /\ (Existing => target[Fallback] > 0)
  /\ \E m \in 1..regs.pos : Missing(m) /\ target' = [target EXCEPT ![Fallback] = m]
  /\ CoverDone
  /\ UNCHANGED <<pos, entry, due, strayBuy, straySell, unseen, manual, faults>>

\* The price is at GALKA: the fallback fills at once.  A new one is not filed as owned
\* then, so its fill is one the engine does not recognise, unless its cloid is an earlier one's.
CoverFilled ==
  /\ At("cover_place")
  /\ pos > 0 /\ (Existing => target[Fallback] > 0)
  /\ target' = [target EXCEPT ![Fallback] = 0]
  /\ \E m \in 1..regs.pos :
        /\ Missing(m)
        /\ LET sold == IF m < pos THEN m ELSE pos
           IN /\ SetPosition(pos - sold, due)
              /\ \/ unseen' = [unseen EXCEPT !.sold = @ + sold]
                 \/ ~Existing /\ Foreign
  /\ CoverDone
  /\ UNCHANGED <<entry, strayBuy, straySell, manual, faults>>

\* The venue accepts the fallback but the engine never learns it: a new one is on no map,
\* unless it has the cloid of an earlier one.
LostFallback ==
  /\ pos > 0 /\ (Existing => target[Fallback] > 0)
  /\ \E m \in 1..regs.pos :
        /\ Missing(m)
        /\ IF Existing THEN target' = [target EXCEPT ![Fallback] = m] /\ UNCHANGED straySell
           ELSE \/ straySell' = straySell + m /\ UNCHANGED target
                \/ target' = [target EXCEPT ![Fallback] = @ + m] /\ UNCHANGED straySell

\* Rejected because the venue has moved (nothing to reduce, or no order to change), or
\* by a failure; or accepted although the answer is lost.
CoverPlaceFails ==
  /\ At("cover_place")
  /\ \/ /\ pos <= 0 \/ (Existing /\ target[Fallback] = 0)
        /\ UNCHANGED <<target, straySell>> /\ NoFault
     \/ Fault /\ UNCHANGED <<target, straySell>>
     \/ Fault /\ LostFallback
  /\ CoverRaise
  /\ UNCHANGED <<pos, entry, due, strayBuy, unseen, manual>>

Cover == CoverDecide \/ CoverCancel \/ CoverPlace \/ CoverFilled \/ CoverPlaceFails

------------------------------------------------------------------------------
(* _enter_recovery after its save, and _sync_recovery                       *)

\* Owned entries of the caller's view are cancelled; an error is only recorded.
RecCancel ==
  /\ At("rec_cancel")
  /\ CancelOk(Entries, {}) \/ CancelFail(Entries, {})
  /\ UNCHANGED bookVars
  /\ IF regs.pos > 0
       THEN Goto("rec_orders") /\ Keep /\ UNCHANGED engineVars
       ELSE Save(c, safe) /\ RecoveryReturn

RecOrders ==
  /\ pc \in {"rec_orders", "srec_orders"} /\ ReadOrders("cover")
  /\ UNCHANGED <<venueVars, engineVars, faults>>

RecOrdersFail ==
  /\ pc \in {"rec_orders", "srec_orders"} /\ Fault
  /\ Save(c, safe) /\ RecoveryReturn
  /\ UNCHANGED venueVars

\* Mutant: recovery cancels the entries of an open position and leaves it uncovered.
SrecEntriesUncovered ==
  /\ At("srec_entries")
  /\ CancelOk(Entries, {}) \/ CancelFail(Entries, {})
  /\ UNCHANGED bookVars
  /\ \/ regs.pos # 0 /\ Save(c, safe) /\ SyncReturn
     \/ regs.pos = 0 /\ Goto("srec_flat_orders") /\ Keep /\ UNCHANGED engineVars

SrecEntries ==
  /\ At("srec_entries")
  /\ CancelOk(Entries, {}) \/ CancelFail(Entries, {})
  /\ UNCHANGED bookVars
  /\ \/ /\ regs.pos > 0                 \* still open: protect it
        /\ c' = [c EXCEPT !.zero = 0] /\ UNCHANGED <<safe, disk, unsaved>>
        /\ Goto("srec_orders") /\ Keep
     \/ /\ regs.pos < 0                 \* a short is left to the user
        /\ Save(c, safe) /\ SyncReturn
     \/ /\ regs.pos = 0
        /\ Goto("srec_flat_orders") /\ Keep /\ UNCHANGED engineVars

SrecFlatOrders ==
  /\ At("srec_flat_orders") /\ ReadOrders("srec_flat_cancel")
  /\ UNCHANGED <<venueVars, engineVars, faults>>

\* The final cancel, or the read before it, fails: the count starts again.
SrecFlatFails ==
  /\ \/ At("srec_flat_orders") /\ Fault /\ UNCHANGED <<entry, target>>
     \/ At("srec_flat_cancel") /\ CancelFail(Entries, Targets)
  /\ UNCHANGED bookVars
  /\ Save([c EXCEPT !.zero = 0], safe) /\ SyncReturn

SrecFlatCancel ==
  /\ At("srec_flat_cancel")
  /\ CancelOk(Entries, Targets) /\ UNCHANGED bookVars
  /\ Goto("srec_verify") /\ Keep /\ UNCHANGED engineVars

\* Mutant: one clean sync is enough.
CountedOnce ==
  IF Owned(View) THEN [c EXCEPT !.zero = 0]
  ELSE [c EXCEPT !.zero = @ + 1, !.status = "recovery_closed", !.managed = 0]

\* Mutant: the count of clean syncs never gets past one.
CountedStuck == [c EXCEPT !.zero = IF Owned(View) THEN 0 ELSE 1]

\* Nothing owned is left: one more clean sync; enough of them close the campaign.
Counted ==
  LET zero == IF Owned(View) THEN 0 ELSE c.zero + 1
  IN IF zero >= RecoveryReads
       THEN [c EXCEPT !.zero = zero, !.status = "recovery_closed", !.managed = 0]
       ELSE [c EXCEPT !.zero = zero]

SrecVerify ==
  /\ At("srec_verify")
  /\ Save(Counted, safe) /\ SyncReturn
  /\ UNCHANGED <<venueVars, faults>>

SrecVerifyFails ==
  /\ At("srec_verify") /\ Fault /\ SyncRaise
  /\ UNCHANGED venueVars

Recovery == \/ RecCancel \/ RecOrders \/ RecOrdersFail \/ SrecEntries \/ SrecFlatOrders
            \/ SrecFlatFails \/ SrecFlatCancel \/ SrecVerify \/ SrecVerifyFails

------------------------------------------------------------------------------
(* _finish_cycle                                                            *)

\* A cycle closed without a proven owned TP: no rearm.
FinBlocked ==
  /\ At("fin_blocked")
  /\ EnterRecovery(c, 0, View)
  /\ UNCHANGED <<venueVars, faults>>

\* L1 only: clear the old L1 pair, read flat twice, place the new pair.
FinL1Orders ==
  /\ At("fin_l1_orders") /\ ReadOrders("fin_l1_cancel")
  /\ UNCHANGED <<venueVars, engineVars, faults>>

\* Mutant: only the old TP is cancelled, not the rest of the old entry.
FinL1CancelTargets ==
  /\ At("fin_l1_cancel")
  /\ CancelOk({}, Targets \cap {1})
  /\ UNCHANGED <<bookVars, engineVars>>
  /\ Goto("fin_flat") /\ regs' = NoRegisters

FinL1Cancel ==
  /\ At("fin_l1_cancel")
  /\ CancelOk(Entries \cap {1}, Targets \cap {1})
  /\ UNCHANGED <<bookVars, engineVars>>
  /\ Goto("fin_flat") /\ regs' = NoRegisters

FinL1Fails ==
  /\ \/ At("fin_l1_orders") /\ Fault /\ UNCHANGED <<entry, target>>
     \/ At("fin_l1_cancel") /\ CancelFail(Entries \cap {1}, Targets \cap {1})
  /\ UNCHANGED <<bookVars, engineVars>>
  /\ Goto("fin_err_account") /\ regs' = NoRegisters

FinErrAccount ==
  /\ At("fin_err_account") /\ ReadAccount("fin_err_orders")
  /\ UNCHANGED <<venueVars, engineVars, faults>>

FinErrOrders ==
  /\ pc \in {"fin_err_orders", "fin_notflat"}
  /\ EnterRecovery(c, regs.pos, View)
  /\ UNCHANGED <<venueVars, faults>>

FlatReads == 2

FinFlat ==
  /\ At("fin_flat")
  /\ IF pos # 0 THEN ReadAccount("fin_notflat")
     ELSE /\ Goto(IF regs.k + 1 < FlatReads THEN "fin_flat" ELSE "fin_place")
          /\ regs' = [regs EXCEPT !.k = @ + 1]
  /\ UNCHANGED <<venueVars, engineVars, faults>>

Rearmed == [c EXCEPT !.status = "waiting", !.managed = 0, !.had = FALSE, !.deepest = 0]

FinPlace ==
  /\ At("fin_place")
  /\ entry' = [entry EXCEPT ![1] = @ + Lot]
  /\ Save(Rearmed, safe) /\ SyncReturn
  /\ UNCHANGED <<pos, target, due, strayBuy, straySell, unseen, manual, faults>>

\* Rejected, or accepted although the answer is lost: the cloids are then on no map.
FinPlaceFails ==
  /\ At("fin_place") /\ Fault
  /\ strayBuy' \in {strayBuy, strayBuy + Lot}
  /\ SyncRaise
  /\ UNCHANGED <<pos, entry, target, due, straySell, unseen, manual>>

\* L2 or deeper: cancel everything owned, then confirm.
FinOrders ==
  /\ At("fin_orders") /\ ReadOrders("fin_cancel")
  /\ UNCHANGED <<venueVars, engineVars, faults>>

FinCancel ==
  /\ At("fin_cancel")
  /\ CancelOk(Entries, Targets) /\ UNCHANGED <<bookVars, engineVars>>
  /\ Goto("conf_account") /\ regs' = NoRegisters

FinCancelFails ==
  /\ At("fin_cancel")
  /\ CancelFail(Entries, Targets) /\ UNCHANGED bookVars
  /\ SyncRaise

FinReadFails ==
  /\ pc \in {"fin_blocked", "fin_err_account", "fin_err_orders", "fin_flat",
             "fin_notflat", "fin_orders"}
  /\ Fault /\ SyncRaise
  /\ UNCHANGED venueVars

Finish == \/ FinBlocked \/ FinL1Orders \/ FinL1Cancel \/ FinL1Fails \/ FinErrAccount
          \/ FinErrOrders \/ FinFlat \/ FinPlace \/ FinPlaceFails \/ FinOrders
          \/ FinCancel \/ FinCancelFails \/ FinReadFails

------------------------------------------------------------------------------
(* _confirm_flat_and_clean: for "canceled" and for "completed"              *)

ReadsNeeded == IF op = "canceling" THEN CancelReads ELSE FinishReads

\* Status of the campaign once flat and clean; a completed cycle holds nothing.
Confirmed ==
  IF op = "canceling" THEN [c EXCEPT !.status = "canceled"]
  ELSE [c EXCEPT !.status = "completed", !.had = FALSE, !.managed = 0]

ConfAccount ==
  /\ At("conf_account") /\ ReadAccount("conf_orders")
  /\ UNCHANGED <<venueVars, engineVars, faults>>

CleanRead == regs.pos = 0 /\ ~Owned(View)

Enough    == CleanRead /\ regs.k + 1 >= ReadsNeeded
LastTry   == regs.tries + 1 >= ReadsNeeded + 2

ConfDone ==
  /\ At("conf_orders") /\ Enough
  /\ Save(Confirmed, safe)
  /\ IF op = "canceling" THEN EndOp ELSE SyncReturn
  /\ UNCHANGED <<venueVars, faults>>

\* A read that is not clean starts the count again.
ConfAgain ==
  /\ At("conf_orders") /\ ~Enough
  /\ regs.pos = 0 /\ ~LastTry
  /\ Goto("conf_account")
  /\ regs' = [regs EXCEPT !.k = IF CleanRead THEN @ + 1 ELSE 0, !.tries = @ + 1]
  /\ UNCHANGED <<venueVars, engineVars, faults>>

\* A position, or no clean streak in the allowed reads.
ConfRefused ==
  /\ At("conf_orders") /\ ~Enough
  /\ regs.pos # 0 \/ LastTry
  /\ EnterRecovery(c, regs.pos, View)
  /\ UNCHANGED <<venueVars, faults>>

ConfReadFails ==
  /\ pc \in ConfirmPcs /\ Fault
  /\ IF op = "canceling" THEN Goto("can_err_account") /\ Keep /\ UNCHANGED engineVars
                         ELSE SyncRaise
  /\ UNCHANGED venueVars

Confirm == ConfAccount \/ ConfDone \/ ConfAgain \/ ConfRefused \/ ConfReadFails

------------------------------------------------------------------------------
(* cancel_waiting_campaign, after its _sync_campaign                        *)

CanAccount ==
  /\ At("can_account") /\ ReadAccount("can_orders")
  /\ UNCHANGED <<venueVars, engineVars, faults>>

CanOrders ==
  /\ At("can_orders")
  /\ IF regs.pos # 0 THEN EnterRecovery(c, regs.pos, View)
     ELSE IF InRecovery THEN EndOp /\ UNCHANGED engineVars
     ELSE /\ Save([c EXCEPT !.status = "canceling"], safe)
          /\ ReadOrders("can_cancel")
  /\ UNCHANGED <<venueVars, faults>>

CanCancel ==
  /\ At("can_cancel")
  /\ CancelOk(Entries, Targets) /\ UNCHANGED <<bookVars, engineVars>>
  /\ Goto("conf_account") /\ regs' = NoRegisters

CanCancelFails ==
  /\ At("can_cancel")
  /\ CancelFail(Entries, Targets) /\ UNCHANGED <<bookVars, engineVars>>
  /\ Goto("can_err_account") /\ Keep

CanErrAccount ==
  /\ At("can_err_account") /\ ReadAccount("can_err_orders")
  /\ UNCHANGED <<venueVars, engineVars, faults>>

CanErrOrders ==
  /\ At("can_err_orders")
  /\ EnterRecovery(c, regs.pos, View)
  /\ UNCHANGED <<venueVars, faults>>

CanReadFails ==
  /\ pc \in {"can_account", "can_orders", "can_err_account", "can_err_orders"}
  /\ Fault /\ EndOp
  /\ UNCHANGED <<venueVars, engineVars>>

Cancel == \/ CanAccount \/ CanOrders \/ CanCancel \/ CanCancelFails
          \/ CanErrAccount \/ CanErrOrders \/ CanReadFails

------------------------------------------------------------------------------
(* emergency_close; without an active campaign it clears the coin           *)

\* Rows of a view the emergency has to remove.
Remaining(v) == Owned(v) \/ (~Active /\ v.stray)

EmgOrders ==
  /\ At("emg_orders") /\ ReadOrders("emg_cancel")
  /\ UNCHANGED <<venueVars, engineVars, faults>>

EmgRemoveOk ==
  /\ CancelOk(Entries, Targets)
  /\ IF ~Active /\ regs.view.stray THEN strayBuy' \in 0..strayBuy /\ straySell' \in 0..straySell
                                   ELSE UNCHANGED <<strayBuy, straySell>>
  /\ UNCHANGED <<pos, due, unseen, manual>>

EmgRemoveFail ==
  /\ \/ CancelFail(Entries, Targets)
     \/ ~Active /\ regs.view.stray /\ Fault /\ UNCHANGED <<entry, target>>
  /\ UNCHANGED bookVars

EmgCancel ==
  /\ At("emg_cancel")
  /\ EmgRemoveOk \/ EmgRemoveFail
  /\ Goto("emg_account") /\ regs' = NoRegisters
  /\ UNCHANGED engineVars

EmgAccount ==
  /\ At("emg_account")
  /\ Goto(IF pos = 0 THEN "emg_flat" ELSE "emg_close") /\ Keep
  /\ UNCHANGED <<venueVars, engineVars, faults>>

\* A market order against the position; it may fill in part, fail, or find nothing.
EmgClose ==
  /\ At("emg_close")
  /\ \/ /\ pos # 0 /\ NoFault
        /\ \E p \in (IF pos > 0 THEN 0..(pos - 1) ELSE (pos + 1)..0) : SetPosition(p, due)
        /\ Foreign
     \/ /\ pos = 0 /\ NoFault /\ UNCHANGED <<pos, due, unseen>>
     \/ /\ Fault /\ UNCHANGED <<pos, due, unseen>>
  /\ IF regs.k + 1 < CloseTries
       THEN Goto("emg_account") /\ regs' = [regs EXCEPT !.k = @ + 1]
       ELSE Goto("emg_flat") /\ regs' = NoRegisters
  /\ UNCHANGED <<entry, target, strayBuy, straySell, manual, engineVars>>

EmgFlat ==
  /\ At("emg_flat") /\ ReadAccount("emg_flat_orders")
  /\ UNCHANGED <<venueVars, engineVars, faults>>

EmgSucceeds ==
  /\ Save(IF Active THEN [c EXCEPT !.status = "emergency_closed", !.managed = 0] ELSE c, TRUE)
  /\ EndOp

\* Another round, or the close is declared unconfirmed.
EmgRetry(v) ==
  IF regs.tries + 1 < EmergencyTries
    THEN /\ Goto("emg_flat") /\ regs' = [regs EXCEPT !.tries = @ + 1]
         /\ UNCHANGED engineVars
    ELSE IF Active THEN EnterRecovery(c, regs.pos, v)
                   ELSE Save(c, TRUE) /\ EndOp

EmgFlatOrders ==
  /\ At("emg_flat_orders")
  /\ IF regs.pos = 0 THEN ReadOrders("emg_again") /\ UNCHANGED engineVars
                     ELSE EmgRetry(View)
  /\ UNCHANGED <<venueVars, faults>>

EmgAgain ==
  /\ At("emg_again") /\ EmgRemoveOk
  /\ Goto("emg_reread") /\ Keep /\ UNCHANGED engineVars

EmgReread ==
  /\ At("emg_reread")
  /\ IF Remaining(View) THEN EmgRetry(View) ELSE EmgSucceeds
  /\ UNCHANGED <<venueVars, faults>>

\* The second cancel, or the read after it, fails: the rows read before it decide.
EmgAgainFails ==
  /\ \/ At("emg_again") /\ EmgRemoveFail
     \/ At("emg_reread") /\ Fault /\ UNCHANGED venueVars
  /\ IF Remaining(regs.view) THEN EmgRetry(regs.view) ELSE EmgSucceeds

EmgReadFails ==
  /\ pc \in {"emg_orders", "emg_account", "emg_flat", "emg_flat_orders"}
  /\ Fault /\ EndOp
  /\ UNCHANGED <<venueVars, engineVars>>

Emergency == \/ EmgOrders \/ EmgCancel \/ EmgAccount \/ EmgClose \/ EmgFlat \/ EmgFlatOrders
             \/ EmgAgain \/ EmgReread \/ EmgAgainFails \/ EmgReadFails

------------------------------------------------------------------------------
(* _scan_global_risks, _initial_reconcile and reconcile_system              *)

GlobAccount ==
  /\ At("glob_account") /\ ReadAccount("glob_orders")
  /\ UNCHANGED <<venueVars, engineVars, faults>>

\* The account against the campaign: foreign orders, or anything at all without one.
AccountRisk == IF Active THEN View.stray
               ELSE regs.pos # 0 \/ View.stray \/ Owned(View)

\* Mutant: the reconcile ignores what the account holds without a campaign.
NewSafeCampaignOnly == IF op = "reconcile" THEN regs.risk \/ InRecovery
                                           ELSE safe \/ AccountRisk

\* Only reconcile_system turns SAFE MODE off, and only when nothing is wrong.
NewSafe == IF op = "reconcile" THEN regs.risk \/ InRecovery \/ AccountRisk
                               ELSE safe \/ AccountRisk

GlobOrders ==
  /\ At("glob_orders")
  /\ Save(c, NewSafe) /\ EndOp
  /\ UNCHANGED <<venueVars, faults>>

GlobReadFails ==
  /\ pc \in GlobalPcs /\ Fault /\ EndOp
  /\ IF op = "reconcile" THEN UNCHANGED engineVars ELSE Save(c, TRUE)
  /\ UNCHANGED venueVars

Global == GlobAccount \/ GlobOrders \/ GlobReadFails

------------------------------------------------------------------------------
(* create_campaign and _creation_failure                                    *)

CrAccount ==
  /\ At("cr_account")
  /\ IF pos # 0 THEN EndOp ELSE Goto("cr_orders") /\ Keep
  /\ UNCHANGED <<venueVars, engineVars, faults>>

CrOrders ==
  /\ At("cr_orders")
  /\ IF Owned(View) \/ View.stray THEN EndOp ELSE Goto("cr_leverage") /\ Keep
  /\ UNCHANGED <<venueVars, engineVars, faults>>

NewCampaign == [NoCampaign EXCEPT !.status = "placing"]

\* The campaign is saved, with the cloids of every order, before any order is sent.
\* Fills of the last minute, if there were any, are read again: they are nobody's now.
CrLeverage ==
  /\ At("cr_leverage")
  /\ Save(NewCampaign, safe)
  /\ unseen' \in {NoFills, [NoFills EXCEPT !.foreign = TRUE]}
  /\ Goto("cr_place") /\ regs' = [regs EXCEPT !.k = 1]
  /\ UNCHANGED <<pos, entry, target, due, strayBuy, straySell, manual, faults>>

\* The margin check or the leverage call refuses.
CrRefused == At("cr_leverage") /\ EndOp /\ UNCHANGED <<venueVars, engineVars, faults>>

CrPlace ==
  /\ At("cr_place")
  /\ entry' = [entry EXCEPT ![regs.k] = @ + Lot]
  /\ Save(c, safe)
  /\ IF regs.k < NLevels THEN Goto("cr_place") /\ regs' = [regs EXCEPT !.k = @ + 1]
                         ELSE Goto("cr_count") /\ regs' = NoRegisters
  /\ UNCHANGED <<pos, target, due, strayBuy, straySell, unseen, manual, faults>>

CreationFailure == Goto("crf_account") /\ regs' = NoRegisters /\ UNCHANGED engineVars

\* Rejected, or accepted although the answer is lost (its cloid is known).
CrPlaceFails ==
  /\ At("cr_place") /\ Fault
  /\ entry' \in {entry, [entry EXCEPT ![regs.k] = @ + Lot]}
  /\ CreationFailure
  /\ UNCHANGED <<pos, target, due, strayBuy, straySell, unseen, manual>>

CrCount ==
  /\ At("cr_count")
  /\ IF OpenEntries(entry) = Levels
       THEN Goto("cr_flat") /\ Keep /\ UNCHANGED engineVars
       ELSE CreationFailure
  /\ UNCHANGED <<venueVars, faults>>

CrFlat ==
  /\ At("cr_flat")
  /\ IF pos = 0 THEN Save([c EXCEPT !.status = "waiting"], safe) /\ EndOp
                ELSE CreationFailure
  /\ UNCHANGED <<venueVars, faults>>

CrfAccount ==
  /\ At("crf_account") /\ ReadAccount("crf_orders")
  /\ UNCHANGED <<venueVars, engineVars, faults>>

CrfOrders ==
  /\ At("crf_orders")
  /\ EnterRecovery(c, regs.pos, View)
  /\ UNCHANGED <<venueVars, faults>>

\* Before the campaign exists a failed read ends the call; then it is a creation
\* failure; inside _creation_failure recovery starts with what has been read.
CrReadFails ==
  /\ pc \in CreatePcs \ {"cr_leverage", "cr_place"} /\ Fault
  /\ IF pc \in {"cr_account", "cr_orders"} THEN EndOp /\ UNCHANGED engineVars
     ELSE IF pc \in {"cr_count", "cr_flat"} THEN CreationFailure
     ELSE EnterRecovery(c, regs.pos, NoView)
  /\ UNCHANGED venueVars

Create == \/ CrAccount \/ CrOrders \/ CrLeverage \/ CrRefused \/ CrPlace \/ CrPlaceFails
          \/ CrCount \/ CrFlat \/ CrfAccount \/ CrfOrders \/ CrReadFails

------------------------------------------------------------------------------
(* Operations begin, the process dies and starts again                      *)

Begin(o, p) == At("idle") /\ op' = o /\ pc' = p /\ regs' = NoRegisters
               /\ UNCHANGED <<venueVars, faults>>

StartMonitor ==
  Begin("monitor", IF Active THEN "sync_orders" ELSE "glob_account") /\ UNCHANGED engineVars

StartReconcile ==
  Begin("reconcile", IF Active THEN "sync_orders" ELSE "glob_account") /\ UNCHANGED engineVars

StartCancel == Active /\ Begin("cancel", "sync_orders") /\ UNCHANGED engineVars

StartCreate == ~safe /\ ~Active /\ Begin("create", "cr_account") /\ UNCHANGED engineVars

StartEmergency ==
  /\ Begin("emergency", "emg_orders")
  /\ IF Active THEN Save([c EXCEPT !.status = "emergency", !.blocked = TRUE], safe)
               ELSE UNCHANGED engineVars

\* The call the dying process had just made may take effect, where that is not the same
\* as the call and then a crash: its result is on no disk.
CallInFlight ==
  \/ UNCHANGED <<entry, target, strayBuy, straySell>>
  \/ At("fin_place") /\ strayBuy' = strayBuy + Lot /\ UNCHANGED <<entry, target, straySell>>
  \/ At("cover_place") /\ LostFallback /\ UNCHANGED <<entry, strayBuy>>
  \/ At("cover_cancel") /\ Gone({}, {Fallback}) /\ UNCHANGED <<strayBuy, straySell>>
  \/ At("srec_entries") /\ Gone(Entries, {}) /\ UNCHANGED <<strayBuy, straySell>>

\* Memory is lost; what had been applied but not saved will be read again.
Crash ==
  /\ pc # "down" /\ Fault
  /\ CallInFlight
  /\ c' = disk.c /\ safe' = disk.safe /\ UNCHANGED disk
  /\ unseen' = Merge(unseen, unsaved) /\ unsaved' = NoFills
  /\ pc' = "down" /\ op' = "none" /\ regs' = NoRegisters
  /\ UNCHANGED <<pos, due, manual>>

Restart ==
  /\ At("down")
  /\ op' = "startup" /\ pc' = (IF Active THEN "sync_orders" ELSE "glob_account")
  /\ regs' = NoRegisters
  /\ UNCHANGED <<venueVars, engineVars, faults>>

Commands == StartReconcile \/ StartCancel \/ StartCreate \/ StartEmergency

Thread == \/ Sync \/ Cover \/ Recovery \/ Finish \/ Confirm \/ Cancel \/ Emergency
          \/ Global \/ Create

VenueMoves == VenueNext /\ UNCHANGED <<engineVars, control, faults>>

Next == VenueMoves \/ Thread \/ StartMonitor \/ Commands \/ Crash \/ Restart

Spec == Init /\ [][Next]_vars

\* The thread that holds action_lock goes on, and the monitor gets its turn.
FairSpec == Spec /\ WF_vars(Thread \/ StartMonitor)

------------------------------------------------------------------------------
(* Properties                                                               *)

\* A campaign reported canceled, completed or recovery_closed has no owned order on the
\* venue, and no TP of its entries can still be listed there.
ClosedIsClean == c.status \in ClosedStatuses => Quiet

\* What the engine believes it owns, plus the fills it has not read, is the position, as
\* long as no fill is foreign and nobody trades by hand: no fill is lost or counted twice.
Ledger(campaign, fills) ==
  manual = 0 /\ campaign.status \in {"waiting", "open", "closing", "canceling"}
    /\ ~campaign.blocked /\ ~fills.foreign
  => pos = campaign.managed + fills.bought - fills.sold

LedgerExact == Ledger(c, unseen)

\* The same for what a restart would find: a crash at any point loses no fill either.
LedgerSurvivesCrash == Ledger(disk.c, Merge(unseen, unsaved))

\* Without trades by hand the venue can never fill the engine beyond one ladder.
ExposureBounded ==
  manual = 0 => pos + MapThenSumSet(LAMBDA l : entry[l], Levels) + strayBuy <= NLevels * Lot

\* No buy order is sent once an unexplained fill has been taken into account.
NoBuyWhenBlocked ==
  [][c.blocked => \A l \in Levels : entry'[l] <= entry[l]]_vars

\* A fresh L1 goes out only when no unit of the old entry is open and no TP is due.
RearmReplacesL1 ==
  [][\A l \in Levels : c.status # "placing" /\ entry'[l] > entry[l]
        => entry[l] = 0 /\ due[l] = 0]_vars

\* SAFE MODE ends only by a reconcile, with no recovery open and, when no campaign is
\* active, no order of any kind on the coin.
SafeModeReleased ==
  [][safe /\ ~safe' => /\ op = "reconcile" /\ ~InRecovery
                       /\ Active \/ (~Owned(View) /\ ~View.stray)]_vars

\* A recovery with a flat position ends, unless the position comes back.
RecoveryEnds == InRecovery ~> (~InRecovery \/ pos # 0 \/ pc = "down")

\* A long position in recovery gets reduce-only orders for all of it.
Covered == pos <= MapThenSumSet(LAMBDA l : target[l], TargetLevels) + straySell
RecoveryProtects == InRecovery /\ pos > 0 ~> (~InRecovery \/ pos <= 0 \/ Covered \/ pc = "down")

\* HARDENED_LIVE_README_RU.md: emergency_closed only after the venue confirmed flat.
EmergencyIsFlat ==
  [][c.status # "emergency_closed" /\ c'.status = "emergency_closed" => pos = 0]_vars

\* LIVE_HYPERLIQUID.md: ambiguity ends in recovery or SAFE MODE.
NoHalfPlacedLadder == pc = "idle" /\ c.status = "placing" => safe

\* LIVE_HYPERLIQUID.md: recovery cancels owned entries.  Without trades by hand every buy
\* order on the coin is the engine's own, so a finished recovery leaves none.
RecoveryLeavesNoBuy == c.status = "recovery_closed" /\ manual = 0 => strayBuy = 0

------------------------------------------------------------------------------
(* The engine implements the contract                                       *)

PhaseOf(status) ==
  CASE status = "none" -> "off"
    [] status \in {"recovery", "emergency"} -> "held"
    [] status \in ClosedStatuses -> "closed"
    [] status = "emergency_closed" -> "stopped"
    [] OTHER -> "ladder"

Contract == INSTANCE CampaignContract WITH
  phase   <- PhaseOf(c.status),
  resting <- OpenEntries(entry),
  blocked <- disk.c.blocked,
  clean   <- Quiet

ImplementsContract == Contract!ContractSpec
==============================================================================
