--------------------------- MODULE CampaignContract ---------------------------
(***************************************************************************)
(* What the "Trading contract" and the runtime safety list of              *)
(* LIVE_HYPERLIQUID.md promise of one campaign, without calls, crashes or  *)
(* local state: which phases it passes through, when it may put buy orders *)
(* on the book, and what must be true of the book when it is closed.       *)
(*                                                                         *)
(*   off       there never was a campaign                                  *)
(*   ladder    placing, waiting, open, closing or canceling                *)
(*   held      emergency or recovery: only ever towards less exposure      *)
(*   closed    canceled, completed or recovery_closed                      *)
(*   stopped   emergency_closed                                            *)
(***************************************************************************)
CONSTANT Levels   \* ladder levels

VARIABLES phase, resting, blocked, clean

\* phase; levels with an entry on the book; automatic rearm durably blocked; nothing
\* owned is on the book or still to be listed there.
contract == <<phase, resting, blocked, clean>>

Phases == {"off", "ladder", "held", "closed", "stopped"}

ContractInit == phase = "off" /\ resting = {} /\ blocked = FALSE /\ clean = TRUE

\* The block may become durable with any step; it lasts as long as the campaign.
MayBlock == blocked' \in {blocked, TRUE}

\* Orders leave the book by fills or cancels, TPs come and go; a clean book stays clean.
Shrinks == resting' \subseteq resting /\ clean' \in BOOLEAN /\ (clean => clean')

Settle == Shrinks /\ MayBlock /\ UNCHANGED phase

\* Entries are put on the book only by a ladder whose rearm is not blocked.
Place == /\ phase = "ladder" /\ ~blocked
         /\ \E l \in Levels \ resting : resting' = resting \cup {l}
         /\ clean' = FALSE
         /\ UNCHANGED <<phase, blocked>>

\* An owned target is added where a position is open.
Protect == /\ phase \in {"ladder", "held"} /\ clean' = FALSE
           /\ MayBlock /\ UNCHANGED <<phase, resting>>

Open == /\ phase \in {"off", "closed", "stopped"} /\ clean
        /\ phase' = "ladder" /\ blocked' = FALSE
        /\ UNCHANGED <<resting, clean>>

\* A crash, too, may bring the campaign back to an earlier hold, while a cancel or the
\* placing of a target takes effect.
Hold == /\ phase = "ladder"
        /\ phase' = "held" /\ blocked' = TRUE
        /\ resting' \subseteq resting /\ clean' \in BOOLEAN

\* An emergency that could not even read the venue leaves the campaign where it was.
Resume == /\ phase = "held" /\ blocked
          /\ phase' = "ladder"
          /\ UNCHANGED <<resting, blocked, clean>>

Close == /\ phase \in {"ladder", "held"} /\ clean
         /\ phase' = "closed"
         /\ UNCHANGED <<resting, blocked, clean>>

Stop == /\ phase = "held" /\ resting = {}
        /\ phase' = "stopped"
        /\ UNCHANGED <<resting, blocked, clean>>

ContractNext == Settle \/ Place \/ Protect \/ Open \/ Hold \/ Resume \/ Close \/ Stop

ContractSpec == ContractInit /\ [][ContractNext]_contract
==============================================================================
