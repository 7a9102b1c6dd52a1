-------------------------- MODULE CampaignPromise --------------------------
(***************************************************************************)
(* What a campaign of several specialists promises, without directors,     *)
(* plans, layouts, retries or checkpoints: assets are made and judged one  *)
(* at a time within a budget, an accepted asset settles one wanted format  *)
(* for good, and the campaign completes when every wanted format is        *)
(* settled and aborts when the budget is spent.                            *)
(***************************************************************************)
EXTENDS Naturals

CONSTANTS
    Formats,   \* the formats an asset may have
    Budget,    \* how many assets may be made
    Outcomes   \* the statuses of a completed campaign

VARIABLES
    wanted,    \* the formats of the brief
    spent,     \* assets made
    open,      \* an asset has been made and not judged
    settled,   \* the formats accepted
    outcome    \* how the campaign ended

pvars == <<wanted, spent, open, settled, outcome>>

Init ==
    /\ wanted = {}
    /\ spent = 0
    /\ open = FALSE
    /\ settled = {}
    /\ outcome = "running"

Running == outcome = "running"

Brief ==
    /\ Running /\ spent = 0
    /\ wanted' \in SUBSET Formats
    /\ UNCHANGED <<spent, open, settled, outcome>>

Make ==
    /\ Running /\ ~open
    /\ spent < Budget
    /\ settled # wanted
    /\ spent' = spent + 1
    /\ open' = TRUE
    /\ UNCHANGED <<wanted, settled, outcome>>

Accept ==
    /\ Running /\ open
    /\ \E f \in wanted \ settled : settled' = settled \cup {f}
    /\ open' = FALSE
    /\ UNCHANGED <<wanted, spent, outcome>>

Reject ==
    /\ Running /\ open
    /\ open' = FALSE
    /\ UNCHANGED <<wanted, spent, settled, outcome>>

End(o) ==
    /\ Running
    /\ outcome' = o
    /\ UNCHANGED <<wanted, spent, open, settled>>

Complete == \E o \in Outcomes : ~open /\ settled = wanted /\ wanted # {} /\ End(o)
Abort    == (spent = Budget \/ wanted = {}) /\ End("aborted")
Clarify  == spent = 0 /\ End("waiting_for_user")

Next == Brief \/ Make \/ Accept \/ Reject \/ Complete \/ Abort \/ Clarify

Spec == Init /\ [][Next]_pvars
=============================================================================
