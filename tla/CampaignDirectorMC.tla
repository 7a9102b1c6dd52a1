------------------------- MODULE CampaignDirectorMC -------------------------
(* Values for the constants of CampaignDirector that a .cfg cannot write.   *)
EXTENDS CampaignDirector

CONSTANTS square, story

TwoFormats == <<square, story>>

(* The brief takes over the request's formats or, from a model, names none. *)
AskedOrNone == {<<square, story>>, <<>>}

OnePanel == {<<6, 7, 7>>}

(* Passed (also with a medium finding), failed by the score alone, routed   *)
(* to either specialist, more findings than a plan of three takes.          *)
Verdicts ==
    {[passed |-> TRUE,  findings |-> <<>>],
     [passed |-> TRUE,  findings |-> <<"layout">>],
     [passed |-> FALSE, findings |-> <<>>],
     [passed |-> FALSE, findings |-> <<"layout", "generation">>],
     [passed |-> FALSE, findings |-> <<"generation", "generation", "generation">>]}

CleanOrVeto == {<<>>, <<"layout">>}
=============================================================================
