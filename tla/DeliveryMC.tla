----------------------------- MODULE DeliveryMC -----------------------------
(* Values for the constants of Delivery that a .cfg cannot write.           *)
EXTENDS Delivery

Evaluation(score, compliant, issues) ==
    [score |-> score, compliant |-> compliant, issues |-> issues]

Run(assets, evaluations) == [assets |-> assets, evaluations |-> evaluations]

Low == Evaluation(1, FALSE, <<1, 2>>)
Plain == Evaluation(1, TRUE, <<2>>)
Garbled == Evaluation(2, FALSE, <<2, 1>>)
Good == Evaluation(2, TRUE, <<>>)

SomeRuns ==
    {Run(0, <<>>), Run(1, <<>>), Run(1, <<Good>>), Run(2, <<Low, Good>>),
     Run(2, <<Garbled, Plain>>), Run(2, <<Garbled>>), Run(3, <<Garbled, Low, Plain>>),
     Run(3, <<Garbled, Low, Low>>)}

Req(formats, count, parallel, iterations, review, unclear) ==
    [formats |-> formats, candidates |-> count, parallel |-> parallel,
     iterations |-> iterations, review |-> review, unclear |-> unclear]

Reviewed == Req(1, 1, FALSE, 5, TRUE, FALSE)
Unclear == Req(1, 1, FALSE, 4, TRUE, TRUE)

(* All kinds of batches, with an unclear task after them, and a review with *)
(* a task that is executed meanwhile: their lessons and strategies meet.    *)
SomeRequests ==
    {<<q, Unclear>> :
       q \in {Req(1, 2, TRUE, 4, FALSE, FALSE), Req(1, 1, FALSE, 6, TRUE, FALSE),
              Req(2, 1, FALSE, 4, FALSE, FALSE), Req(2, 1, FALSE, 3, TRUE, FALSE),
              Req(2, 2, FALSE, 3, FALSE, FALSE), Req(2, 1, FALSE, 1, FALSE, FALSE)}}
    \cup {<<Reviewed, Req(1, 1, FALSE, 5, FALSE, FALSE)>>}

(* Three faults, the first of which has no instruction of its own.          *)
UninstructedRuns ==
    {Run(1, <<Good>>), Run(2, <<Evaluation(1, FALSE, <<3, 1, 2>>), Good>>)}

PlainRequests ==
    {[t \in Tasks |-> q] : q \in {Req(1, 1, FALSE, 4, FALSE, FALSE),
                                  Req(1, 2, TRUE, 4, FALSE, FALSE)}}
=============================================================================
