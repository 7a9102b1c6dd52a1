--------------------------- MODULE CriticalCopyMC ---------------------------
(* Values for the constants of CriticalCopy that a .cfg cannot write.       *)
EXTENDS CriticalCopy

Title == <<"red", "cup">>
Line == <<"warm">>
Brand == <<"bean">>
BrandTitle == <<"bean", "cup">>
Banned == <<"best", "ever">>

Marked(quoted, mark) == [i \in DOMAIN quoted |-> [text |-> quoted[i], mark |-> mark]]

(* Nothing quoted, all of the copy or part of it, texts within texts.       *)
SomeQuotes ==
    {Marked(quoted, mark) : mark \in {"straight", "book", "corner"},
       quoted \in {<<>>, <<Title>>, <<Title, Line>>, <<Title, Line, CallToAction>>,
                   <<BrandTitle, Line, CallToAction>>, <<Banned>>}}

Profile(name, required, forbidden) ==
    [name |-> name, required |-> required, forbidden |-> forbidden]

Numbers(n) == [i \in 1..n |-> <<ToString(i)>>]

(* A profile may require more than there is room for.                       *)
SomeProfiles ==
    {Profile(Nothing, <<>>, {}), Profile(Brand, <<>>, {Banned}),
     Profile(Brand, <<Line>>, {<<"cup">>}), Profile(Brand, <<Title, Brand>>, {}),
     Profile(Brand, Numbers(7), {}),
     Profile(Brand, <<Banned>>, {Banned})}

SomeRequests ==
    [quotes : SomeQuotes, named : {Nothing, Brand}, profile : SomeProfiles,
     generate_copy : BOOLEAN, mode : {"single_agent", "multi_agent"}]
    \cup {[quotes |-> Marked(Numbers(n), "corner"), named |-> Nothing,
           profile |-> Profile(Brand, Numbers(m), {}),
           generate_copy |-> FALSE, mode |-> "multi_agent"] : n, m \in {6, 7}}
=============================================================================
