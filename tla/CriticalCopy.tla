---------------------------- MODULE CriticalCopy ----------------------------
(***************************************************************************)
(* The texts of a picture, from the request to the verdict: what the copy  *)
(* agent writes (copy_agent.py), what the picture is to show (the prompt   *)
(* of graph.py, or the typography layers of generation_agent.py), what of  *)
(* it can be read, and what OCR assessment (ocr_text.py), the brand rules  *)
(* (creative_tools.py) and the compliance agent make of it.                *)
(*                                                                         *)
(* A text is a sequence of words, written without spaces as Chinese is.    *)
(* OCR reads what is legible, but breaks it into regions as it likes.      *)
(* Letter case, the lengths of texts and the score of the picture are left *)
(* out; the brief is the one written without a model.                      *)
(***************************************************************************)
EXTENDS Naturals, Sequences, SequencesExt, TLC

CONSTANTS
    Requests,          \* of the form of RequestForm
    Stray,             \* a text the picture may show unasked
    Regions,           \* how OCR may group words: "lines", "one", "words"
    MaxGenerations     \* bound: pictures made for a request

VARIABLES
    request,
    stage,             \* what happens next
    copy,              \* MarketingCopy or CreativeBrief
    picture,           \* its legible texts, from the top down
    texts,             \* what OCR reads, region by region
    issues,            \* what the evaluation and the brand rules found
    generations

vars == <<request, stage, copy, picture, texts, issues, generations>>

Nothing == <<>>
Space == " "

(* The parts of a TaskRequest that decide its texts.  quotes are the quoted *)
(* texts of the prompt with their marks: straight or curly quotes, book     *)
(* marks, corner marks.  named is the brand the prompt names.               *)
RequestForm(r) ==
    /\ \A q \in ToSet(r.quotes) : q.text # Nothing /\ q.mark \in {"straight", "book", "corner"}
    /\ r.generate_copy \in BOOLEAN
    /\ r.mode \in {"single_agent", "multi_agent"}

ASSUME CriticalCopyAssumption ==
    /\ \A r \in Requests : RequestForm(r)
    /\ Regions \subseteq {"lines", "one", "words"}
    /\ MaxGenerations \in Nat \ {0}

-----------------------------------------------------------------------------
(* Texts.                                                                   *)

At(text, s, i) ==
    /\ i + Len(text) <= Len(s) + 1
    /\ SubSeq(s, i, i + Len(text) - 1) = text

Places(text, s) == {i \in 1..Len(s) : At(text, s, i)}

Occurs(text, s) == Places(text, s) # {}

(* str.count(text) > 1: overlapping occurrences count once.                 *)
OccursTwice(text, s) ==
    \E i, j \in Places(text, s) : j >= i + Len(text)

(* s.replace(text, "", 1)                                                   *)
WithoutFirst(s, text) ==
    IF Occurs(text, s) THEN ReplaceFirstSubSeq(Nothing, text, s) ELSE s

(* list(dict.fromkeys(s)), empty texts left out                             *)
Distinct(s) ==
    FoldLeft(LAMBDA seen, t : IF t = Nothing \/ t \in ToSet(seen) THEN seen
                              ELSE Append(seen, t), <<>>, s)

(* " ".join(s)                                                              *)
Spaced(s) ==
    FoldLeft(LAMBDA line, t : IF line = Nothing THEN t ELSE line \o <<Space>> \o t, Nothing, s)

(* Those texts of the prompt that stand in marks, in order.                 *)
QuotedIn(r, marks) ==
    LET quoted == SelectSeq(r.quotes, LAMBDA q : q.mark \in marks) IN
    [i \in DOMAIN quoted |-> quoted[i].text]

Violations(profile, text) == {f \in profile.forbidden : Occurs(f, text)}

-----------------------------------------------------------------------------
(* What the picture is to say.                                              *)

DefaultHeadline == <<"discover">>
DefaultSubheadline == <<"inspire">>
CallToAction == <<"explore">>

NoCopy(r) ==
    [headline |-> Nothing, subheadline |-> Nothing, call_to_action |-> Nothing,
     signature |-> Nothing, required |-> Distinct(r.profile.required)]

(* MarketingCopyAgent.create                                                *)
WrittenCopy(r) ==
    LET quoted == QuotedIn(r, {"straight", "book"})
        headline == IF quoted # <<>> THEN quoted[1] ELSE DefaultHeadline
        subheadline == IF Len(quoted) > 1 THEN quoted[2] ELSE DefaultSubheadline
    IN
    [headline |-> headline, subheadline |-> subheadline,
     call_to_action |-> CallToAction, signature |-> r.profile.name,
     required |-> Distinct(<<headline, subheadline, r.profile.name>> \o r.profile.required)]

Init ==
    /\ request \in Requests
    /\ stage = "copy"
    /\ copy = NoCopy(request)
    /\ picture = <<>> /\ texts = <<>> /\ issues = {}
    /\ generations = 0

(* understand_goal, or BriefAgent.act, which looks for what the brand       *)
(* forbids in the copy only.                                                *)
WriteCopy ==
    LET written == IF request.generate_copy THEN WrittenCopy(request) ELSE NoCopy(request)
        prompt == Spaced(QuotedIn(request, {"straight", "book", "corner"}))
    IN
    /\ stage = "copy"
    /\ copy' = written
    /\ stage' = IF \/ /\ request.mode = "single_agent"
                      /\ Violations(request.profile, prompt) # {}
                   \/ /\ request.generate_copy
                      /\ Violations(request.profile, Spaced(written.required)) # {}
                THEN "raised" ELSE "picture"
    /\ UNCHANGED <<request, picture, texts, issues, generations>>

(* Heights in thousandths of the picture: where a text is drawn, and how    *)
(* tall a required text is.                                                 *)
HeadlineAt == 60
CallToActionAt == 820
RequiredAt(i) == 720 + 45 * (i - 1)
RequiredHeight == 28

(* _typography_layers.  The layout has no place for the subheadline, which  *)
(* is drawn with the required elements.                                     *)
Layers(c) ==
    LET placed == {c.headline, c.call_to_action} \ {Nothing}
        rest == SelectSeq(c.required, LAMBDA t : t \notin placed)
        Layer(text, y) == IF text = Nothing THEN <<>> ELSE <<[text |-> text, y |-> y]>>
    IN
    Layer(c.headline, HeadlineAt) \o Layer(c.call_to_action, CallToActionAt)
    \o [i \in DOMAIN rest |-> [text |-> rest[i], y |-> RequiredAt(i)]]

(* The layers that end within the picture, from the top down.               *)
Legible(layers) ==
    LET inside == SelectSeq(layers, LAMBDA l : l.y + RequiredHeight <= 1000)
        down == SortSeq(inside, LAMBDA a, b : a.y < b.y)
    IN [i \in DOMAIN down |-> down[i].text]

(* generation_context: the image model is asked for everything in the       *)
(* prompt, in the brand profile and in the copy.                            *)
Prompted(r, c) ==
    Distinct(QuotedIn(r, {"straight", "book", "corner"}) \o <<r.named>>
             \o r.profile.required
             \o <<c.headline, c.subheadline, c.call_to_action, c.signature>>)

(* What the picture shows if it is made as it should be.                    *)
Intended(r, c) ==
    IF r.mode = "multi_agent" THEN Legible(Layers(c)) ELSE Prompted(r, c)

(* generate_image and typography_renderer.  An image model may add a text,  *)
(* and where it draws the texts itself, leave one out or repeat one.        *)
Draw ==
    LET intended == Intended(request, copy) IN
    /\ stage = "picture" /\ generations < MaxGenerations
    /\ generations' = generations + 1
    /\ \/ picture' = intended
       \/ picture' = Append(intended, Stray)
       \/ /\ request.mode = "single_agent"
          /\ \E i \in DOMAIN intended :
               picture' \in {RemoveAt(intended, i), Append(intended, intended[i])}
    /\ stage' = "read"
    /\ UNCHANGED <<request, copy, texts, issues>>

-----------------------------------------------------------------------------
(* What is read and what is made of it.                                     *)

(* The regions OCR may report for a picture.                                *)
ReadAs(shown, region) ==
    IF region = "lines" \/ shown = <<>> THEN shown
    ELSE IF region = "one" THEN <<FlattenSeq(shown)>>
    ELSE [i \in DOMAIN FlattenSeq(shown) |-> <<FlattenSeq(shown)[i]>>]

Read ==
    /\ stage = "read"
    /\ \E region \in Regions : texts' = ReadAs(picture, region)
    /\ stage' = "assess"
    /\ UNCHANGED <<request, copy, picture, issues, generations>>

(* QwenVLOCREvaluator.expected_texts: quoted texts, though not those in     *)
(* book marks, and the brand.                                               *)
ExpectedTexts(r) == Distinct(Append(QuotedIn(r, {"straight", "corner"}), r.named))

(* Slip: it is enough that every text is there.                             *)
AccuracyOnly(expected, read) ==
    IF \E t \in ToSet(expected) : ~Occurs(t, FlattenSeq(read)) THEN {"text_accuracy"} ELSE {}

(* QwenVLOCREvaluator.assess_texts and evaluate                             *)
AssessTexts(expected, read) ==
    LET joined == FlattenSeq(read)
        remaining == FoldLeft(WithoutFirst, joined, expected)
    IN
    (IF \E t \in ToSet(expected) : ~Occurs(t, joined) THEN {"text_accuracy"} ELSE {})
    \cup (IF \E t \in ToSet(expected) : OccursTwice(t, joined)
          THEN {"text_duplication"} ELSE {})
    \cup (IF remaining # Nothing THEN {"unexpected_text"} ELSE {})

(* Slips: the picture is only searched for what is required; only for what  *)
(* is forbidden.                                                            *)
RequiredOnly(c, r, read) ==
    LET text == Spaced(read) IN
    IF \E t \in ToSet(c.required) : ~Occurs(t, text) THEN {"brand_rule"} ELSE {}

ForbiddenOnly(c, r, read) ==
    IF Violations(r.profile, Spaced(read)) # {} THEN {"brand_rule"} ELSE {}

(* BrandRuleValidatorTool.execute: unlike the assessment it reads across    *)
(* regions with a space between them.                                       *)
BrandIssues(c, r, read) ==
    LET text == Spaced(read) IN
    IF \/ \E t \in ToSet(c.required) : ~Occurs(t, text)
       \/ Violations(r.profile, text) # {}
    THEN {"brand_rule"} ELSE {}

Assess ==
    /\ stage = "assess"
    /\ issues' = AssessTexts(ExpectedTexts(request), texts)
                 \cup (IF request.mode = "multi_agent" THEN BrandIssues(copy, request, texts)
                       ELSE {})
    /\ stage' = "judge"
    /\ UNCHANGED <<request, copy, picture, texts, generations>>

(* VQAEvaluateTool.execute, or ComplianceAgent.act: any issue is a veto,    *)
(* and the picture is made again from the same copy.                        *)
Judge ==
    /\ stage = "judge"
    /\ stage' = IF issues = {} THEN "passed" ELSE "picture"
    /\ UNCHANGED <<request, copy, picture, texts, issues, generations>>

Next == WriteCopy \/ Draw \/ Read \/ Assess \/ Judge

Spec == Init /\ [][Next]_vars

-----------------------------------------------------------------------------
Judged == stage = "passed" \/ (stage = "picture" /\ generations > 0)

(* A picture made as it should be, and read line by line.                   *)
Verbatim == picture = Intended(request, copy) /\ texts = picture

(* None of the texts is part of another.                                    *)
Unnested ==
    LET all == ToSet(ExpectedTexts(request)) \cup ToSet(Intended(request, copy)) IN
    \A s, t \in all : Occurs(s, t) => s = t

(* The prompt itself names the texts the picture is to show, and no other.  *)
NamesItsTexts == ToSet(ExpectedTexts(request)) = ToSet(Intended(request, copy))

(* All there is of the copy fits into the picture and is allowed there.     *)
Feasible ==
    request.mode = "multi_agent" =>
      /\ \A t \in ToSet(copy.required) : t \in ToSet(Intended(request, copy))
      /\ \A t \in ToSet(picture) : Violations(request.profile, t) = {}

(* A picture that shows the copy word for word passes exactly when the      *)
(* prompt names all of it (none of the texts being part of another): a call *)
(* to action, a default headline or a brand signature that is drawn as told *)
(* but not quoted in the prompt counts as unexpected, however often the     *)
(* picture is made again (expected_texts reads the prompt, not the copy).   *)
PassesExactlyWhenNamed ==
    Judged /\ Verbatim /\ Unnested =>
      (stage = "passed" <=> NamesItsTexts /\ Feasible)

(* Text t is part of another one of texts.                                  *)
Nested(t, all) == \E u \in all \ {t} : Occurs(t, u)

(* A picture that passes shows every expected text that is part of no other *)
(* one exactly once, and every word of it belongs to one of them, however   *)
(* OCR groups the words; a multi-agent picture shows every required text,   *)
(* too.  A text that is part of another (a brand within a headline that     *)
(* names it) is found there: on its own such a picture does not show it,    *)
(* and the one that shows it as asked, too, is refused as a repetition      *)
(* (assess_texts counts and removes what occurs, wherever it occurs).       *)
PassedShowsCopy ==
    stage = "passed" =>
      LET shown == FlattenSeq(picture)
          expected == ToSet(ExpectedTexts(request))
      IN
      /\ \A t \in expected :
           IF Nested(t, expected) THEN t \notin ToSet(picture)
           ELSE \E i \in DOMAIN picture : \A j \in DOMAIN picture : picture[j] = t <=> j = i
      /\ \A k \in DOMAIN shown : \E t \in expected : \E i \in Places(t, shown) :
           i <= k /\ k < i + Len(t)
      /\ request.mode = "multi_agent" => \A t \in ToSet(copy.required) : Occurs(t, shown)

(* No picture passes that shows, within a text, a phrase the brand forbids, *)
(* whichever of the checks of prompt, copy and picture is to see it; only   *)
(* OCR that breaks the text itself can hide it from the last of them.       *)
NoForbiddenPassed ==
    stage = "passed" /\ texts \in {picture, <<FlattenSeq(picture)>>} =>
      \A t \in ToSet(picture) : Violations(request.profile, t) = {}
=============================================================================
