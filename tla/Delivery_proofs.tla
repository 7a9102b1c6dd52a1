--------------------------- MODULE Delivery_proofs ---------------------------
(***************************************************************************)
(* Theorems about Delivery: what is delivered is the best of what was      *)
(* evaluated, and pictures, signatures, cases and lessons agree with it,   *)
(* for any requests, runs of the loop, numbers of candidates and formats,  *)
(* failures and restarts.                                                  *)
(***************************************************************************)
EXTENDS Delivery, SequenceTheorems, FiniteSetTheorems, WellFoundedInduction, TLAPS

(* A non-empty set of numbers has its minimum as a member.                  *)
LEMMA MinOfNumbers ==
    ASSUME NEW S, S \subseteq Nat, S # {}
    PROVE  Min(S) \in S /\ \A y \in S : Min(S) <= y
<1> DEFINE Less == OpToRel(<, Nat)
<1>1. PICK x \in S : \A y \in S : ~(<<y, x>> \in Less)
  BY NatLessThanWellFounded, WFMin
<1>2. ASSUME NEW y \in S, y < x PROVE <<y, x>> \in Less
  <2>1. y \in Nat /\ x \in Nat OBVIOUS
  <2>2. <<y, x>> \in {p \in Nat \X Nat : p[1] < p[2]} BY <1>2, <2>1
  <2> QED BY <2>2 DEF OpToRel
<1> HIDE DEF Less
<1>3. \A y \in S : ~(y < x)
  BY <1>1, <1>2
<1>4. \A y \in S : x <= y
  BY <1>3
<1> QED BY <1>4 DEF Min

(* Induction, over a set instead of a formula.                              *)
LEMMA SetInduction ==
    ASSUME NEW S, S \subseteq Nat, 0 \in S, \A n \in S : n + 1 \in S
    PROVE  S = Nat
<1> SUFFICES ASSUME Nat \ S # {} PROVE FALSE
  OBVIOUS
<1>1. PICK m \in Nat \ S : \A y \in Nat \ S : m <= y
  BY MinOfNumbers
<1>2. m - 1 \in S
  BY <1>1
<1> QED BY <1>1, <1>2

-----------------------------------------------------------------------------
(* Sequences over their own elements, and the flattening of a sequence of   *)
(* them.                                                                    *)

IsSeq(s) == s \in Seq(ToSet(s))

LEMMA SeqIsSeq ==
    ASSUME NEW S, NEW s \in Seq(S)
    PROVE  IsSeq(s) /\ ToSet(s) \subseteq S
BY DEF IsSeq, ToSet

LEMMA EmptyIsSeq == IsSeq(<<>>) /\ ToSet(<<>>) = {}
BY DEF IsSeq, ToSet

LEMMA NoElements ==
    ASSUME NEW s, IsSeq(s)
    PROVE  s = <<>> <=> ToSet(s) = {}
<1>1. ASSUME ToSet(s) = {} PROVE s = <<>>
  <2>1. s \in Seq({})
    BY <1>1 DEF IsSeq
  <2>2. Len(s) \in Nat /\ DOMAIN s = 1..Len(s)
    BY <2>1, LenProperties
  <2>3. Len(s) = 0
    <3>1. ASSUME Len(s) > 0 PROVE FALSE
      <4>1. 1 \in DOMAIN s
        BY <2>2, <3>1
      <4> QED BY <1>1, <4>1 DEF ToSet
    <3> QED BY <2>2, <3>1
  <2> QED BY <2>1, <2>3, EmptySeq
<1> QED BY <1>1, EmptyIsSeq

LEMMA AppendedElements ==
    ASSUME NEW s, IsSeq(s), NEW e
    PROVE  /\ IsSeq(Append(s, e)) /\ ToSet(Append(s, e)) = ToSet(s) \cup {e}
           /\ Len(Append(s, e)) = Len(s) + 1
           /\ Append(s, e)[Len(s) + 1] = e
           /\ \A i \in 1..Len(s) : Append(s, e)[i] = s[i]
<1> DEFINE S == ToSet(s) \cup {e}
<1>1. s \in Seq(S) BY DEF IsSeq, ToSet
<1>2. Append(s,e) \in Seq(S) /\ Len(Append(s,e)) = Len(s) + 1 BY <1>1, AppendProperties
<1> QED BY <1>1, <1>2, AppendProperties DEF IsSeq, ToSet

LEMMA ConcatenatedElements ==
    ASSUME NEW s, IsSeq(s), NEW u, IsSeq(u)
    PROVE  IsSeq(s \o u) /\ ToSet(s \o u) = ToSet(s) \cup ToSet(u)
<1> DEFINE S == ToSet(s) \cup ToSet(u)
           w == s \o u
<1>1. s \in Seq(S) /\ u \in Seq(S) BY DEF IsSeq, ToSet
<1>2. w \in Seq(S) /\ Len(w) = Len(s) + Len(u)
      /\ \A i \in 1..Len(w) : w[i] = IF i <= Len(s) THEN s[i] ELSE u[i - Len(s)]
  BY <1>1, ConcatProperties
<1>3. Len(s) \in Nat /\ Len(u) \in Nat /\ DOMAIN s = 1..Len(s) /\ DOMAIN u = 1..Len(u)
      /\ DOMAIN w = 1..Len(w)
  BY <1>1, <1>2, LenProperties
<1> HIDE DEF w
<1>4. ToSet(w) \subseteq S
  BY <1>2, <1>3 DEF ToSet
<1>5. ToSet(s) \subseteq ToSet(w)
  BY <1>2, <1>3 DEF ToSet
<1>6. ASSUME NEW j \in 1..Len(u) PROVE u[j] \in ToSet(w)
  <2>1. j + Len(s) \in DOMAIN w /\ w[j + Len(s)] = u[j]
    BY <1>2, <1>3
  <2> QED BY <2>1 DEF ToSet
<1>7. ToSet(w) = S
  BY <1>3, <1>4, <1>5, <1>6 DEF ToSet
<1> QED BY <1>2, <1>7 DEF IsSeq, w

(* A sequence given by its elements.                                        *)
LEMMA GivenByElements ==
    ASSUME NEW n \in Nat, NEW s, s = [i \in 1..n |-> s[i]]
    PROVE  IsSeq(s) /\ Len(s) = n /\ DOMAIN s = 1..n
BY DEF IsSeq, ToSet

(* The recursive function of FlattenSeq exists.                             *)
FlattenTo(ss, f, i) == IF i = 1 THEN ss[i] ELSE f[i - 1] \o ss[i]

LEMMA FlattenExists ==
    ASSUME NEW n \in Nat, NEW ss
    PROVE  \E f : f = [i \in 1..n |-> FlattenTo(ss, f, i)]
<1> DEFINE Has(m) == \E f : f = [i \in 1..m |-> FlattenTo(ss, f, i)]
           S == {m \in Nat : Has(m)}
<1>1. Has(0)
  <2>1. [i \in 1..0 |-> {}] = [i \in 1..0 |-> FlattenTo(ss, [j \in 1..0 |-> {}], i)]
    OBVIOUS
  <2> QED BY <2>1
<1>2. ASSUME NEW m \in Nat, Has(m) PROVE Has(m + 1)
  <2>1. PICK f : f = [i \in 1..m |-> FlattenTo(ss, f, i)]
    BY <1>2
  <2>2. \A i \in 1..m : f[i] = FlattenTo(ss, f, i)
    BY <2>1
  <2> DEFINE h == [i \in 1..(m + 1) |-> IF i <= m THEN f[i] ELSE FlattenTo(ss, f, i)]
  <2>3. ASSUME NEW i \in 1..(m + 1)
        PROVE  h[i] = FlattenTo(ss, h, i)
    <3>1. h[i] = FlattenTo(ss, f, i)
      BY <2>2
    <3>2. i # 1 => h[i - 1] = f[i - 1]
      OBVIOUS
    <3> HIDE DEF h
    <3> QED BY <3>1, <3>2 DEF FlattenTo
  <2>4. h = [i \in 1..(m + 1) |-> h[i]]
    OBVIOUS
  <2> HIDE DEF h
  <2>5. [i \in 1..(m + 1) |-> h[i]] = [i \in 1..(m + 1) |-> FlattenTo(ss, h, i)]
    BY <2>3
  <2> QED BY <2>4, <2>5
<1> HIDE DEF Has
<1>3. S \subseteq Nat /\ 0 \in S /\ \A m \in S : m + 1 \in S
  BY <1>1, <1>2
<1> HIDE DEF S
<1>4. S = Nat
  BY <1>3, SetInduction
<1>5. Has(n)
  BY <1>4 DEF S
<1> QED BY <1>5 DEF Has

(* What FlattenSeq makes of the first i sequences, for every i.             *)
LEMMA FlattenByPrefix ==
    ASSUME NEW n \in Nat, n > 0, NEW ss, ss = [i \in 1..n |-> ss[i]]
    PROVE  \E g : /\ g[1] = ss[1]
                  /\ \A i \in 2..n : g[i] = g[i - 1] \o ss[i]
                  /\ FlattenSeq(ss) = g[n]
<1>0. Len(ss) = n
  BY GivenByElements
<1> DEFINE g == CHOOSE f : f = [i \in 1..Len(ss) |-> FlattenTo(ss, f, i)]
<1>1. g = [i \in 1..Len(ss) |-> FlattenTo(ss, g, i)]
  <2>1. \E f : f = [i \in 1..Len(ss) |-> FlattenTo(ss, f, i)]
    BY <1>0, FlattenExists
  <2> QED BY <2>1
<1>2. FlattenSeq(ss) = g[Len(ss)]
  BY <1>0 DEF FlattenSeq, FlattenTo
<1> HIDE DEF g
<1>3. \A i \in 1..n : g[i] = FlattenTo(ss, g, i)
  BY <1>0, <1>1
<1>4. g[1] = ss[1]
  <2>1. g[1] = FlattenTo(ss, g, 1)
    BY <1>3
  <2> QED BY <2>1 DEF FlattenTo
<1>5. ASSUME NEW i \in 2..n PROVE g[i] = g[i - 1] \o ss[i]
  <2>1. g[i] = FlattenTo(ss, g, i) /\ i # 1
    BY <1>3
  <2> QED BY <2>1 DEF FlattenTo
<1> QED BY <1>0, <1>2, <1>4, <1>5

(* Flattening keeps all elements and adds none.                             *)
LEMMA FlattenedElements ==
    ASSUME NEW n \in Nat, NEW ss, ss = [i \in 1..n |-> ss[i]],
           \A i \in 1..n : IsSeq(ss[i])
    PROVE  /\ IsSeq(FlattenSeq(ss))
           /\ ToSet(FlattenSeq(ss)) = UNION {ToSet(ss[i]) : i \in 1..n}
<1>0. CASE n = 0
  <2>1. IsSeq(ss) /\ Len(ss) = 0
    BY <1>0, GivenByElements
  <2>2. ss = <<>> /\ FlattenSeq(ss) = ss
    BY <2>1, EmptySeq DEF IsSeq, FlattenSeq
  <2> QED BY <1>0, <2>2, EmptyIsSeq
<1>1. CASE n > 0
  <2>1. PICK g : /\ g[1] = ss[1]
                 /\ \A i \in 2..n : g[i] = g[i - 1] \o ss[i]
                 /\ FlattenSeq(ss) = g[n]
    BY <1>1, FlattenByPrefix
  <2> DEFINE Has(m) == m \in 1..n =>
                         /\ IsSeq(g[m])
                         /\ ToSet(g[m]) = UNION {ToSet(ss[i]) : i \in 1..m}
             S == {m \in Nat : Has(m)}
  <2>2. 0 \in S
    OBVIOUS
  <2>3. ASSUME NEW m \in S, m + 1 \in 1..n PROVE Has(m + 1)
    <3>1. CASE m = 0
      <4>1. 1..(m + 1) = {1} /\ g[m + 1] = ss[1]
        BY <2>1, <3>1
      <4> QED BY <1>1, <4>1
    <3>2. CASE m > 0
      <4>0. m + 1 \in 2..n /\ m + 1 \in 1..n /\ (m + 1) - 1 = m
        BY <2>3, <3>2
      <4>1. g[m + 1] = g[m] \o ss[m + 1] /\ IsSeq(ss[m + 1])
        <5>1. g[m + 1] = g[(m + 1) - 1] \o ss[m + 1]
          BY <2>1, <4>0
        <5> QED BY <4>0, <5>1
      <4>2. IsSeq(g[m]) /\ ToSet(g[m]) = UNION {ToSet(ss[i]) : i \in 1..m}
        BY <2>3, <3>2
      <4>3. IsSeq(g[m + 1]) /\ ToSet(g[m + 1]) = ToSet(g[m]) \cup ToSet(ss[m + 1])
        BY <4>1, <4>2, ConcatenatedElements
      <4>4. 1..(m + 1) = (1..m) \cup {m + 1}
        BY <3>2
      <4>5. UNION {ToSet(ss[i]) : i \in 1..(m + 1)}
            = (UNION {ToSet(ss[i]) : i \in 1..m}) \cup ToSet(ss[m + 1])
        BY <4>4
      <4> QED BY <4>2, <4>3, <4>5
    <3> QED BY <3>1, <3>2
  <2>4. \A m \in S : m + 1 \in S
    BY <2>3
  <2> HIDE DEF Has
  <2>5. S = Nat
    BY <2>2, <2>4, SetInduction
  <2>6. Has(n)
    BY <2>5
  <2> QED BY <1>1, <2>1, <2>6 DEF Has
<1> QED BY <1>0, <1>1
-----------------------------------------------------------------------------
(* The runs of the loop.                                                    *)

Evaluations == [score : Nat, compliant : BOOLEAN, issues : Seq(Issues)]

LEMMA RunTyped ==
    ASSUME NEW r \in Runs
    PROVE  /\ r.evaluations \in Seq(Evaluations)
           /\ Len(r.evaluations) \in Nat /\ r.assets \in Nat
           /\ DOMAIN r.evaluations = 1..Len(r.evaluations)
           /\ Len(r.evaluations) <= r.assets /\ r.assets <= Len(r.evaluations) + 1
           /\ \A i \in DOMAIN r.evaluations :
                /\ r.evaluations[i].score \in Nat /\ r.evaluations[i].compliant \in BOOLEAN
                /\ r.evaluations[i].issues \in Seq(Issues)
                /\ Passed(r.evaluations[i]) => i = r.assets
<1>1. r.evaluations \in Seq(Evaluations)
  BY BatchAssumption DEF Evaluations
<1>2. Len(r.evaluations) \in Nat /\ DOMAIN r.evaluations = 1..Len(r.evaluations)
  BY <1>1, LenProperties
<1>3. r.assets \in {Len(r.evaluations), Len(r.evaluations) + 1}
  BY BatchAssumption
<1>4. ASSUME NEW i \in DOMAIN r.evaluations
      PROVE  /\ r.evaluations[i].score \in Nat /\ r.evaluations[i].compliant \in BOOLEAN
             /\ r.evaluations[i].issues \in Seq(Issues)
             /\ Passed(r.evaluations[i]) => i = r.assets
  <2>1. r.evaluations[i] \in Evaluations
    BY <1>1, <1>2, ElementOfSeq
  <2>2. Passed(r.evaluations[i]) => i = r.assets
    BY BatchAssumption DEF Passed
  <2> QED BY <2>1, <2>2 DEF Evaluations
<1>5. /\ Len(r.evaluations) \in Nat /\ r.assets \in Nat
      /\ Len(r.evaluations) <= r.assets /\ r.assets <= Len(r.evaluations) + 1
  BY <1>2, <1>3
<1> QED BY <1>1, <1>2, <1>4, <1>5

(* The best of some evaluations is one of them, and no other scores higher. *)
LEMMA BestScores ==
    ASSUME NEW r \in Runs, NEW S, S \subseteq DOMAIN r.evaluations, S # {}
    PROVE  /\ BestOf(r, S) \in S
           /\ \A j \in S : r.evaluations[j].score <= r.evaluations[BestOf(r, S)].score
<1> DEFINE score(i) == r.evaluations[i].score
           Best(i) == \A j \in S : score(j) < score(i) \/ (score(j) = score(i) /\ i <= j)
           n == Len(r.evaluations)
           BestUpTo(i, m) == \A j \in S : j <= m =>
                               score(j) < score(i) \/ (score(j) = score(i) /\ i <= j)
           Has(m) == (\E j \in S : j <= m) => \E i \in S : i <= m /\ BestUpTo(i, m)
           T == {m \in Nat : Has(m)}
<1>1. /\ n \in Nat /\ S \subseteq 1..n
      /\ \A i \in S : score(i) \in Nat /\ i \in Nat /\ i <= n
  BY RunTyped
<1>2. \E i \in S : Best(i)
  <2>1. 0 \in T
    BY <1>1
  <2>2. ASSUME NEW m \in Nat, Has(m) PROVE Has(m + 1)
    <3>1. \A j \in S : j <= m + 1 => j <= m \/ j = m + 1
      BY <1>1
    <3>2. CASE m + 1 \notin S
      <4>1. \A j \in S : j <= m + 1 <=> j <= m
        BY <1>1, <3>1, <3>2
      <4> QED BY <2>2, <4>1
    <3>3. CASE m + 1 \in S /\ \E j \in S : j <= m
      <4>1. PICK i \in S : i <= m /\ BestUpTo(i, m)
        BY <2>2, <3>3
      <4>2. CASE score(m + 1) <= score(i)
        <5>1. BestUpTo(i, m + 1) /\ i <= m + 1
          BY <1>1, <3>1, <3>3, <4>1, <4>2
        <5> QED BY <5>1
      <4>3. CASE score(i) < score(m + 1)
        <5>1. ASSUME NEW j \in S, j <= m + 1, j # m + 1 PROVE score(j) < score(m + 1)
          <6>1. score(j) \in Nat /\ score(i) \in Nat /\ score(m + 1) \in Nat
            BY <1>1, <3>3
          <6>2. score(j) <= score(i)
            BY <3>1, <4>1, <5>1, <6>1
          <6> QED BY <4>3, <6>1, <6>2
        <5>2. BestUpTo(m + 1, m + 1) /\ m + 1 <= m + 1
          BY <5>1
        <5> QED BY <3>3, <5>2
      <4>4. score(i) \in Nat /\ score(m + 1) \in Nat
        BY <1>1, <3>3
      <4>5. score(m + 1) <= score(i) \/ score(i) < score(m + 1)
        BY <4>4
      <4> QED BY <4>2, <4>3, <4>5
    <3>4. CASE m + 1 \in S /\ ~\E j \in S : j <= m
      <4>1. BestUpTo(m + 1, m + 1) /\ m + 1 <= m + 1
        BY <1>1, <3>1, <3>4
      <4> QED BY <3>4, <4>1
    <3> QED BY <3>2, <3>3, <3>4
  <2> HIDE DEF Has
  <2>3. T \subseteq Nat /\ \A m \in T : m + 1 \in T
    BY <2>2
  <2>4. T = Nat
    BY <2>1, <2>3, SetInduction
  <2>5. Has(n)
    BY <1>1, <2>4
  <2> QED BY <1>1, <2>5 DEF Has
<1>3. BestOf(r, S) = CHOOSE i \in S : Best(i)
  BY DEF BestOf
<1> HIDE DEF Best
<1>4. BestOf(r, S) \in S /\ Best(BestOf(r, S))
  BY <1>2, <1>3
<1> QED BY <1>1, <1>4 DEF Best

AssetsOf(x, f) == {<<x, f, c, i>> : c \in 1..8, i \in 1..10}

(* Without an evaluation the user is asked, or one iteration is all.        *)
Unevaluated(req) == req.unclear \/ req.iterations = 1

(* s reports the best of the evaluations in seen.                           *)
ReportsBest(s, seen) ==
    IF seen = {} THEN s.best = None /\ s.score = -1 /\ s.compliant = FALSE
    ELSE \E o \in seen : /\ s.best = o.asset /\ s.score = o.score
                         /\ s.compliant = o.compliant
                         /\ \A other \in seen : ~Better(other, o)

StatusOf(assets, seen) ==
    IF assets = <<>> THEN "waiting_for_user"
    ELSE IF \E o \in seen : Passed(o) THEN "completed" ELSE "aborted"

(* The evaluations in a trace list issues.                                  *)
TraceTyped(trace) ==
    /\ IsSeq(trace)
    /\ \A e \in ToSet(trace) : IsEvaluation(e) => e.issues \in Seq(Issues)

(* res is what execution x makes of format f for the request.               *)
FormatResult(res, x, f, req) ==
    /\ IsSeq(res.assets) /\ ToSet(res.assets) \subseteq AssetsOf(x, f)
    /\ res.assets = <<>> <=> req.unclear
    /\ IsSeq(res.observations)
    /\ \A o \in ToSet(res.observations) :
         o.asset \in ToSet(res.assets) /\ o.score \in Nat /\ o.compliant \in BOOLEAN
    /\ ToSet(res.observations) = {} <=> Unevaluated(req)
    /\ ReportsBest(res, ToSet(res.observations))
    /\ res.status = StatusOf(res.assets, ToSet(res.observations))
    /\ TraceTyped(res.trace)

RequestOK(q) ==
    /\ q.formats \in 1..4 /\ q.candidates \in 1..8 /\ q.iterations \in 1..20
    /\ q.parallel \in BOOLEAN /\ q.review \in BOOLEAN /\ q.unclear \in BOOLEAN

LEMMA AtMostTen ==
    ASSUME NEW a \in Nat, NEW n \in Nat, a <= n + 1, NEW m \in 1..20, a + n <= m
    PROVE  a \in 0..10
OBVIOUS

(* An evaluation that is made and one that passes can be told from a run.   *)
LEMMA RunForRequest ==
    ASSUME NEW req, RequestOK(req), NEW r \in RunsFor(req)
    PROVE  /\ r \in Runs
           /\ r.assets \in 0..10
           /\ r.assets = 0 <=> req.unclear
           /\ Len(r.evaluations) = 0 <=> Unevaluated(req)
<1>1. r \in Runs /\ IF req.unclear THEN r.assets = 0
                    ELSE /\ r.assets > 0
                         /\ r.assets + Len(r.evaluations) <= req.iterations
                         /\ RunStatus(r) = "aborted" =>
                              \/ r.assets + Len(r.evaluations) = req.iterations
                              \/ Len(r.evaluations) >= 3
  <2>1. Stagnates(r, r.assets) => Len(r.evaluations) >= 3
    BY RunTyped DEF RunsFor, Stagnates
  <2> QED BY <2>1 DEF RunsFor
<1>2. /\ Len(r.evaluations) \in Nat /\ r.assets \in Nat
      /\ Len(r.evaluations) <= r.assets /\ r.assets <= Len(r.evaluations) + 1
      /\ r.evaluations \in Seq(Evaluations)
  BY <1>1, RunTyped
<1>3. CASE req.unclear
  BY <1>1, <1>2, <1>3 DEF Unevaluated, RequestOK
<1>4. CASE ~req.unclear
  <2>1. ASSUME Len(r.evaluations) = 0 PROVE req.iterations = 1
    <3>1. r.evaluations = <<>>
      BY <1>2, <2>1, EmptySeq
    <3>2. RunStatus(r) = "aborted"
      BY <1>1, <1>2, <1>4, <3>1 DEF RunStatus
    <3> QED BY <1>1, <1>2, <1>4, <2>1, <3>2
  <2>2. r.assets \in 0..10 /\ req.iterations \in 1..20
    <3>1. req.iterations \in 1..20 /\ r.assets + Len(r.evaluations) <= req.iterations
      BY <1>1, <1>4 DEF RequestOK
    <3>2. r.assets \in Nat /\ Len(r.evaluations) \in Nat /\ r.assets <= Len(r.evaluations) + 1
      BY <1>2
    <3> QED BY <3>1, <3>2, AtMostTen
  <2>3. r.assets > 0 /\ req.iterations = 1 => Len(r.evaluations) = 0
    BY <1>1, <1>2, <1>4, <2>2
  <2> QED BY <1>1, <1>4, <2>1, <2>2, <2>3 DEF Unevaluated
<1> QED BY <1>3, <1>4

IsResultOf(res, r, f, c) == res = RunResult(r, f, c)

(* What a run leaves: its assets, and an observation for each evaluation.   *)
RunFields(res, r, f, c) ==
    /\ IsSeq(res.assets) /\ ToSet(res.assets) = {<<execution, f, c, i>> : i \in 1..r.assets}
    /\ Len(res.assets) = r.assets
    /\ IsSeq(res.observations) /\ Len(res.observations) = Len(r.evaluations)
    /\ res.trace = res.observations
    /\ ToSet(res.observations) = {res.observations[i] : i \in DOMAIN r.evaluations}
    /\ \A i \in DOMAIN r.evaluations :
         /\ res.observations[i].event = "observation"
         /\ res.observations[i].asset = <<execution, f, c, i>>
         /\ res.observations[i].score = r.evaluations[i].score
         /\ res.observations[i].compliant = r.evaluations[i].compliant
         /\ res.observations[i].issues = r.evaluations[i].issues
    /\ res.status = RunStatus(r)
    /\ DOMAIN res = {"status", "assets", "observations", "trace", "best", "score", "compliant"}

LEMMA RunResultFields ==
    ASSUME NEW r \in Runs, NEW f \in 1..4, NEW c \in 1..8,
           NEW res, IsResultOf(res, r, f, c)
    PROVE  RunFields(res, r, f, c)
<1> DEFINE n == Len(r.evaluations)
           seen == [i \in 1..n |->
                        [event     |-> "observation",
                         asset     |-> <<execution, f, c, i>>,
                         score     |-> r.evaluations[i].score,
                         compliant |-> r.evaluations[i].compliant,
                         issues    |-> r.evaluations[i].issues,
                         actions   |-> RepairActions(r.evaluations[i].issues, strategies)]]
           assets == [i \in 1..r.assets |-> <<execution, f, c, i>>]
<1>1. n \in Nat /\ r.assets \in Nat /\ DOMAIN r.evaluations = 1..n
  BY RunTyped
<1>2. res.assets = assets /\ res.observations = seen /\ res.trace = seen
      /\ res.status = RunStatus(r)
      /\ DOMAIN res = {"status", "assets", "observations", "trace", "best", "score",
                       "compliant"}
  BY <1>1 DEF RunResult, IsResultOf
<1>3. IsSeq(assets) /\ Len(assets) = r.assets /\ DOMAIN assets = 1..r.assets
  BY <1>1, GivenByElements
<1>4. IsSeq(seen) /\ Len(seen) = n /\ DOMAIN seen = 1..n
  BY <1>1, GivenByElements
<1>5. \A i \in 1..n :
        /\ seen[i].event = "observation" /\ seen[i].asset = <<execution, f, c, i>>
        /\ seen[i].score = r.evaluations[i].score
        /\ seen[i].compliant = r.evaluations[i].compliant
        /\ seen[i].issues = r.evaluations[i].issues
  OBVIOUS
<1>6. ToSet(assets) = {<<execution, f, c, i>> : i \in 1..r.assets}
  BY <1>3 DEF ToSet
<1>7. ToSet(seen) = {seen[i] : i \in DOMAIN r.evaluations}
  BY <1>1, <1>4 DEF ToSet
<1> HIDE DEF seen, assets
<1> QED BY <1>1, <1>2, <1>3, <1>4, <1>5, <1>6, <1>7 DEF RunFields

(* It reports the best evaluation, compliance first.                        *)
LEMMA RunReportsBest ==
    ASSUME NEW r \in Runs, NEW f \in 1..4, NEW c \in 1..8,
           NEW res, IsResultOf(res, r, f, c)
    PROVE  ReportsBest(res, ToSet(res.observations))
<1> DEFINE seen == ToSet(res.observations)
           evaluated == DOMAIN r.evaluations
           clean == {i \in evaluated : r.evaluations[i].compliant}
           compliant == BestOf(r, clean)
           best == IF compliant # 0 THEN compliant ELSE BestOf(r, evaluated)
<1>1. /\ seen = {res.observations[i] : i \in evaluated}
      /\ \A i \in evaluated :
           /\ res.observations[i].asset = <<execution, f, c, i>>
           /\ res.observations[i].score = r.evaluations[i].score
           /\ res.observations[i].compliant = r.evaluations[i].compliant
  <2>1. RunFields(res, r, f, c)
    BY RunResultFields
  <2> QED BY <2>1 DEF RunFields
<1>2. /\ res.best = IF best = 0 THEN None ELSE <<execution, f, c, best>>
      /\ res.score = IF best = 0 THEN -1 ELSE r.evaluations[best].score
      /\ res.compliant = (compliant # 0)
  BY DEF RunResult, IsResultOf
<1>3. /\ evaluated = 1..Len(r.evaluations) /\ Len(r.evaluations) \in Nat
      /\ \A i \in evaluated : r.evaluations[i].score \in Nat /\ r.evaluations[i].compliant \in BOOLEAN
  BY RunTyped
<1>4. CASE evaluated = {}
  <2>1. clean = {} /\ compliant = 0 /\ best = 0 /\ seen = {}
    BY <1>1, <1>4 DEF BestOf
  <2> QED BY <1>2, <2>1 DEF ReportsBest
<1>5. CASE evaluated # {}
  <2>1. /\ best \in evaluated /\ best # 0
        /\ res.compliant = r.evaluations[best].compliant
        /\ \A j \in evaluated :
             LET e == r.evaluations[j] b == r.evaluations[best] IN
             ~(e.compliant /\ ~b.compliant) /\ ~(e.compliant = b.compliant /\ e.score > b.score)
    <3>1. CASE clean # {}
      <4>1. /\ compliant \in clean
            /\ \A j \in clean : r.evaluations[j].score <= r.evaluations[compliant].score
        BY <3>1, BestScores
      <4>2. compliant # 0 /\ best = compliant
        BY <1>3, <4>1
      <4>3. \A j \in evaluated : r.evaluations[j].compliant => j \in clean
        OBVIOUS
      <4>4. best \in evaluated /\ r.evaluations[best].compliant
        BY <4>1, <4>2
      <4>5. res.compliant = TRUE
        BY <1>2, <4>2
      <4> HIDE DEF best, compliant, clean
      <4>6. ASSUME NEW j \in evaluated
            PROVE  LET e == r.evaluations[j] b == r.evaluations[best] IN
                   ~(e.compliant /\ ~b.compliant) /\ ~(e.compliant = b.compliant /\ e.score > b.score)
        <5>1. r.evaluations[best].compliant = TRUE
          BY <1>3, <4>4
        <5>2. CASE r.evaluations[j].compliant
          <6>1. r.evaluations[j].score <= r.evaluations[best].score
            BY <4>1, <4>2, <4>3, <5>2
          <6>2. r.evaluations[j].score \in Nat /\ r.evaluations[best].score \in Nat
            BY <1>3, <4>4
          <6>3. ~(r.evaluations[j].score > r.evaluations[best].score)
            BY <6>1, <6>2
          <6> QED BY <4>4, <6>3
        <5>3. CASE ~r.evaluations[j].compliant
          BY <4>4, <5>1, <5>3
        <5> QED BY <5>2, <5>3
      <4>7. best # 0
        BY <1>3, <4>4
      <4> QED BY <4>4, <4>5, <4>6, <4>7, <1>3
    <3>2. CASE clean = {}
      <4>1. compliant = 0 /\ best = BestOf(r, evaluated)
        BY <3>2 DEF BestOf
      <4>2. /\ best \in evaluated
            /\ \A j \in evaluated : r.evaluations[j].score <= r.evaluations[best].score
        BY <1>5, <4>1, BestScores
      <4>3. \A j \in evaluated : ~r.evaluations[j].compliant
        BY <3>2
      <4> HIDE DEF best, compliant
      <4> QED BY <1>2, <1>3, <4>1, <4>2, <4>3
    <3> QED BY <3>1, <3>2
  <2> HIDE DEF best, compliant, clean
  <2> DEFINE o == res.observations[best]
  <2>2. /\ o \in seen /\ o.asset = <<execution, f, c, best>>
        /\ o.score = r.evaluations[best].score /\ o.compliant = r.evaluations[best].compliant
    BY <1>1, <2>1
  <2>3. ASSUME NEW other \in seen PROVE ~Better(other, o)
    <3>1. PICK j \in evaluated : other = res.observations[j]
      BY <1>1
    <3>2. other.score = r.evaluations[j].score /\ other.compliant = r.evaluations[j].compliant
      BY <1>1, <3>1
    <3> QED BY <2>1, <2>2, <3>2 DEF Better
  <2>4. res.best = o.asset /\ res.score = o.score /\ res.compliant = o.compliant
    BY <1>2, <2>1, <2>2
  <2>5. seen # {}
    BY <2>2
  <2> HIDE DEF o, seen
  <2>6. ReportsBest(res, seen)
    BY <2>2, <2>3, <2>4, <2>5 DEF ReportsBest
  <2> QED BY <2>6 DEF seen
<1> QED BY <1>4, <1>5

LEMMA RunIsFormatResult ==
    ASSUME NEW req, RequestOK(req), NEW r \in RunsFor(req), NEW f \in 1..4, NEW c \in 1..8
    PROVE  FormatResult(RunResult(r, f, c), execution, f, req)
<1> PICK res : IsResultOf(res, r, f, c)
  BY DEF IsResultOf
<1> DEFINE seen == ToSet(res.observations)
<1>0. /\ r \in Runs /\ r.assets \in 0..10
      /\ (r.assets = 0 <=> req.unclear) /\ (Len(r.evaluations) = 0 <=> Unevaluated(req))
  BY RunForRequest
<1>1. /\ Len(r.evaluations) \in Nat /\ r.assets \in 0..10
      /\ DOMAIN r.evaluations = 1..Len(r.evaluations)
      /\ Len(r.evaluations) <= r.assets
      /\ r.evaluations \in Seq(Evaluations)
      /\ \A i \in DOMAIN r.evaluations :
           /\ r.evaluations[i].score \in Nat /\ r.evaluations[i].compliant \in BOOLEAN
           /\ r.evaluations[i].issues \in Seq(Issues)
           /\ Passed(r.evaluations[i]) => i = r.assets
  BY <1>0, RunTyped
<1>2. /\ IsSeq(res.assets) /\ ToSet(res.assets) = {<<execution, f, c, i>> : i \in 1..r.assets}
      /\ Len(res.assets) = r.assets
      /\ IsSeq(res.observations) /\ Len(res.observations) = Len(r.evaluations)
      /\ seen = {res.observations[i] : i \in DOMAIN r.evaluations}
      /\ \A i \in DOMAIN r.evaluations :
           /\ res.observations[i].asset = <<execution, f, c, i>>
           /\ res.observations[i].score = r.evaluations[i].score
           /\ res.observations[i].compliant = r.evaluations[i].compliant
           /\ res.observations[i].issues = r.evaluations[i].issues
      /\ res.status = RunStatus(r) /\ res.trace = res.observations
  <2>1. RunFields(res, r, f, c)
    BY <1>0, RunResultFields
  <2> QED BY <2>1 DEF RunFields
<1>3. ReportsBest(res, seen)
  BY <1>0, RunReportsBest
<1>4. ToSet(res.assets) \subseteq AssetsOf(execution, f)
  <2>1. \A i \in 1..r.assets : i \in 1..10
    BY <1>1
  <2> QED BY <1>2, <2>1 DEF AssetsOf
<1>5. res.assets = <<>> <=> r.assets = 0
  BY <1>2, NoElements, EmptySeq DEF IsSeq
<1>6. ASSUME NEW o \in seen
      PROVE  o.asset \in ToSet(res.assets) /\ o.score \in Nat /\ o.compliant \in BOOLEAN
  <2>1. PICK i \in DOMAIN r.evaluations : o = res.observations[i]
    BY <1>2
  <2>2. PICK n \in Nat, m \in 0..10 :
          n = Len(r.evaluations) /\ m = r.assets /\ n <= m /\ DOMAIN r.evaluations = 1..n
    BY <1>1
  <2>3. i \in 1..m
    <3>1. i \in 1..n
      BY <2>2
    <3>2. n <= m
      BY <2>2
    <3> QED BY <3>1, <3>2
  <2>4. o.asset = <<execution, f, c, i>>
    BY <1>2, <2>1
  <2>5. o.asset \in ToSet(res.assets)
    BY <1>2, <2>2, <2>3, <2>4
  <2> QED BY <1>1, <1>2, <2>1, <2>5
<1>7. seen = {} <=> Len(r.evaluations) = 0
  <2>1. DOMAIN r.evaluations = {} <=> Len(r.evaluations) = 0
    <3>1. Len(r.evaluations) # 0 => 1 \in DOMAIN r.evaluations
      BY <1>1
    <3> QED BY <1>1, <3>1
  <2>2. seen = {res.observations[i] : i \in DOMAIN r.evaluations}
    BY <1>2
  <2> HIDE DEF seen
  <2> QED BY <2>1, <2>2
<1>8. RunStatus(r) = StatusOf(res.assets, seen)
  <2>1. r.evaluations # <<>> <=> Len(r.evaluations) # 0
    BY <1>1, EmptySeq
  <2>2. (\E o \in seen : Passed(o)) <=> (\E i \in DOMAIN r.evaluations : Passed(r.evaluations[i]))
    BY <1>2 DEF Passed
  <2>3. (\E i \in DOMAIN r.evaluations : Passed(r.evaluations[i]))
          <=> Len(r.evaluations) # 0 /\ Passed(r.evaluations[Len(r.evaluations)])
    BY <1>1
  <2> QED BY <1>5, <2>1, <2>2, <2>3 DEF RunStatus, StatusOf, Last
<1>9. TraceTyped(res.trace)
  <2>1. PICK tr, n : tr = res.trace /\ n = Len(r.evaluations)
    OBVIOUS
  <2>2. tr = res.observations /\ IsSeq(tr) /\ DOMAIN r.evaluations = 1..n
    BY <1>1, <1>2, <2>1
  <2>3. ToSet(tr) = {tr[i] : i \in 1..n}
    BY <1>2, <2>2
  <2>4. \A i \in 1..n : tr[i].issues = r.evaluations[i].issues
    BY <1>2, <2>2
  <2>5. \A i \in 1..n : r.evaluations[i].issues \in Seq(Issues)
    BY <1>1, <2>2
  <2> QED BY <2>1, <2>2, <2>3, <2>4, <2>5 DEF TraceTyped
<1> HIDE DEF seen
<1>10. FormatResult(res, execution, f, req)
  BY <1>0, <1>2, <1>3, <1>4, <1>5, <1>6, <1>7, <1>8, <1>9 DEF FormatResult, seen
<1> QED BY <1>10 DEF IsResultOf
-----------------------------------------------------------------------------
(* Candidates and formats.                                                  *)

LEMMA BoundedInduction ==
    ASSUME NEW n \in Nat, NEW S, 1 \in S, \A m \in 1..(n - 1) : m \in S => m + 1 \in S
    PROVE  1..n \subseteq S
<1> SUFFICES ASSUME (1..n) \ S # {} PROVE FALSE
  OBVIOUS
<1>1. PICK m \in (1..n) \ S : \A y \in (1..n) \ S : m <= y
  <2> DEFINE T == (1..n) \ S
  <2>1. T \subseteq Nat /\ T # {}
    OBVIOUS
  <2> HIDE DEF T
  <2>2. Min(T) \in T /\ \A y \in T : Min(T) <= y
    BY <2>1, MinOfNumbers
  <2> QED BY <2>2 DEF T
<1>2. m # 1 /\ m \in Nat
  OBVIOUS
<1>3. m - 1 \in 1..(n - 1) /\ m - 1 \in 1..n /\ ~(m <= m - 1) /\ (m - 1) + 1 = m
  BY <1>2
<1>4. m - 1 \in S
  BY <1>1, <1>3
<1> QED BY <1>3, <1>4

LEMMA UpToNext ==
    ASSUME NEW m \in Nat, NEW b \in 1..(m + 1)
    PROVE  b \in 1..m \/ b = m + 1
OBVIOUS

(* AtLeast is a total preorder, so that some candidate is at the top of it. *)
LEMMA SelectedIsBest ==
    ASSUME NEW n \in Nat, n > 0, NEW results, DOMAIN results = 1..n,
           \A c \in 1..n : results[c].score \in Int /\ results[c].compliant \in BOOLEAN
    PROVE  /\ Selected(results) \in 1..n
           /\ \A b \in 1..n : AtLeast(results[Selected(results)], results[b])
<1> DEFINE Top(c, m) == \A b \in 1..m : AtLeast(results[c], results[b])
           S == {m \in 1..n : \E c \in 1..m : Top(c, m)}
<1>1. 1 \in S
  <2>1. Top(1, 1)
    BY DEF AtLeast
  <2> QED BY <2>1
<1>2. ASSUME NEW m \in 1..(n - 1), m \in S PROVE m + 1 \in S
  <2>1. PICK c \in 1..m : Top(c, m)
    BY <1>2
  <2>2. m + 1 \in 1..n /\ c \in 1..n /\ c \in 1..(m + 1) /\ m + 1 \in 1..(m + 1)
    OBVIOUS
  <2>3. \A b \in 1..(m + 1) : b \in 1..m \/ b = m + 1
    BY UpToNext
  <2>4. AtLeast(results[m + 1], results[m + 1])
    BY <2>2 DEF AtLeast
  <2>5. ASSUME AtLeast(results[c], results[m + 1]) PROVE Top(c, m + 1)
    BY <2>1, <2>3, <2>5
  <2>6. ASSUME ~AtLeast(results[c], results[m + 1]) PROVE Top(m + 1, m + 1)
    <3>1. ASSUME NEW b \in 1..m PROVE AtLeast(results[m + 1], results[b])
      <4>1. AtLeast(results[c], results[b]) /\ b \in 1..n
        BY <2>1
      <4> QED BY <2>2, <2>6, <4>1 DEF AtLeast
    <3> QED BY <2>3, <2>4, <3>1
  <2> HIDE DEF Top
  <2>7. \E d \in 1..(m + 1) : Top(d, m + 1)
    BY <2>2, <2>5, <2>6
  <2> QED BY <2>2, <2>7
<1> HIDE DEF S
<1>3. 1..n \subseteq S
  BY <1>1, <1>2, BoundedInduction
<1>4. n \in S
  BY <1>3
<1>5. \E c \in 1..n : Top(c, n)
  BY <1>4 DEF S
<1> DEFINE top == {c \in DOMAIN results : \A b \in DOMAIN results : AtLeast(results[c], results[b])}
<1>6. top \subseteq Nat /\ top # {}
  <2>1. top \subseteq 1..n
    OBVIOUS
  <2>2. PICK c \in 1..n : Top(c, n)
    BY <1>5
  <2>3. c \in top
    BY <2>2
  <2> HIDE DEF top
  <2>4. 1..n \subseteq Nat
    OBVIOUS
  <2> QED BY <2>1, <2>3, <2>4, Zenon
<1>7. Min(top) \in top
  BY <1>6, MinOfNumbers
<1>8. Selected(results) = Min(top)
  BY DEF Selected
<1> QED BY <1>7, <1>8

(* s holds what the n sequences ss hold.                                    *)
Listed(ss, n) == ss = [i \in 1..n |-> ss[i]]

HoldsAll(s, n, ss) ==
    /\ IsSeq(s)
    /\ \A i \in 1..n : ToSet(ss[i]) \subseteq ToSet(s)
    /\ \A e \in ToSet(s) : \E i \in 1..n : e \in ToSet(ss[i])

LEMMA FlattenedParts ==
    ASSUME NEW n \in Nat, n > 0, NEW ss, Listed(ss, n),
           \A i \in 1..n : IsSeq(ss[i])
    PROVE  HoldsAll(FlattenSeq(ss), n, ss)
<1>1. /\ IsSeq(FlattenSeq(ss))
      /\ ToSet(FlattenSeq(ss)) = UNION {ToSet(ss[i]) : i \in 1..n}
  BY FlattenedElements DEF Listed
<1> QED BY <1>1 DEF HoldsAll
(* A best that is reported is an asset, and its score a number.             *)
LEMMA ReportedBest ==
    ASSUME NEW s, NEW seen, ReportsBest(s, seen),
           \A o \in seen : o.score \in Nat /\ o.compliant \in BOOLEAN /\ o.asset # None
    PROVE  /\ s.score \in Int /\ s.compliant \in BOOLEAN
           /\ s.best = None <=> seen = {}
           /\ s.best # None => \E o \in seen : s.best = o.asset
<1>1. CASE seen = {}
  <2>1. s.best = None /\ s.score = -1 /\ s.compliant = FALSE
    BY <1>1, ZenonT(20) DEF ReportsBest
  <2>2. -1 \in Int /\ FALSE \in BOOLEAN
    OBVIOUS
  <2>3. s.score \in Int
    BY <2>1, <2>2
  <2>4. s.compliant \in BOOLEAN
    BY <2>1, <2>2
  <2> QED BY <1>1, <2>1, <2>3, <2>4
<1>2. CASE seen # {}
  <2>1. PICK o \in seen : s.best = o.asset /\ s.score = o.score /\ s.compliant = o.compliant
    BY <1>2 DEF ReportsBest
  <2> QED BY <1>2, <2>1
<1> QED BY <1>1, <1>2

LEMMA AssetIsSome ==
    ASSUME NEW x, NEW f, NEW a \in AssetsOf(x, f)
    PROVE  /\ a # None /\ a[1] = x /\ a[2] = f
           /\ a[3] \in 1..8 /\ a[4] \in 1..10
BY DEF AssetsOf, None

LEMMA FormatResultTyped ==
    ASSUME NEW res, NEW x, NEW f, NEW req, FormatResult(res, x, f, req)
    PROVE  /\ res.score \in Int /\ res.compliant \in BOOLEAN
           /\ \A o \in ToSet(res.observations) :
                /\ o.asset \in ToSet(res.assets) /\ o.asset \in AssetsOf(x, f)
                /\ o.asset # None /\ o.asset[2] = f
                /\ o.score \in Nat /\ o.compliant \in BOOLEAN
<1>1. \A o \in ToSet(res.observations) :
        /\ o.asset \in ToSet(res.assets) /\ o.asset \in AssetsOf(x, f)
        /\ o.score \in Nat /\ o.compliant \in BOOLEAN
  BY DEF FormatResult
<1>2. \A o \in ToSet(res.observations) : o.asset # None /\ o.asset[2] = f
  BY <1>1, AssetIsSome
<1>3. ReportsBest(res, ToSet(res.observations))
  BY DEF FormatResult
<1>4. res.score \in Int /\ res.compliant \in BOOLEAN
  BY <1>1, <1>2, <1>3, ReportedBest
<1> QED BY <1>1, <1>2, <1>4

(* If the best of candidate k is at the top, none of all beats it.          *)
LEMMA BestOfCandidates ==
    ASSUME NEW res, NEW seen, ReportsBest(res, seen), seen # {},
           \A o \in seen : o.score \in Nat /\ o.compliant \in BOOLEAN,
           NEW top, AtLeast(top, res), NEW b, top.score = b.score, top.compliant = b.compliant,
           b.score \in Nat, b.compliant \in BOOLEAN
    PROVE  \A o \in seen : ~Better(o, b)
<1>1. PICK o \in seen : /\ res.score = o.score /\ res.compliant = o.compliant
                        /\ \A other \in seen : ~Better(other, o)
  BY DEF ReportsBest
<1>2. /\ ~(o.compliant /\ ~b.compliant)
      /\ o.compliant = b.compliant => o.score <= b.score
  BY <1>1 DEF AtLeast
<1> SUFFICES ASSUME NEW other \in seen PROVE ~Better(other, b)
  OBVIOUS
<1>3. ~Better(other, o)
  BY <1>1
<1> QED BY <1>2, <1>3 DEF Better

ResultFields == {"status", "assets", "observations", "trace", "best", "score", "compliant"}

IsSelected(k, results) == k = Selected(results)

(* Selection over candidates makes one result of the format.                *)
LEMMA SelectedIsFormatResult ==
    ASSUME RequestOK(request), NEW x, NEW f, NEW results,
           Listed(results, request.candidates),
           \A c \in 1..request.candidates :
             FormatResult(results[c], x, f, request) /\ DOMAIN results[c] = ResultFields
    PROVE  FormatResult(SelectCandidate(results), x, f, request)
<1> PICK n : n \in 1..8 /\ n = request.candidates
  BY DEF RequestOK
<1>1. CASE n = 1
  BY <1>1 DEF SelectCandidate
<1>2. CASE n # 1
  <2>0. DOMAIN results = 1..n
    BY DEF Listed
  <2>1. PICK k \in 1..n : IsSelected(k, results) /\ \A b \in 1..n : AtLeast(results[k], results[b])
    <3>1. \A c \in 1..n : results[c].score \in Int /\ results[c].compliant \in BOOLEAN
      BY FormatResultTyped
    <3>2. n \in Nat /\ n > 0
      OBVIOUS
    <3>3. /\ Selected(results) \in 1..n
          /\ \A b \in 1..n : AtLeast(results[Selected(results)], results[b])
      BY <2>0, <3>1, <3>2, SelectedIsBest
    <3> QED BY <3>3 DEF IsSelected
  <2> DEFINE assetsOf == [c \in 1..n |-> results[c].assets]
             seenBy == [c \in 1..n |-> results[c].observations]
             assets == FlattenSeq(assetsOf)
             observations == FlattenSeq(seenBy)
             chosen == results[k]
             res == SelectCandidate(results)
  <2>2. /\ res.assets = assets /\ res.observations = observations
        /\ res.trace = <<BatchSelected>> \o chosen.trace
        /\ res.best = chosen.best /\ res.score = chosen.score
        /\ res.compliant = chosen.compliant /\ res.status = chosen.status
    <3>1. DOMAIN results = 1..n /\ DOMAIN chosen = ResultFields
      BY <2>0
    <3>2. res = [chosen EXCEPT !.assets = assets, !.observations = observations,
                               !.trace = <<BatchSelected>> \o @]
      BY <1>2, <2>1, <3>1 DEF SelectCandidate, IsSelected
    <3> HIDE DEF res, assets, observations, chosen
    <3> QED BY <3>1, <3>2 DEF ResultFields
  <2>3. /\ IsSeq(assets)
        /\ \A i \in 1..n : ToSet(results[i].assets) \subseteq ToSet(assets)
        /\ \A e \in ToSet(assets) : \E i \in 1..n : e \in ToSet(results[i].assets)
    <3>1. \A i \in 1..n : IsSeq(assetsOf[i])
      BY DEF FormatResult
    <3>2. Listed(assetsOf, n) /\ n \in Nat /\ n > 0
      BY DEF Listed
    <3>3. \A i \in 1..n : assetsOf[i] = results[i].assets
      OBVIOUS
    <3> HIDE DEF assetsOf
    <3>4. HoldsAll(FlattenSeq(assetsOf), n, assetsOf)
      BY <3>1, <3>2, FlattenedParts
    <3> QED BY <3>3, <3>4 DEF HoldsAll
  <2>4. /\ IsSeq(observations)
        /\ \A i \in 1..n : ToSet(results[i].observations) \subseteq ToSet(observations)
        /\ \A e \in ToSet(observations) : \E i \in 1..n : e \in ToSet(results[i].observations)
    <3>1. \A i \in 1..n : IsSeq(seenBy[i])
      BY DEF FormatResult
    <3>2. Listed(seenBy, n) /\ n \in Nat /\ n > 0
      BY DEF Listed
    <3>3. \A i \in 1..n : seenBy[i] = results[i].observations
      OBVIOUS
    <3> HIDE DEF seenBy
    <3>4. HoldsAll(FlattenSeq(seenBy), n, seenBy)
      BY <3>1, <3>2, FlattenedParts
    <3> QED BY <3>3, <3>4 DEF HoldsAll
  <2> HIDE DEF assets, observations, res, assetsOf, seenBy, chosen
  <2>5. \A i \in 1..n : FormatResult(results[i], x, f, request)
    OBVIOUS
  <2>6. ToSet(assets) \subseteq AssetsOf(x, f)
    BY <2>3, <2>5 DEF FormatResult
  <2>7. assets = <<>> <=> request.unclear
    <3>1. \A i \in 1..n : ToSet(results[i].assets) = {} <=> request.unclear
      BY <2>5, NoElements DEF FormatResult
    <3>2. ToSet(assets) = {} <=> request.unclear
      BY <2>1, <2>3, <3>1
    <3> QED BY <2>3, <3>2, NoElements
  <2>8. \A o \in ToSet(observations) :
          o.asset \in ToSet(assets) /\ o.score \in Nat /\ o.compliant \in BOOLEAN
    BY <2>3, <2>4, <2>5 DEF FormatResult
  <2>9. ToSet(observations) = {} <=> Unevaluated(request)
    <3>1. \A i \in 1..n : ToSet(results[i].observations) = {} <=> Unevaluated(request)
      BY <2>5 DEF FormatResult
    <3> QED BY <2>1, <2>4, <3>1
  <2>10. /\ ReportsBest(chosen, ToSet(observations))
         /\ (\E o \in ToSet(observations) : Passed(o))
              <=> (\E o \in ToSet(chosen.observations) : Passed(o))
    <3>1. FormatResult(chosen, x, f, request)
      BY <2>1, <2>5 DEF chosen
    <3>2. ReportsBest(chosen, ToSet(chosen.observations))
          /\ (ToSet(chosen.observations) = {} <=> Unevaluated(request))
      BY <3>1 DEF FormatResult
    <3>3. ToSet(chosen.observations) \subseteq ToSet(observations)
      BY <2>1, <2>4 DEF chosen
    <3>4. CASE Unevaluated(request)
      BY <2>9, <3>2, <3>4
    <3>5. CASE ~Unevaluated(request)
      <4>1. PICK b \in ToSet(chosen.observations) :
              /\ chosen.best = b.asset /\ chosen.score = b.score
              /\ chosen.compliant = b.compliant
        BY <3>2, <3>5 DEF ReportsBest
      <4>2. b.score \in Nat /\ b.compliant \in BOOLEAN
        BY <3>1, <4>1, FormatResultTyped
      <4>3. ASSUME NEW o \in ToSet(observations) PROVE ~Better(o, b)
        <5>1. PICK i \in 1..n : o \in ToSet(results[i].observations)
          BY <2>4
        <5>2. ReportsBest(results[i], ToSet(results[i].observations))
              /\ AtLeast(chosen, results[i])
          BY <2>1, <2>5 DEF FormatResult, chosen
        <5>3. \A u \in ToSet(results[i].observations) : u.score \in Nat /\ u.compliant \in BOOLEAN
          BY <2>5, FormatResultTyped
        <5> QED BY <4>1, <4>2, <5>1, <5>2, <5>3, BestOfCandidates
      <4>4. ReportsBest(chosen, ToSet(observations))
        BY <3>3, <4>1, <4>3 DEF ReportsBest
      <4>5. ASSUME NEW o \in ToSet(observations), Passed(o) PROVE Passed(b)
        <5>1. ~Better(o, b) /\ o.score \in Nat /\ o.compliant \in BOOLEAN
          BY <2>8, <4>3
        <5>2. o.compliant = TRUE /\ o.score >= Threshold /\ Threshold \in Nat
          BY <4>5, <5>1, BatchAssumption DEF Passed
        <5>3. b.compliant = TRUE /\ ~(o.score > b.score)
          BY <4>2, <5>1, <5>2 DEF Better
        <5> QED BY <4>2, <5>1, <5>2, <5>3 DEF Passed
      <4> QED BY <3>3, <4>1, <4>4, <4>5
    <3> QED BY <3>4, <3>5
  <2>11. ReportsBest(res, ToSet(observations))
    BY <2>2, <2>10 DEF ReportsBest
  <2>12. res.status = StatusOf(assets, ToSet(observations))
    <3>1. chosen.status = StatusOf(chosen.assets, ToSet(chosen.observations))
          /\ (chosen.assets = <<>> <=> request.unclear)
      BY <2>1, <2>5 DEF FormatResult, chosen
    <3> QED BY <2>2, <2>7, <2>10, <3>1 DEF StatusOf
  <2>13. TraceTyped(res.trace)
    <3>1. TraceTyped(chosen.trace)
      BY <2>1, <2>5 DEF FormatResult, chosen
    <3>2. <<BatchSelected>> \in Seq({BatchSelected}) /\ ToSet(<<BatchSelected>>) = {BatchSelected}
      BY DEF ToSet
    <3>3. ~IsEvaluation(BatchSelected)
      BY DEF IsEvaluation, BatchSelected
    <3>4. IsSeq(<<BatchSelected>>)
      BY <3>2, SeqIsSeq
    <3>5. /\ IsSeq(res.trace)
          /\ ToSet(res.trace) = {BatchSelected} \cup ToSet(chosen.trace)
      BY <2>2, <3>1, <3>2, <3>4, ConcatenatedElements DEF TraceTyped
    <3> QED BY <3>1, <3>3, <3>5 DEF TraceTyped
  <2>14. FormatResult(res, x, f, request)
    BY <2>2, <2>3, <2>4, <2>6, <2>7, <2>8, <2>9, <2>11, <2>12, <2>13 DEF FormatResult
  <2> QED BY <2>14 DEF res
<1> QED BY <1>1, <1>2
(* The evaluations of format f in a result.                                 *)
SeenOf(res, f) == {o \in ToSet(res.observations) : o.asset[2] = f}

FinalFields ==
    ResultFields \cup {"summaries", "signed", "credentials", "recorded", "taught"}

(* res is what execution x delivers for the request.                        *)
DeliveredBy(res, x, req) ==
    /\ DOMAIN res = FinalFields
    /\ IsSeq(res.assets) /\ (res.assets = <<>> <=> req.unclear)
    /\ \A a \in ToSet(res.assets) : \E f \in 1..4 : a \in AssetsOf(x, f)
    /\ \A o \in ToSet(res.observations) :
         o.asset \in ToSet(res.assets) /\ o.score \in Nat /\ o.compliant \in BOOLEAN
    /\ DOMAIN res.summaries = 1..req.formats
    /\ \A f \in 1..req.formats :
         /\ res.summaries[f] = Summary(res.summaries[f])
         /\ ReportsBest(res.summaries[f], SeenOf(res, f))
         /\ SeenOf(res, f) = {} <=> Unevaluated(req)
    /\ Summary(res) = res.summaries[1]
    /\ ToSet(res.observations) = {} <=> Unevaluated(req)
    /\ TraceTyped(res.trace)

FormatsListed(results, x, req) ==
    /\ Listed(results, req.formats)
    /\ \A f \in 1..req.formats : FormatResult(results[f], x, f, req)

LEMMA SummaryFields ==
    ASSUME NEW r
    PROVE  /\ Summary(r).best = r.best /\ Summary(r).score = r.score
           /\ Summary(r).compliant = r.compliant
           /\ Summary(Summary(r)) = Summary(r)
BY DEF Summary

(* Nothing was recorded of the result.                                      *)
Untouched(res) == res.credentials = "not_enabled" /\ ~res.recorded /\ ~res.taught

(* Joining the formats keeps what each of them delivers.                    *)
LEMMA JoinedIsDelivered ==
    ASSUME NEW req, RequestOK(req), NEW x, NEW results, FormatsListed(results, x, req)
    PROVE  LET res == JoinFormats(results) IN
           /\ DeliveredBy(res, x, req)
           /\ res.status = StatusOf(res.assets, SeenOf(res, 1))
           /\ res.signed = {} /\ Untouched(res)
<1> PICK n : n \in 1..4 /\ n = req.formats
  BY DEF RequestOK
<1> DEFINE assetsOf == [f \in 1..n |-> results[f].assets]
           seenBy == [f \in 1..n |-> results[f].observations]
           traces == [f \in 1..n |-> results[f].trace]
           assets == FlattenSeq(assetsOf)
           observations == FlattenSeq(seenBy)
           trace == FlattenSeq(traces)
           res == JoinFormats(results)
<1>1. DOMAIN results = 1..n /\ n \in Nat /\ n > 0 /\ 1 \in 1..n
      /\ \A f \in 1..n : FormatResult(results[f], x, f, req)
  <2>1. DOMAIN results = 1..n
    BY DEF FormatsListed, Listed
  <2>2. \A f \in 1..n : FormatResult(results[f], x, f, req)
    BY DEF FormatsListed
  <2> QED BY <2>1, <2>2
<1>2. /\ res.assets = assets /\ res.observations = observations /\ res.trace = trace
      /\ res.status = results[1].status /\ res.best = results[1].best
      /\ res.score = results[1].score /\ res.compliant = results[1].compliant
      /\ res.signed = {} /\ Untouched(res)
      /\ res.summaries = [f \in 1..n |-> Summary(results[f])]
      /\ DOMAIN res = FinalFields
  BY <1>1 DEF JoinFormats, Joined, FinalFields, ResultFields, Untouched
<1>3. /\ IsSeq(assets)
      /\ \A i \in 1..n : ToSet(results[i].assets) \subseteq ToSet(assets)
      /\ \A e \in ToSet(assets) : \E i \in 1..n : e \in ToSet(results[i].assets)
  <2>1. \A i \in 1..n : IsSeq(assetsOf[i]) /\ assetsOf[i] = results[i].assets
    BY <1>1 DEF FormatResult
  <2>2. Listed(assetsOf, n)
    BY DEF Listed
  <2> HIDE DEF assetsOf
  <2>3. HoldsAll(FlattenSeq(assetsOf), n, assetsOf)
    BY <1>1, <2>1, <2>2, FlattenedParts
  <2> QED BY <2>1, <2>3 DEF HoldsAll
<1>4. /\ \A i \in 1..n : ToSet(results[i].observations) \subseteq ToSet(observations)
      /\ \A e \in ToSet(observations) : \E i \in 1..n : e \in ToSet(results[i].observations)
  <2>1. \A i \in 1..n : IsSeq(seenBy[i]) /\ seenBy[i] = results[i].observations
    BY <1>1 DEF FormatResult
  <2>2. Listed(seenBy, n)
    BY DEF Listed
  <2> HIDE DEF seenBy
  <2>3. HoldsAll(FlattenSeq(seenBy), n, seenBy)
    BY <1>1, <2>1, <2>2, FlattenedParts
  <2> QED BY <2>1, <2>3 DEF HoldsAll
<1>5. TraceTyped(trace)
  <2>1. \A i \in 1..n : IsSeq(traces[i]) /\ TraceTyped(traces[i])
    BY <1>1 DEF FormatResult, TraceTyped
  <2>2. Listed(traces, n)
    BY DEF Listed
  <2> HIDE DEF traces
  <2>3. HoldsAll(trace, n, traces)
    BY <1>1, <2>1, <2>2, FlattenedParts
  <2> HIDE DEF trace
  <2> QED BY <2>1, <2>3 DEF HoldsAll, TraceTyped
<1> HIDE DEF assets, observations, trace, res, assetsOf, seenBy, traces
<1>6. \A a \in ToSet(assets) : \E f \in 1..4 : a \in AssetsOf(x, f)
  <2> SUFFICES ASSUME NEW a \in ToSet(assets) PROVE \E f \in 1..4 : a \in AssetsOf(x, f)
    OBVIOUS
  <2>1. PICK i \in 1..n : a \in ToSet(results[i].assets)
    BY <1>3
  <2>2. a \in AssetsOf(x, i) /\ i \in 1..4
    BY <1>1, <2>1 DEF FormatResult
  <2> QED BY <2>2
<1>7. \A o \in ToSet(observations) :
        o.asset \in ToSet(assets) /\ o.score \in Nat /\ o.compliant \in BOOLEAN
  BY <1>1, <1>3, <1>4 DEF FormatResult
<1>8. ASSUME NEW f \in 1..n PROVE SeenOf(res, f) = ToSet(results[f].observations)
  <2>1. ASSUME NEW i \in 1..n, NEW o \in ToSet(results[i].observations) PROVE o.asset[2] = i
    BY <1>1, FormatResultTyped
  <2>2. SeenOf(res, f) \subseteq ToSet(results[f].observations)
    BY <1>2, <1>4, <2>1 DEF SeenOf
  <2>3. ToSet(results[f].observations) \subseteq SeenOf(res, f)
    BY <1>2, <1>4, <2>1 DEF SeenOf
  <2> QED BY <2>2, <2>3
<1>9. ASSUME NEW f \in 1..n
      PROVE  /\ res.summaries[f] = Summary(res.summaries[f])
             /\ ReportsBest(res.summaries[f], SeenOf(res, f))
             /\ SeenOf(res, f) = {} <=> Unevaluated(req)
  <2>1. res.summaries[f] = Summary(results[f])
    BY <1>2
  <2>2. /\ ReportsBest(results[f], ToSet(results[f].observations))
        /\ ToSet(results[f].observations) = {} <=> Unevaluated(req)
    BY <1>1 DEF FormatResult
  <2>3. ReportsBest(Summary(results[f]), ToSet(results[f].observations))
    BY <2>2, SummaryFields DEF ReportsBest
  <2> QED BY <1>8, <2>1, <2>2, <2>3, SummaryFields
<1>10. Summary(res) = res.summaries[1]
  BY <1>1, <1>2 DEF Summary
<1>11. ToSet(observations) = {} <=> Unevaluated(req)
  <2>1. \A f \in 1..n : ToSet(results[f].observations) = {} <=> Unevaluated(req)
    BY <1>1 DEF FormatResult
  <2> QED BY <1>1, <1>4, <2>1
<1>15. assets = <<>> <=> req.unclear
  <2>1. \A i \in 1..n : ToSet(results[i].assets) = {} <=> req.unclear
    BY <1>1, NoElements DEF FormatResult
  <2>2. ToSet(assets) = {} <=> req.unclear
    BY <1>1, <1>3, <2>1
  <2> QED BY <1>3, <2>2, NoElements
<1>12. res.status = StatusOf(res.assets, SeenOf(res, 1))
  <2>1. /\ results[1].status = StatusOf(results[1].assets, ToSet(results[1].observations))
        /\ results[1].assets = <<>> <=> req.unclear
    BY <1>1 DEF FormatResult
  <2> QED BY <1>1, <1>2, <1>8, <1>15, <2>1 DEF StatusOf
<1>13. DOMAIN res.summaries = 1..req.formats
  BY <1>2
<1>14. DeliveredBy(res, x, req)
  BY <1>2, <1>3, <1>5, <1>6, <1>7, <1>9, <1>10, <1>11, <1>13, <1>15 DEF DeliveredBy
<1> QED BY <1>2, <1>12, <1>14 DEF res

(* A result with another status, signature or credentials.                  *)
SameDelivery(r, res) ==
    /\ DOMAIN r = FinalFields
    /\ r.assets = res.assets /\ r.observations = res.observations /\ r.trace = res.trace
    /\ r.best = res.best /\ r.score = res.score /\ r.compliant = res.compliant
    /\ r.summaries = res.summaries

LEMMA StillDelivered ==
    ASSUME NEW res, NEW r, NEW x, NEW req, DeliveredBy(res, x, req), SameDelivery(r, res)
    PROVE  DeliveredBy(r, x, req)
<1>1. /\ DOMAIN r = FinalFields /\ r.assets = res.assets
      /\ r.observations = res.observations /\ r.trace = res.trace
      /\ r.summaries = res.summaries
  BY DEF SameDelivery
<1>2. Summary(r) = Summary(res)
  BY DEF SameDelivery, Summary
<1>3. \A f : SeenOf(r, f) = SeenOf(res, f)
  BY <1>1 DEF SeenOf
<1> QED BY <1>1, <1>2, <1>3, Zenon DEF DeliveredBy

(* r was made of res by recording more of it.                               *)
SameRecords(r, res) == r.recorded = res.recorded /\ r.taught = res.taught

LEMMA StatusReplaced ==
    ASSUME NEW res, DOMAIN res = FinalFields, NEW s
    PROVE  /\ SameDelivery([res EXCEPT !.status = s], res)
           /\ SameRecords([res EXCEPT !.status = s], res)
           /\ [res EXCEPT !.status = s].status = s
           /\ [res EXCEPT !.status = s].signed = res.signed
           /\ [res EXCEPT !.status = s].credentials = res.credentials
BY DEF SameDelivery, SameRecords, FinalFields, ResultFields

LEMMA SignatureAdded ==
    ASSUME NEW res, DOMAIN res = FinalFields, NEW s
    PROVE  /\ SameDelivery([res EXCEPT !.signed = s], res)
           /\ SameRecords([res EXCEPT !.signed = s], res)
           /\ [res EXCEPT !.signed = s].status = res.status
           /\ [res EXCEPT !.signed = s].signed = s
           /\ [res EXCEPT !.signed = s].credentials = res.credentials
BY DEF SameDelivery, SameRecords, FinalFields, ResultFields

LEMMA CredentialsSet ==
    ASSUME NEW res, DOMAIN res = FinalFields, NEW s
    PROVE  /\ SameDelivery([res EXCEPT !.credentials = s], res)
           /\ SameRecords([res EXCEPT !.credentials = s], res)
           /\ [res EXCEPT !.credentials = s].status = res.status
           /\ [res EXCEPT !.credentials = s].signed = res.signed
           /\ [res EXCEPT !.credentials = s].credentials = s
BY DEF SameDelivery, SameRecords, FinalFields, ResultFields

WithRecords(res, s, u) == [res EXCEPT !.recorded = s, !.taught = u]

LEMMA RecordsSet ==
    ASSUME NEW res, DOMAIN res = FinalFields, NEW s, NEW u
    PROVE  /\ SameDelivery(WithRecords(res, s, u), res)
           /\ WithRecords(res, s, u).status = res.status
           /\ WithRecords(res, s, u).signed = res.signed
           /\ WithRecords(res, s, u).credentials = res.credentials
           /\ WithRecords(res, s, u).recorded = s /\ WithRecords(res, s, u).taught = u
BY DEF SameDelivery, FinalFields, ResultFields, WithRecords

LEMMA RecordIsSome ==
    ASSUME NEW res, DOMAIN res = FinalFields
    PROVE  res # None
<1>1. "status" \in DOMAIN res
  BY DEF FinalFields, ResultFields
<1>2. DOMAIN <<>> = {}
  OBVIOUS
<1> QED BY <1>1, <1>2 DEF None

(* What the pictures of a delivery are.                                     *)
LEMMA DeliveredPictures ==
    ASSUME NEW res, NEW x, NEW req, RequestOK(req), DeliveredBy(res, x, req)
    PROVE  /\ res # None
           /\ \A a \in ToSet(res.assets) : a # None /\ a[1] = x
           /\ res.best # None => res.best \in ToSet(res.assets) /\ res.best \in Chosen(res)
           /\ Chosen(res) \subseteq ToSet(res.assets)
           /\ res.best = None <=> Unevaluated(req)
           /\ res.best = None => Chosen(res) = {} /\ res.score = -1 /\ res.compliant = FALSE
<1>1. res # None
  BY RecordIsSome DEF DeliveredBy
<1>2. ASSUME NEW a \in ToSet(res.assets) PROVE a # None /\ a[1] = x
  <2>1. PICK f \in 1..4 : a \in AssetsOf(x, f)
    BY DEF DeliveredBy
  <2> QED BY <2>1, AssetIsSome
<1>3. ASSUME NEW f \in 1..req.formats
      PROVE  /\ res.summaries[f].best = None <=> Unevaluated(req)
             /\ res.summaries[f].best # None => res.summaries[f].best \in ToSet(res.assets)
  <2>1. /\ ReportsBest(res.summaries[f], SeenOf(res, f))
        /\ SeenOf(res, f) = {} <=> Unevaluated(req)
    BY DEF DeliveredBy
  <2>2. \A o \in SeenOf(res, f) : /\ o.score \in Nat /\ o.compliant \in BOOLEAN
                                  /\ o.asset \in ToSet(res.assets) /\ o.asset # None
    BY <1>2 DEF DeliveredBy, SeenOf
  <2> QED BY <2>1, <2>2, ReportedBest
<1>4. 1 \in 1..req.formats
  BY DEF RequestOK
<1>5. /\ res.best = res.summaries[1].best /\ res.score = res.summaries[1].score
      /\ res.compliant = res.summaries[1].compliant
  BY SummaryFields DEF DeliveredBy
<1>6. Chosen(res) \subseteq ToSet(res.assets)
  BY <1>3 DEF Chosen, DeliveredBy
<1>7. res.best # None => res.best \in Chosen(res)
  BY <1>4, <1>5 DEF Chosen, DeliveredBy
<1>8. ASSUME res.best = None PROVE Chosen(res) = {} /\ res.score = -1 /\ res.compliant = FALSE
  <2>1. Unevaluated(req)
    BY <1>3, <1>4, <1>5, <1>8
  <2>2. Chosen(res) = {}
    BY <1>3, <2>1 DEF Chosen, DeliveredBy
  <2>3. SeenOf(res, 1) = {} /\ ReportsBest(res.summaries[1], SeenOf(res, 1))
    BY <1>4, <2>1 DEF DeliveredBy
  <2>4. res.summaries[1].score = -1 /\ res.summaries[1].compliant = FALSE
    BY <2>3, ZenonT(20) DEF ReportsBest
  <2> QED BY <1>5, <2>2, <2>4
<1> QED BY <1>1, <1>2, <1>3, <1>4, <1>5, <1>6, <1>7, <1>8

LEMMA PicturesOf ==
    ASSUME NEW res, NEW x, NEW req, RequestOK(req), DeliveredBy(res, x, req)
    PROVE  \A a \in ToSet(res.assets) : a[1] = x
BY DeliveredPictures

-----------------------------------------------------------------------------
(* The invariant.  Its parts are operators of values, so that a step that   *)
(* leaves the values alone keeps the part.                                  *)

(* res is a delivery of some execution of task t.                           *)
DeliveredFor(res, t, ex, q) ==
    \E x \in DOMAIN ex : ex[x] = t /\ DeliveredBy(res, x, q)

(* The picture in final/ is the best one ...                                *)
FinalFits(res, fin) == res.best # None => fin # None /\ fin.asset = res.best

(* ... and once provenance is written, credentials and signatures agree.    *)
SignedRight(res, fin) ==
    /\ res.credentials = Credentials(res)
    /\ Provenance = "signer" =>
         /\ Chosen(res) \subseteq res.signed
         /\ res.best # None => fin = [asset |-> res.best, signed |-> TRUE]

(* The cases of the execution that res comes from.                          *)
Recorded(res, cs) ==
    IF res.assets = <<>> THEN {} ELSE {i \in DOMAIN cs : cs[i].asset[1] = res.assets[1][1]}

CaseFits(c, t, res) ==
    /\ c.task = t /\ c.asset \in ToSet(res.assets)
    /\ IF res.best = None THEN c.score = -1 /\ c.compliant = FALSE
       ELSE c.asset = res.best /\ c.score = res.score /\ c.compliant = res.compliant

CasesFit(res, t, cs) == \A i \in Recorded(res, cs) : CaseFits(cs[i], t, res)

(* A review is asked for, and there are pictures to review.                 *)
UnderReview(q) == q.review /\ ~q.unclear

(* The status of a result that the worker has made.                         *)
WorkerStatus(res, q) ==
    IF UnderReview(q) THEN "waiting_for_review" ELSE StatusOf(res.assets, SeenOf(res, 1))

Types ==
    /\ requests \in Requests /\ \A t \in Tasks : RequestOK(requests[t])
    /\ job \in [Tasks -> {"queued", "running", "finished"}] /\ redone \subseteq Tasks
    /\ status \in [Tasks -> Statuses]
    /\ pc \in [Processes -> Labels] /\ task \in [Processes -> Tasks \cup {NoTask}]
    /\ DOMAIN result = Processes /\ DOMAIN saved = Tasks /\ DOMAIN final = Tasks
    /\ executed \in Seq(Tasks) /\ execution = Len(executed)
    /\ IsSeq(cases) /\ restarts \in 0..MaxRestarts

LessonsTyped ==
    /\ IsSeq(file) /\ DOMAIN known = Processes /\ DOMAIN lessons = Processes
    /\ \A p \in Processes :
         /\ IsSeq(known[p]) /\ ToSet(known[p]) \subseteq ToSet(file)
         /\ IsSeq(lessons[p])

(* A process that is at work has a task, and the API one under review.      *)
Control ==
    \A p \in Processes :
      /\ pc[p] = "idle" <=> task[p] = NoTask
      /\ pc[p] \in HasResult <=> result[p] # None
      /\ pc[p] \in {"batch", "save", "finish"} => p = "worker"
      /\ pc[p] = "load" => p = "api"
      /\ pc[p] = "save" => UnderReview(requests[task[p]])
      /\ p = "worker" /\ pc[p] \in {"sign", "remember", "learn"} =>
           ~UnderReview(requests[task[p]])
      /\ p = "api" /\ pc[p] # "idle" =>
           UnderReview(requests[task[p]]) /\ saved[task[p]] # None

ReviewOK ==
    /\ \A t \in Tasks : status[t] \in {"waiting_for_review", "review_processing"} =>
         UnderReview(requests[t]) /\ saved[t] # None
    /\ \A t \in redone : saved[t] # None

(* A process works on a task in the status it gave it: the worker before    *)
(* there is a result, and the API on one that waits for a decision.         *)
Intact ==
    \A p \in Processes : pc[p] \notin {"idle", "finish"} /\ task[p] \notin redone =>
      /\ p = "worker" => /\ status[task[p]] = "running"
                         /\ pc[p] # "status" => saved[task[p]] = None
      /\ p = "api" =>
           /\ status[task[p]] = "review_processing"
           /\ pc[p] # "status" => saved[task[p]].status = "waiting_for_review"

CandidateStates(req) == {Waiting, Running, Raised} \cup {Done(r) : r \in RunsFor(req)}

(* The formats that are done have their results, and the one in hand has    *)
(* its candidates.                                                          *)
BatchOK ==
    pc["worker"] = "batch" =>
      /\ request = requests[task["worker"]]
      /\ execution > 0 /\ executed[execution] = task["worker"]
      /\ IsSeq(formatResults) /\ Len(formatResults) <= request.formats
      /\ \A f \in 1..Len(formatResults) :
           FormatResult(formatResults[f], execution, f, request)
      /\ \A c \in Indices : candidates[c] \in CandidateStates(request)
      /\ Len(formatResults) < request.formats => Indices = 1..request.candidates

(* A process has a delivery of its task in hand ...                         *)
HandOK(p) ==
    LET t == task[p]
        res == result[p]
    IN
    /\ DeliveredFor(res, t, executed, requests[t])
    /\ res.signed \subseteq signedFiles
    /\ p = "worker" => res.status = WorkerStatus(res, requests[t])
    /\ p = "api" => res.status = "completed"

ResultOK == \A p \in Processes : pc[p] \in HasResult => HandOK(p)

(* ... which, if the task was executed once, fits what was made of it: the  *)
(* worker has one that is new, and the API the one that was saved.          *)
HandFits(p) ==
    LET t == task[p]
        res == result[p]
    IN
    /\ FinalFits(res, final[t])
    /\ pc[p] \in {"sign", "save"} => res.credentials = "not_enabled"
    /\ pc[p] \in {"sign", "remember", "save"} => ~res.recorded /\ ~res.taught
    /\ pc[p] \in {"remember", "learn"} => SignedRight(res, final[t])
    /\ pc[p] = "status" => saved[t] = res
    /\ p = "api" /\ pc[p] # "status" => SameDelivery(res, saved[t])

HandsFit == \A p \in Processes : pc[p] \in HasResult /\ task[p] \notin redone => HandFits(p)

(* What is saved: a delivery without a decision or a closed one ...         *)
SavedOK ==
    \A t \in Tasks : saved[t] # None =>
      LET res == saved[t] IN
      /\ DeliveredFor(res, t, executed, requests[t])
      /\ res.signed \subseteq signedFiles
      /\ \/ res.status = WorkerStatus(res, requests[t])
         \/ res.status = "completed" /\ UnderReview(requests[t])

(* ... that fits the status and the pictures.                               *)
SavedFits(t) ==
    /\ saved[t] = None => status[t] \in {"queued", "running", "failed"}
    /\ saved[t] # None =>
         LET res == saved[t] IN
         /\ FinalFits(res, final[t])
         /\ res.status = "waiting_for_review" => Untouched(res)
         /\ res.status # "waiting_for_review" =>
              status[t] # "waiting_for_review" /\ SignedRight(res, final[t])

AllFit == \A t \in Tasks \ redone : SavedFits(t)

(* A signed picture is of an execution, and of a reviewed task only when it *)
(* was approved.                                                            *)
SignedOK ==
    /\ \A a \in signedFiles : \E x \in DOMAIN executed :
         /\ \E f \in 1..4 : a \in AssetsOf(x, f)
         /\ UnderReview(requests[executed[x]]) /\ executed[x] \notin redone =>
              status[executed[x]] \in {"review_processing", "completed"}
    /\ \A t \in Tasks : final[t] # None /\ final[t].signed =>
         /\ final[t].asset \in signedFiles
         /\ \E x \in DOMAIN executed : executed[x] = t /\ final[t].asset[1] = x

(* An execution has one case at most ...                                    *)
OneCase ==
    /\ \A i \in DOMAIN cases : cases[i].asset[1] \in DOMAIN executed
    /\ \A i, j \in DOMAIN cases :
         cases[i].asset[1] = cases[j].asset[1] /\ executed[cases[i].asset[1]] \notin redone =>
           i = j
    /\ pc["worker"] = "batch" /\ task["worker"] \notin redone =>
         \A i \in DOMAIN cases : cases[i].asset[1] # execution

(* ... and none before it is recorded.                                      *)
HandCases(p) ==
    /\ pc[p] = "load" => Recorded(saved[task[p]], cases) = {}
    /\ pc[p] \in {"sign", "remember", "save"} => Recorded(result[p], cases) = {}
    /\ pc[p] = "learn" =>
         /\ CasesFit(result[p], task[p], cases)
         /\ result[p].assets # <<>> => Recorded(result[p], cases) # {}

SavedCases(t) ==
    saved[t] # None =>
      /\ CasesFit(saved[t], t, cases)
      /\ saved[t].status # "waiting_for_review" /\ saved[t].assets # <<>> =>
           Recorded(saved[t], cases) # {}
      /\ saved[t].status = "waiting_for_review" /\ status[t] \in {"running", "waiting_for_review"} =>
           Recorded(saved[t], cases) = {}

CasesOK ==
    /\ OneCase
    /\ \A p \in Processes : task[p] \notin redone => HandCases(p)
    /\ \A t \in Tasks \ redone : SavedCases(t)

IInv ==
    /\ Types /\ LessonsTyped /\ Control /\ ReviewOK /\ Intact /\ BatchOK
    /\ ResultOK /\ HandsFit /\ SavedOK /\ AllFit /\ SignedOK /\ CasesOK
-----------------------------------------------------------------------------
(* The parts under a step.                                                  *)

LEMMA TwoProcesses ==
    ASSUME NEW p \in Processes
    PROVE  p = "worker" \/ p = "api"
BY DeliveryAssumption

LEMMA RequestsOK ==
    ASSUME NEW qs \in Requests, NEW t \in Tasks
    PROVE  RequestOK(qs[t])
<1>1. LET q == qs[t] IN
        /\ q.formats \in 1..4 /\ q.candidates \in 1..8 /\ q.iterations \in 1..20
        /\ {q.parallel, q.review, q.unclear} \subseteq BOOLEAN
  BY DeliveryAssumption
<1> QED BY <1>1 DEF RequestOK

LEMMA FirstPicture ==
    ASSUME NEW res, NEW x, NEW q, RequestOK(q), DeliveredBy(res, x, q), res.assets # <<>>
    PROVE  /\ res.assets[1] \in ToSet(res.assets) /\ res.assets[1][1] = x
           /\ Last(res.assets) \in ToSet(res.assets) /\ Last(res.assets)[1] = x
<1>1. IsSeq(res.assets)
  BY DEF DeliveredBy
<1>2. Len(res.assets) \in Nat /\ DOMAIN res.assets = 1..Len(res.assets)
  BY <1>1, LenProperties DEF IsSeq
<1>3. Len(res.assets) # 0
  BY <1>1, EmptySeq DEF IsSeq
<1>4. 1 \in DOMAIN res.assets /\ Len(res.assets) \in DOMAIN res.assets
  BY <1>2, <1>3
<1>5. res.assets[1] \in ToSet(res.assets) /\ Last(res.assets) \in ToSet(res.assets)
  BY <1>4 DEF ToSet, Last
<1>6. \A a \in ToSet(res.assets) : a[1] = x
  BY DeliveredPictures
<1> QED BY <1>5, <1>6

LEMMA DeliveredGrows ==
    ASSUME NEW res, NEW t, NEW q, NEW ex \in Seq(Tasks), NEW u \in Tasks,
           DeliveredFor(res, t, ex, q)
    PROVE  DeliveredFor(res, t, Append(ex, u), q)
<1>1. PICK x \in DOMAIN ex : ex[x] = t /\ DeliveredBy(res, x, q)
  BY DEF DeliveredFor
<1>2. x \in DOMAIN Append(ex, u) /\ Append(ex, u)[x] = ex[x]
  BY AppendProperties, LenProperties
<1> QED BY <1>1, <1>2 DEF DeliveredFor

LEMMA DeliveredSome ==
    ASSUME NEW res, NEW t, NEW q, RequestOK(q), NEW ex, DeliveredFor(res, t, ex, q)
    PROVE  /\ res # None /\ DOMAIN res = FinalFields
           /\ Chosen(res) \subseteq ToSet(res.assets)
           /\ res.best # None => res.best \in Chosen(res)
           /\ res.best = None => Chosen(res) = {}
           /\ IsSeq(res.assets)
<1>1. PICK x \in DOMAIN ex : ex[x] = t /\ DeliveredBy(res, x, q)
  BY DEF DeliveredFor
<1> QED BY <1>1, DeliveredPictures DEF DeliveredBy

LEMMA SameDelivered ==
    ASSUME NEW r, NEW res, NEW t, NEW q, NEW ex, DeliveredFor(res, t, ex, q),
           SameDelivery(r, res)
    PROVE  DeliveredFor(r, t, ex, q)
BY StillDelivered DEF DeliveredFor

LEMMA RecordedLonger ==
    ASSUME NEW res, NEW cs, NEW ds, NEW n, n \notin DOMAIN cs, DOMAIN ds = DOMAIN cs \cup {n},
           \A i \in DOMAIN cs : ds[i] = cs[i],
           ~(res.assets # <<>> /\ ds[n].asset[1] = res.assets[1][1])
    PROVE  Recorded(res, ds) = Recorded(res, cs)
<1>1. CASE res.assets = <<>>
  BY <1>1 DEF Recorded
<1>2. CASE res.assets # <<>>
  BY <1>2 DEF Recorded
<1> QED BY <1>1, <1>2

(* A case of one execution is none of another's.                            *)
LEMMA RecordedElsewhere ==
    ASSUME NEW res, NEW t, NEW q, RequestOK(q), NEW ex, DeliveredFor(res, t, ex, q),
           NEW cs, IsSeq(cs), NEW c, NEW y \in DOMAIN ex, c.asset[1] = y, ex[y] # t
    PROVE  Recorded(res, Append(cs, c)) = Recorded(res, cs)
<1>1. PICK x \in DOMAIN ex : ex[x] = t /\ DeliveredBy(res, x, q)
  BY DEF DeliveredFor
<1>2. res.assets # <<>> => res.assets[1][1] = x /\ x # y
  BY <1>1, FirstPicture
<1>3. /\ IsSeq(Append(cs, c)) /\ Len(Append(cs, c)) = Len(cs) + 1
      /\ Append(cs, c)[Len(cs) + 1] = c
      /\ \A i \in 1..Len(cs) : Append(cs, c)[i] = cs[i]
  BY AppendedElements
<1>4. /\ Len(cs) \in Nat /\ DOMAIN cs = 1..Len(cs)
      /\ DOMAIN Append(cs, c) = 1..(Len(cs) + 1)
  BY <1>3, LenProperties DEF IsSeq
<1>5. DOMAIN Append(cs, c) = DOMAIN cs \cup {Len(cs) + 1}
  BY <1>4
<1>6. Len(cs) + 1 \notin DOMAIN cs /\ \A i \in DOMAIN cs : Append(cs, c)[i] = cs[i]
  BY <1>3, <1>4
<1>7. ~(res.assets # <<>> /\ Append(cs, c)[Len(cs) + 1].asset[1] = res.assets[1][1])
  BY <1>2, <1>3
<1>8. Recorded(res, Append(cs, c)) = Recorded(res, cs)
  BY <1>5, <1>6, <1>7, RecordedLonger
<1> QED BY <1>8

LEMMA CasesElsewhere ==
    ASSUME NEW res, NEW t, NEW q, RequestOK(q), NEW ex, DeliveredFor(res, t, ex, q),
           NEW cs, IsSeq(cs), NEW c, NEW y \in DOMAIN ex, c.asset[1] = y, ex[y] # t
    PROVE  CasesFit(res, t, Append(cs, c)) <=> CasesFit(res, t, cs)
<1>1. Recorded(res, Append(cs, c)) = Recorded(res, cs)
  BY RecordedElsewhere
<1>2. \A i \in DOMAIN cs : Append(cs, c)[i] = cs[i]
  BY AppendedElements, LenProperties DEF IsSeq
<1>3. Recorded(res, cs) \subseteq DOMAIN cs
  BY DEF Recorded
<1> QED BY <1>1, <1>2, <1>3 DEF CasesFit

(* The two records of the same delivery.                                    *)
LEMMA SameCases ==
    ASSUME NEW r, NEW res, NEW t, NEW cs, SameDelivery(r, res)
    PROVE  /\ Recorded(r, cs) = Recorded(res, cs)
           /\ CasesFit(r, t, cs) <=> CasesFit(res, t, cs)
BY DEF SameDelivery, Recorded, CasesFit, CaseFits

LEMMA SameFits ==
    ASSUME NEW r, NEW res, NEW fin, SameDelivery(r, res)
    PROVE  /\ FinalFits(r, fin) <=> FinalFits(res, fin)
           /\ Chosen(r) = Chosen(res)
           /\ \A f : SeenOf(r, f) = SeenOf(res, f)
BY DEF SameDelivery, FinalFits, Chosen, SeenOf

LEMMA InitInv == Init => IInv
<1> SUFFICES ASSUME Init PROVE IInv
  OBVIOUS
<1> USE DEF Init, ExperienceInit, BatchInit
<1>1. Types
  <2>1. \A t \in Tasks : RequestOK(requests[t])
    BY RequestsOK
  <2>2. <<>> \in Seq(Tasks) /\ Len(<<>>) = 0
    OBVIOUS
  <2> QED BY <2>1, <2>2, EmptyIsSeq, DeliveryAssumption DEF Types, Statuses, Labels
<1>2. LessonsTyped
  BY EmptyIsSeq DEF LessonsTyped
<1>3. Control /\ ReviewOK /\ Intact
  BY DEF Control, ReviewOK, Intact, HasResult
<1>4. BatchOK
  BY DeliveryAssumption DEF BatchOK
<1>5. ResultOK /\ HandsFit
  BY DEF ResultOK, HandsFit, HasResult
<1>6. SavedOK /\ AllFit
  BY DEF SavedOK, AllFit, SavedFits
<1>7. SignedOK
  BY DEF SignedOK
<1>8. CasesOK
  <2>1. DOMAIN cases = {}
    OBVIOUS
  <2> QED BY <2>1, DeliveryAssumption DEF CasesOK, OneCase, HandCases, SavedCases
<1> QED BY <1>1, <1>2, <1>3, <1>4, <1>5, <1>6, <1>7, <1>8 DEF IInv
-----------------------------------------------------------------------------
(* Steps of the batch.                                                      *)

LEMMA BatchFrame ==
    ASSUME IInv, UNCHANGED <<experienceVars, taskVars, recordVars, historyVars, localVars,
                             restarts, execution>>
    PROVE  /\ Types' /\ LessonsTyped' /\ Control' /\ ReviewOK' /\ Intact'
           /\ ResultOK' /\ HandsFit' /\ SavedOK' /\ AllFit' /\ SignedOK' /\ CasesOK'
<1> USE DEF experienceVars, taskVars, recordVars, historyVars, localVars, IInv
<1>1. Types'
  BY DEF Types
<1>2. LessonsTyped'
  BY DEF LessonsTyped
<1>3. Control' /\ ReviewOK' /\ Intact'
  BY DEF Control, ReviewOK, Intact
<1>4. ResultOK' /\ HandsFit'
  BY DEF ResultOK, HandOK, HandsFit, HandFits
<1>5. SavedOK' /\ AllFit'
  BY DEF SavedOK, AllFit, SavedFits
<1>6. SignedOK'
  BY DEF SignedOK
<1>7. CasesOK'
  BY DEF CasesOK, OneCase, HandCases, SavedCases
<1> QED BY <1>1, <1>2, <1>3, <1>4, <1>5, <1>6, <1>7

LEMMA BatchStepKeeps ==
    ASSUME IInv, Batch, NEW c \in Indices, NEW s \in CandidateStates(request),
           candidates' = [candidates EXCEPT ![c] = s],
           UNCHANGED <<request, strategies, execution, formatResults>>
    PROVE  BatchOK'
<1>1. /\ \A d \in Indices : candidates'[d] = candidates[d] \/ candidates'[d] = s
      /\ DOMAIN candidates' = DOMAIN candidates
  BY DEF Indices
<1> QED BY <1>1 DEF IInv, BatchOK, Batch, Indices, taskVars, localVars, historyVars, At

LEMMA EndFormatKeeps ==
    ASSUME IInv, Batch, EndFormat
    PROVE  BatchOK'
<1>0. /\ pc["worker"] = "batch" /\ BatchOK /\ Types
      /\ UNCHANGED <<request, execution, requests, task, executed, pc>>
  BY DEF Batch, EndFormat, At, IInv, taskVars, localVars, historyVars
<1>1. /\ request = requests[task["worker"]]
      /\ execution > 0 /\ executed[execution] = task["worker"]
      /\ IsSeq(formatResults) /\ Len(formatResults) <= request.formats
      /\ \A f \in 1..Len(formatResults) :
           FormatResult(formatResults[f], execution, f, request)
      /\ \A c \in Indices : candidates[c] \in CandidateStates(request)
      /\ Len(formatResults) < request.formats /\ Indices = 1..request.candidates
  BY <1>0 DEF BatchOK, EndFormat
<1>2. task["worker"] \in Tasks /\ RequestOK(request)
  <2>1. task["worker"] \in Tasks
    BY <1>0, DeliveryAssumption DEF IInv, Control, Types
  <2> QED BY <1>0, <1>1, <2>1 DEF Types
<1>3. PICK n \in 1..8 : n = request.candidates
  BY <1>2 DEF RequestOK
<1>4. PICK f \in 1..4 : f = Len(formatResults) + 1
  <2>1. Len(formatResults) \in Nat /\ request.formats \in 1..4
    BY <1>1, <1>2, LenProperties DEF RequestOK, IsSeq
  <2>2. Len(formatResults) + 1 \in 1..4
    BY <1>1, <2>1
  <2> QED BY <2>2
<1>5. ASSUME NEW c \in 1..n
      PROVE  /\ FormatResult(Results(f)[c], execution, f, request)
             /\ DOMAIN Results(f)[c] = ResultFields
  <2>1. candidates[c].state = "done" /\ candidates[c] \in CandidateStates(request)
    BY <1>1, <1>3 DEF EndFormat, In
  <2>2. PICK r \in RunsFor(request) : candidates[c] = Done(r)
    BY <2>1 DEF CandidateStates, Waiting, Running, Raised
  <2>3. Results(f)[c] = RunResult(r, f, c)
    BY <1>1, <1>3, <2>2 DEF Results, Done
  <2>4. r \in Runs /\ c \in 1..8
    BY DEF RunsFor
  <2>5. PICK res : IsResultOf(res, r, f, c)
    BY DEF IsResultOf
  <2>6. RunFields(res, r, f, c)
    BY <2>4, <2>5, RunResultFields
  <2>7. DOMAIN RunResult(r, f, c) = ResultFields
    BY <2>5, <2>6 DEF RunFields, IsResultOf, ResultFields
  <2>8. PICK req : req = request
    OBVIOUS
  <2>9. FormatResult(RunResult(r, f, c), execution, f, req)
    BY <1>2, <2>4, <2>8, RunIsFormatResult
  <2> QED BY <2>3, <2>7, <2>8, <2>9
<1>6. Listed(Results(f), n)
  BY <1>1, <1>3 DEF Results, Listed
<1>7. PICK rs : rs = Results(f)
  OBVIOUS
<1>8. PICK x : x = execution
  OBVIOUS
<1>9. FormatResult(SelectCandidate(rs), x, f, request)
  BY <1>2, <1>3, <1>5, <1>6, <1>7, <1>8, SelectedIsFormatResult
<1>10. PICK sel : sel = SelectCandidate(Results(f))
  OBVIOUS
<1>11. FormatResult(sel, execution, f, request)
  BY <1>7, <1>8, <1>9, <1>10
<1>12. formatResults' = Append(formatResults, sel)
  BY <1>4, <1>10 DEF EndFormat
<1>13. PICK fr : fr = formatResults
  OBVIOUS
<1>14. /\ IsSeq(Append(fr, sel)) /\ Len(Append(fr, sel)) = Len(fr) + 1
       /\ Append(fr, sel)[Len(fr) + 1] = sel
       /\ \A i \in 1..Len(fr) : Append(fr, sel)[i] = fr[i]
  BY <1>1, <1>13, AppendedElements
<1>15. /\ IsSeq(formatResults') /\ Len(formatResults') = f
       /\ formatResults'[f] = sel
       /\ \A i \in 1..Len(formatResults) : formatResults'[i] = formatResults[i]
  BY <1>4, <1>12, <1>13, <1>14
<1>16. \A i \in 1..f : FormatResult(formatResults'[i], execution, i, request)
  <2> SUFFICES ASSUME NEW i \in 1..f
               PROVE  FormatResult(formatResults'[i], execution, i, request)
    OBVIOUS
  <2>1. CASE i = f
    BY <1>11, <1>15, <2>1
  <2>2. CASE i # f
    <3>1. i \in 1..Len(formatResults)
      BY <1>1, <1>4, <2>2, LenProperties DEF IsSeq
    <3> QED BY <1>1, <1>15, <3>1
  <2> QED BY <2>1, <2>2
<1>17. candidates' = IF f < request.formats THEN [c \in Indices |-> Waiting] ELSE <<>>
  BY <1>4 DEF EndFormat
<1>18. /\ \A c \in Indices' : candidates'[c] \in CandidateStates(request)
       /\ f < request.formats => Indices' = 1..request.candidates
  <2>1. CASE f < request.formats
    BY <1>1, <1>17, <2>1 DEF CandidateStates, Indices
  <2>2. CASE ~(f < request.formats)
    <3>1. DOMAIN candidates' = {}
      BY <1>17, <2>2
    <3> QED BY <2>2, <3>1 DEF Indices
  <2> QED BY <2>1, <2>2
<1>19. f <= request.formats
  <2>1. request.formats \in 1..4
    BY <1>2 DEF RequestOK
  <2> QED BY <1>1, <1>4, <2>1
<1> QED BY <1>0, <1>1, <1>15, <1>16, <1>18, <1>19 DEF BatchOK

LEMMA BatchKeeps ==
    ASSUME IInv, Batch
    PROVE  IInv'
<1>0. UNCHANGED <<experienceVars, taskVars, recordVars, historyVars, localVars, restarts,
                  execution>>
  BY DEF Batch, At, StartCandidate, EndCandidate, EndFormat
<1>1. /\ Types' /\ LessonsTyped' /\ Control' /\ ReviewOK' /\ Intact'
      /\ ResultOK' /\ HandsFit' /\ SavedOK' /\ AllFit' /\ SignedOK' /\ CasesOK'
  BY <1>0, BatchFrame
<1>2. BatchOK'
  <2>1. ASSUME NEW c \in Indices, StartCandidate(c) PROVE BatchOK'
    BY <2>1, BatchStepKeeps DEF StartCandidate, CandidateStates
  <2>2. ASSUME NEW c \in Indices, NEW r \in RunsFor(request), EndCandidate(c, Done(r))
        PROVE  BatchOK'
    BY <2>2, BatchStepKeeps DEF EndCandidate, CandidateStates
  <2>3. ASSUME NEW c \in Indices, EndCandidate(c, Raised) PROVE BatchOK'
    BY <2>3, BatchStepKeeps DEF EndCandidate, CandidateStates
  <2>4. ASSUME EndFormat PROVE BatchOK'
    BY <2>4, EndFormatKeeps
  <2> QED BY <2>1, <2>2, <2>3, <2>4 DEF Batch
<1> QED BY <1>1, <1>2 DEF IInv
-----------------------------------------------------------------------------
(* Steps with a result.                                                     *)

(* A process at work on a task that is executed once has it for itself.     *)
LEMMA OwnTask ==
    ASSUME IInv, NEW p \in Processes, pc[p] # "idle"
    PROVE  /\ task[p] \in Tasks /\ RequestOK(requests[task[p]])
           /\ pc[p] # "finish" /\ task[p] \notin redone =>
                /\ p = "worker" => status[task[p]] = "running"
                /\ p = "api" => status[task[p]] = "review_processing"
                /\ \A q \in Processes : task[q] = task[p] /\ pc[q] # "finish" => q = p
<1>1. task[p] \in Tasks
  BY DEF IInv, Types, Control
<1>2. task[p] # NoTask
  BY DEF IInv, Control
<1>3. pc[p] # "finish" /\ task[p] \notin redone =>
        /\ p = "worker" => status[task[p]] = "running"
        /\ p = "api" => status[task[p]] = "review_processing"
  BY DEF IInv, Intact
<1>4. ASSUME pc[p] # "finish", task[p] \notin redone,
             NEW q \in Processes, task[q] = task[p], pc[q] # "finish", q # p
      PROVE FALSE
  <2>1. pc[q] # "idle"
    BY <1>2, <1>4 DEF IInv, Control
  <2>2. /\ q = "worker" => status[task[q]] = "running"
        /\ q = "api" => status[task[q]] = "review_processing"
    BY <1>4, <2>1 DEF IInv, Intact
  <2> QED BY <1>3, <1>4, <2>2, TwoProcesses
<1>5. RequestOK(requests[task[p]])
  BY <1>1 DEF IInv, Types
<1> QED BY <1>1, <1>3, <1>4, <1>5

(* What is saved of a task.                                                 *)
LEMMA SavedFields ==
    ASSUME IInv, NEW t \in Tasks, saved[t] # None
    PROVE  DOMAIN saved[t] = FinalFields /\ (saved[t].assets = <<>> <=> requests[t].unclear)
BY DEF IInv, SavedOK, DeliveredFor, DeliveredBy

LEMMA ApproveKeeps ==
    ASSUME IInv, NEW t \in Tasks, Approve(t)
    PROVE  IInv'
<1>0. /\ pc["api"] = "idle" /\ status[t] = "waiting_for_review"
      /\ status' = [status EXCEPT ![t] = "review_processing"]
      /\ task' = [task EXCEPT !["api"] = t]
      /\ pc' = [pc EXCEPT !["api"] = "load"]
      /\ UNCHANGED <<experienceVars, batchVars, requests, job, saved, final, recordVars,
                     historyVars, result, lessons, restarts>>
  BY DEF Approve, At, Goto
<1> USE <1>0 DEF experienceVars, batchVars, recordVars, historyVars
<1>a. "api" \in Processes /\ "worker" \in Processes /\ t # NoTask
  BY DeliveryAssumption DEF NoTask
<1>1. saved[t] # None /\ UnderReview(requests[t])
  BY DEF IInv, ReviewOK
<1>2. t \notin redone =>
        /\ saved[t].status = "waiting_for_review" /\ Recorded(saved[t], cases) = {}
  BY <1>1 DEF IInv, AllFit, SavedFits, CasesOK, SavedCases
<1>3. t \notin redone /\ pc["worker"] \notin {"idle", "finish"} => task["worker"] # t
  BY <1>a DEF IInv, Intact
<1>b. /\ DOMAIN pc = Processes /\ DOMAIN task = Processes /\ DOMAIN result = Processes
      /\ DOMAIN status = Tasks
  BY DEF IInv, Types
<1>4. /\ pc'["api"] = "load" /\ task'["api"] = t
      /\ pc'["worker"] = pc["worker"] /\ task'["worker"] = task["worker"]
      /\ status'[t] = "review_processing"
      /\ \A u \in Tasks \ {t} : status'[u] = status[u]
      /\ Processes = {"worker", "api"}
  BY <1>a, <1>b, DeliveryAssumption
<1>5. Types'
  BY DEF IInv, Types, Statuses, Labels
<1>6. LessonsTyped'
  BY DEF IInv, LessonsTyped
<1>7. Control' /\ ReviewOK'
  <2>1. Control'
    BY <1>a, <1>1, <1>4 DEF IInv, Control, HasResult
  <2>2. ReviewOK'
    BY <1>1, <1>4 DEF IInv, ReviewOK
  <2> QED BY <2>1, <2>2
<1>8. Intact'
  <2>1. pc["worker"] # "idle" => task["worker"] \in Tasks
    BY <1>a, OwnTask
  <2> QED BY <1>2, <1>3, <1>4, <2>1 DEF IInv, Intact
<1>9. BatchOK'
  BY <1>4 DEF IInv, BatchOK, Indices
<1>10. ResultOK' /\ HandsFit'
  BY <1>4 DEF IInv, ResultOK, HandOK, HandsFit, HandFits, HasResult
<1>11. SavedOK' /\ AllFit'
  <2>1. SavedOK'
    BY DEF IInv, SavedOK
  <2>2. AllFit'
    BY <1>1, <1>2, <1>4 DEF IInv, AllFit, SavedFits
  <2> QED BY <2>1, <2>2
<1>12. SignedOK'
  BY <1>4, <1>b DEF IInv, SignedOK, Types
<1>13. CasesOK'
  <2>1. OneCase'
    BY <1>4 DEF IInv, CasesOK, OneCase
  <2>2. ASSUME NEW p \in Processes, task'[p] \notin redone PROVE HandCases(p)'
    BY <1>2, <1>4, <2>2 DEF IInv, CasesOK, HandCases
  <2>3. ASSUME NEW u \in Tasks \ redone PROVE SavedCases(u)'
    BY <1>4 DEF IInv, CasesOK, SavedCases
  <2> QED BY <2>1, <2>2, <2>3 DEF CasesOK
<1> QED BY <1>5, <1>6, <1>7, <1>8, <1>9, <1>10, <1>11, <1>12, <1>13 DEF IInv

(* The result is read.                                                      *)
LEMMA LoadKeeps ==
    ASSUME IInv, LoadResult
    PROVE  IInv'
<1> DEFINE t == task["api"]
           res == [saved[t] EXCEPT !.status = "completed"]
<1>0. /\ pc["api"] = "load"
      /\ result' = [result EXCEPT !["api"] = res]
      /\ pc' = [pc EXCEPT !["api"] = "sign"]
      /\ UNCHANGED <<experienceVars, batchVars, taskVars, recordVars, historyVars, task,
                     lessons, restarts>>
  BY DEF LoadResult, At, Goto
<1> USE <1>0 DEF experienceVars, batchVars, taskVars, recordVars, historyVars
<1>a. "api" \in Processes /\ "worker" \in Processes /\ Processes = {"worker", "api"}
  BY DeliveryAssumption
<1>1. /\ t \in Tasks /\ saved[t] # None /\ UnderReview(requests[t])
      /\ DeliveredFor(saved[t], t, executed, requests[t])
      /\ saved[t].signed \subseteq signedFiles
  <2>1. t \in Tasks
    BY <1>a, OwnTask
  <2>2. saved[t] # None /\ UnderReview(requests[t])
    BY <1>a DEF IInv, Control
  <2> QED BY <2>1, <2>2 DEF IInv, SavedOK
<1>2. t \notin redone =>
        /\ saved[t].status = "waiting_for_review" /\ Recorded(saved[t], cases) = {}
        /\ FinalFits(saved[t], final[t]) /\ Untouched(saved[t])
  <2>1. t \notin redone => saved[t].status = "waiting_for_review"
    BY <1>a DEF IInv, Intact
  <2>2. t \notin redone => Recorded(saved[t], cases) = {}
    BY <1>a DEF IInv, CasesOK, HandCases
  <2>3. t \notin redone => SavedFits(t)
    BY <1>1 DEF IInv, AllFit
  <2> QED BY <1>1, <2>1, <2>2, <2>3 DEF SavedFits
<1>3. /\ res # None /\ SameDelivery(res, saved[t]) /\ res.status = "completed"
      /\ res.signed = saved[t].signed /\ res.credentials = saved[t].credentials
      /\ res.recorded = saved[t].recorded /\ res.taught = saved[t].taught
  <2>1. PICK old : old = saved[t]
    OBVIOUS
  <2>2. DOMAIN old = FinalFields
    BY <1>1, <2>1, SavedFields
  <2>3. /\ SameDelivery([old EXCEPT !.status = "completed"], old)
        /\ SameRecords([old EXCEPT !.status = "completed"], old)
        /\ [old EXCEPT !.status = "completed"].status = "completed"
        /\ [old EXCEPT !.status = "completed"].signed = old.signed
        /\ [old EXCEPT !.status = "completed"].credentials = old.credentials
    BY <2>2, StatusReplaced
  <2>4. DOMAIN res = FinalFields
    BY <2>1, <2>3 DEF SameDelivery
  <2> QED BY <2>1, <2>3, <2>4, RecordIsSome DEF SameRecords
<1>4. PICK new : new = res
  OBVIOUS
<1> HIDE DEF res
<1>b. DOMAIN pc = Processes /\ DOMAIN result = Processes
  BY DEF IInv, Types
<1>5. /\ pc'["api"] = "sign" /\ result'["api"] = new
      /\ pc'["worker"] = pc["worker"] /\ result'["worker"] = result["worker"]
  BY <1>a, <1>b, <1>4
<1>6. /\ new # None /\ new.signed \subseteq signedFiles /\ new.status = "completed"
      /\ DeliveredFor(new, t, executed, requests[t])
      /\ t \notin redone =>
           /\ SameDelivery(new, saved[t]) /\ FinalFits(new, final[t]) /\ Untouched(new)
           /\ Recorded(new, cases) = {}
  <2>1. DeliveredFor(new, t, executed, requests[t])
    BY <1>1, <1>3, <1>4, SameDelivered
  <2>2. t \notin redone => FinalFits(new, final[t]) /\ Recorded(new, cases) = {}
    BY <1>2, <1>3, <1>4, SameFits, SameCases
  <2>3. t \notin redone => Untouched(new)
    BY <1>2, <1>3, <1>4 DEF Untouched
  <2> QED BY <1>1, <1>3, <1>4, <2>1, <2>2, <2>3
<1>7. Types' /\ LessonsTyped'
  BY <1>5 DEF IInv, Types, LessonsTyped, Labels
<1>8. Control' /\ ReviewOK' /\ Intact'
  <2>1. Control'
    BY <1>a, <1>5, <1>6 DEF IInv, Control, HasResult
  <2>2. ReviewOK' /\ Intact'
    BY <1>a, <1>5 DEF IInv, ReviewOK, Intact
  <2> QED BY <2>1, <2>2
<1>9. BatchOK'
  BY <1>5 DEF IInv, BatchOK, Indices
<1>10. ResultOK' /\ HandsFit'
  <2>1. ASSUME NEW p \in Processes, pc'[p] \in HasResult PROVE HandOK(p)'
    BY <1>a, <1>5, <1>6, <2>1 DEF IInv, ResultOK, HandOK
  <2>2. ASSUME NEW p \in Processes, pc'[p] \in HasResult, task'[p] \notin redone'
        PROVE  HandFits(p)'
    BY <1>a, <1>5, <1>6, <2>2 DEF IInv, HandsFit, HandFits, Untouched
  <2> QED BY <2>1, <2>2 DEF ResultOK, HandsFit
<1>11. SavedOK' /\ AllFit' /\ SignedOK'
  BY DEF IInv, SavedOK, AllFit, SavedFits, SignedOK
<1>12. CasesOK'
  <2>1. OneCase' /\ \A u \in Tasks \ redone' : SavedCases(u)'
    BY <1>5 DEF IInv, CasesOK, OneCase, SavedCases
  <2>2. ASSUME NEW p \in Processes, task'[p] \notin redone' PROVE HandCases(p)'
    BY <1>a, <1>5, <1>6, <2>2 DEF IInv, CasesOK, HandCases
  <2> QED BY <2>1, <2>2 DEF CasesOK
<1> QED BY <1>7, <1>8, <1>9, <1>10, <1>11, <1>12 DEF IInv

(* What a process has in hand.                                              *)
LEMMA InHand ==
    ASSUME IInv, NEW p \in Processes, pc[p] \in HasResult
    PROVE  /\ DeliveredFor(result[p], task[p], executed, requests[task[p]])
           /\ DOMAIN result[p] = FinalFields /\ result[p] # None
           /\ Chosen(result[p]) \subseteq ToSet(result[p].assets)
           /\ result[p].best # None => result[p].best \in Chosen(result[p])
           /\ result[p].best = None => Chosen(result[p]) = {}
           /\ result[p].signed \subseteq signedFiles
           /\ task[p] \notin redone => HandFits(p)
<1>1. /\ DeliveredFor(result[p], task[p], executed, requests[task[p]])
      /\ result[p].signed \subseteq signedFiles
      /\ task[p] \notin redone => HandFits(p)
  BY DEF IInv, ResultOK, HandOK, HandsFit
<1>2. task[p] \in Tasks /\ RequestOK(requests[task[p]])
  BY OwnTask DEF HasResult
<1>4. PICK res, t, q : res = result[p] /\ t = task[p] /\ q = requests[task[p]]
  OBVIOUS
<1>5. PICK ex : ex = executed
  OBVIOUS
<1>6. /\ res # None /\ DOMAIN res = FinalFields
      /\ Chosen(res) \subseteq ToSet(res.assets)
      /\ res.best # None => res.best \in Chosen(res)
      /\ res.best = None => Chosen(res) = {}
  BY <1>1, <1>2, <1>4, <1>5, DeliveredSome
<1> QED BY <1>1, <1>4, <1>6

(* A picture in hand is of an execution of the task, and one of a task with *)
(* a review is in the hands of the API only.                                *)
LEMMA PictureInHand ==
    ASSUME IInv, NEW p \in Processes, pc[p] \in {"sign", "remember", "learn"},
           NEW a \in ToSet(result[p].assets)
    PROVE  \E x \in DOMAIN executed :
             /\ executed[x] = task[p] /\ a[1] = x
             /\ \E f \in 1..4 : a \in AssetsOf(x, f)
             /\ UnderReview(requests[task[p]]) /\ task[p] \notin redone =>
                  status[task[p]] = "review_processing"
<1>1. PICK x \in DOMAIN executed :
        executed[x] = task[p] /\ DeliveredBy(result[p], x, requests[task[p]])
  BY InHand DEF DeliveredFor, HasResult
<1>2. PICK f \in 1..4 : a \in AssetsOf(x, f)
  BY <1>1 DEF DeliveredBy
<1>3. a[1] = x
  BY <1>2, AssetIsSome
<1>4. UnderReview(requests[task[p]]) /\ task[p] \notin redone =>
        status[task[p]] = "review_processing"
  <2>1. p = "worker" => ~UnderReview(requests[task[p]])
    BY DEF IInv, Control
  <2> QED BY <2>1, OwnTask, TwoProcesses
<1> QED BY <1>1, <1>2, <1>3, <1>4

(* A step elsewhere leaves a process what it has in hand.                   *)
LEMMA HandStays ==
    ASSUME NEW q \in Processes, HandOK(q), UNCHANGED <<requests, executed>>,
           task'[q] = task[q], result'[q] = result[q], signedFiles \subseteq signedFiles'
    PROVE  HandOK(q)'
BY DEF HandOK

LEMMA FitStays ==
    ASSUME NEW q \in Processes, HandFits(q),
           pc'[q] = pc[q], task'[q] = task[q], result'[q] = result[q],
           final'[task[q]] = final[task[q]], saved'[task[q]] = saved[task[q]]
    PROVE  HandFits(q)'
BY DEF HandFits

LEMMA CasesStay ==
    ASSUME NEW q \in Processes, HandCases(q), UNCHANGED cases,
           pc'[q] = pc[q], task'[q] = task[q], result'[q] = result[q],
           saved'[task[q]] = saved[task[q]]
    PROVE  HandCases(q)'
BY DEF HandCases

LEMMA SameStatus ==
    ASSUME NEW r, NEW res, NEW q, SameDelivery(r, res)
    PROVE  WorkerStatus(r, q) = WorkerStatus(res, q)
<1>1. r.assets = res.assets /\ SeenOf(r, 1) = SeenOf(res, 1)
  BY SameFits DEF SameDelivery
<1> QED BY <1>1 DEF WorkerStatus

(* Two processes at work are not on one task, if it is executed once.       *)
LEMMA TasksApart ==
    ASSUME IInv, NEW p \in Processes, NEW q \in Processes, q # p,
           pc[p] \notin {"idle", "finish"}, pc[q] \notin {"idle", "finish"},
           task[q] \notin redone
    PROVE  task[q] \in Tasks /\ task[q] # task[p]
BY OwnTask

LEMMA SignKeeps ==
    ASSUME IInv, NEW p \in Processes, SignAsset(p)
    PROVE  IInv'
<1>0. PICK next \in Chosen(result[p]) :
        /\ signedFiles' = signedFiles \cup {next}
        /\ result' = [result EXCEPT ![p].signed = @ \cup {next}]
  <2> DEFINE res == result[p]
             left == {i \in DOMAIN res.assets : res.assets[i] \in Chosen(res) \ res.signed}
  <2>1. /\ left # {}
        /\ signedFiles' = signedFiles \cup {res.assets[Min(left)]}
        /\ result' = [result EXCEPT ![p].signed = @ \cup {res.assets[Min(left)]}]
    BY DEF SignAsset
  <2>2. IsSeq(res.assets)
    <3>1. pc[p] = "sign"
      BY DEF SignAsset, At
    <3>2. DeliveredFor(result[p], task[p], executed, requests[task[p]])
      BY <3>1, InHand DEF HasResult
    <3> QED BY <3>2 DEF DeliveredFor, DeliveredBy
  <2>3. left \subseteq Nat
    BY <2>2, LenProperties DEF IsSeq
  <2>4. Min(left) \in left
    BY <2>1, <2>3, MinOfNumbers
  <2> QED BY <2>1, <2>4
<1>1. /\ pc[p] = "sign"
      /\ UNCHANGED <<experienceVars, batchVars, taskVars, cases, historyVars, pc, task, lessons,
                     restarts>>
  BY DEF SignAsset, At
<1>a. result[p].credentials = "not_enabled"
  BY DEF SignAsset
<1> USE DEF experienceVars, batchVars, taskVars, historyVars
<1>2. /\ DeliveredFor(result[p], task[p], executed, requests[task[p]])
      /\ DOMAIN result[p] = FinalFields
      /\ Chosen(result[p]) \subseteq ToSet(result[p].assets)
      /\ result[p].signed \subseteq signedFiles
  BY <1>1, InHand DEF HasResult
<1>3. PICK old, new : /\ old = result[p] /\ new = result'[p]
                      /\ new = [old EXCEPT !.signed = old.signed \cup {next}]
  BY <1>0 DEF IInv, Types
<1>4. /\ SameDelivery(new, old) /\ SameRecords(new, old) /\ new.status = old.status
      /\ new.signed = old.signed \cup {next} /\ new.credentials = old.credentials
  <2>1. DOMAIN old = FinalFields
    BY <1>2, <1>3
  <2>2. PICK s : s = old.signed \cup {next}
    OBVIOUS
  <2>3. new = [old EXCEPT !.signed = s]
    BY <1>3, <2>2
  <2> QED BY <2>1, <2>2, <2>3, SignatureAdded
<1>5. new # None
  BY <1>4, RecordIsSome DEF SameDelivery
<1>6. /\ DOMAIN result' = Processes
      /\ \A q \in Processes \ {p} : result'[q] = result[q]
  BY <1>0 DEF IInv, Types
<1>7. Types'
  BY <1>1, <1>6 DEF IInv, Types
<1>8. LessonsTyped'
  BY <1>1 DEF IInv, LessonsTyped
<1>9. Control' /\ ReviewOK' /\ Intact'
  <2>1. \A q \in Processes : result'[q] = None <=> result[q] = None
    BY <1>1, <1>3, <1>5, <1>6, InHand DEF HasResult
  <2>2. Control'
    BY <1>1, <2>1 DEF IInv, Control
  <2> QED BY <1>1, <2>2 DEF IInv, ReviewOK, Intact
<1>10. BatchOK'
  BY <1>1 DEF IInv, BatchOK, Indices
<1>b. signedFiles \subseteq signedFiles'
  BY <1>0
<1>11. ResultOK'
  <2>1. DeliveredFor(new, task[p], executed, requests[task[p]])
    BY <1>2, <1>3, <1>4, SameDelivered
  <2>2. new.signed \subseteq signedFiles'
    BY <1>0, <1>2, <1>3, <1>4
  <2>3. WorkerStatus(new, requests[task[p]]) = WorkerStatus(old, requests[task[p]])
    BY <1>4, SameStatus
  <2>4. /\ p = "worker" => old.status = WorkerStatus(old, requests[task[p]])
        /\ p = "api" => old.status = "completed"
    BY <1>1, <1>3 DEF IInv, ResultOK, HandOK, HasResult
  <2>5. HandOK(p)'
    BY <1>1, <1>3, <1>4, <2>1, <2>2, <2>3, <2>4 DEF HandOK
  <2>6. ASSUME NEW q \in Processes, q # p, pc[q] \in HasResult
        PROVE  HandOK(q)'
    BY <1>1, <1>6, <1>b, <2>6, HandStays DEF IInv, ResultOK
  <2> QED BY <1>1, <2>5, <2>6 DEF ResultOK
<1>c. HandsFit'
  <2>1. ASSUME task[p] \notin redone PROVE HandFits(p)'
    <3>1. HandFits(p)
      BY <1>1, <2>1, InHand DEF HasResult
    <3>2. FinalFits(new, final[task[p]])
      BY <1>3, <1>4, <3>1, SameFits DEF HandFits
    <3>3. p = "api" => SameDelivery(new, saved[task[p]])
      BY <1>1, <1>3, <1>4, <3>1 DEF SameDelivery, HandFits
    <3>4. ~new.recorded /\ ~new.taught /\ new.credentials = "not_enabled"
      BY <1>1, <1>a, <1>3, <1>4, <3>1 DEF HandFits, SameRecords
    <3> QED BY <1>1, <1>3, <3>2, <3>3, <3>4 DEF HandFits
  <2>2. ASSUME NEW q \in Processes, q # p, pc[q] \in HasResult, task[q] \notin redone
        PROVE  HandFits(q)'
    BY <1>1, <1>6, <2>2, FitStays DEF IInv, HandsFit
  <2> QED BY <1>1, <2>1, <2>2 DEF HandsFit
<1>12. SavedOK' /\ AllFit'
  <2>1. SavedOK'
    BY <1>1, <1>b DEF IInv, SavedOK
  <2>2. AllFit'
    BY <1>1 DEF IInv, AllFit, SavedFits
  <2> QED BY <2>1, <2>2
<1>13. SignedOK'
  <2>1. \E x \in DOMAIN executed :
          /\ \E f \in 1..4 : next \in AssetsOf(x, f)
          /\ UnderReview(requests[executed[x]]) /\ executed[x] \notin redone =>
               status[executed[x]] \in {"review_processing", "completed"}
    BY <1>1, <1>2, PictureInHand
  <2> QED BY <1>0, <1>1, <2>1 DEF IInv, SignedOK
<1>14. CasesOK'
  <2>1. Recorded(new, cases) = Recorded(old, cases)
    BY <1>4, SameCases
  <2>2. ASSUME NEW q \in Processes, task[q] \notin redone PROVE HandCases(q)'
    <3>1. CASE q = p
      BY <1>1, <1>3, <2>1, <2>2, <3>1 DEF IInv, CasesOK, HandCases
    <3>2. CASE q # p
      BY <1>1, <1>6, <2>2, <3>2 DEF IInv, CasesOK, HandCases
    <3> QED BY <3>1, <3>2
  <2>3. OneCase' /\ \A u \in Tasks \ redone : SavedCases(u)'
    BY <1>1 DEF IInv, CasesOK, OneCase, SavedCases
  <2> QED BY <1>1, <2>2, <2>3 DEF CasesOK
<1> QED BY <1>7, <1>8, <1>9, <1>10, <1>11, <1>c, <1>12, <1>13, <1>14 DEF IInv

LEMMA UpdateKeeps ==
    ASSUME IInv, NEW p \in Processes, UpdateFinal(p)
    PROVE  IInv'
<1>0. /\ pc[p] = "sign" /\ pc' = [pc EXCEPT ![p] = "remember"]
      /\ Provenance = "signer" => Chosen(result[p]) \subseteq result[p].signed
      /\ result' = [result EXCEPT ![p].credentials = Credentials(result[p])]
      /\ final' = IF Provenance = "off" \/ result[p].credentials # "not_enabled" THEN final
                  ELSE [final EXCEPT ![task[p]] = FinalAsset(result[p], @)]
      /\ UNCHANGED <<experienceVars, batchVars, requests, job, status, saved, recordVars,
                     historyVars, task, lessons, restarts>>
  BY DEF UpdateFinal, At, Goto
<1> USE DEF experienceVars, batchVars, recordVars, historyVars
<1>1. /\ DeliveredFor(result[p], task[p], executed, requests[task[p]])
      /\ DOMAIN result[p] = FinalFields /\ result[p] # None
      /\ Chosen(result[p]) \subseteq ToSet(result[p].assets)
      /\ result[p].best # None => result[p].best \in Chosen(result[p])
      /\ result[p].signed \subseteq signedFiles
      /\ task[p] \notin redone => HandFits(p)
  BY <1>0, InHand DEF HasResult
<1>2. task[p] \in Tasks
  BY <1>0, OwnTask
<1>a. \A q \in Processes \ {p} :
        pc[q] \notin {"idle", "finish"} /\ task[q] \notin redone =>
          task[q] \in Tasks /\ task[q] # task[p]
  BY <1>0, TasksApart
<1>3. PICK old, new, t : /\ old = result[p] /\ new = result'[p] /\ t = task[p]
                         /\ new = [old EXCEPT !.credentials = Credentials(old)]
  BY <1>0 DEF IInv, Types
<1>4. /\ SameDelivery(new, old) /\ SameRecords(new, old) /\ new.status = old.status
      /\ new.signed = old.signed /\ new.credentials = Credentials(old)
  <2>1. DOMAIN old = FinalFields
    BY <1>1, <1>3
  <2>2. PICK s : s = Credentials(old)
    OBVIOUS
  <2>3. new = [old EXCEPT !.credentials = s]
    BY <1>3, <2>2
  <2> QED BY <2>1, <2>2, <2>3, CredentialsSet
<1>5. new # None /\ Chosen(new) = Chosen(old) /\ new.best = old.best
  BY <1>4, RecordIsSome, SameFits DEF SameDelivery
<1>6. /\ DOMAIN result' = Processes /\ pc'[p] = "remember"
      /\ DOMAIN final' = Tasks
      /\ \A q \in Processes \ {p} : result'[q] = result[q] /\ pc'[q] = pc[q]
      /\ \A u \in Tasks \ {t} : final'[u] = final[u]
      /\ final'[t] = IF Provenance = "off" \/ old.credentials # "not_enabled" THEN final[t]
                     ELSE FinalAsset(old, final[t])
  BY <1>0, <1>2, <1>3 DEF IInv, Types
<1>7. ASSUME t \notin redone
      PROVE  /\ FinalFits(new, final'[t])
             /\ FinalFits(old, final'[t])
             /\ SignedRight(new, final'[t])
             /\ ~new.recorded /\ ~new.taught
             /\ p = "api" => SameDelivery(old, saved[t])
  <2>0. /\ FinalFits(old, final[t]) /\ old.credentials = "not_enabled"
        /\ ~old.recorded /\ ~old.taught
        /\ p = "api" => SameDelivery(old, saved[t])
    BY <1>0, <1>1, <1>3, <1>7 DEF HandFits
  <2>1. FinalFits(old, final'[t])
    <3>1. CASE Provenance = "off" \/ old.best = None
      BY <2>0, <1>6, <3>1 DEF FinalFits, FinalAsset
    <3>2. CASE ~(Provenance = "off" \/ old.best = None)
      <4>1. final'[t] = [asset |-> old.best, signed |-> old.best \in old.signed]
        BY <1>6, <2>0, <3>2 DEF FinalAsset
      <4>2. "asset" \in DOMAIN final'[t] /\ DOMAIN <<>> = {}
        BY <4>1
      <4>3. final'[t] # None
        BY <4>2 DEF None
      <4> QED BY <4>1, <4>3 DEF FinalFits
    <3> QED BY <3>1, <3>2
  <2>2. FinalFits(new, final'[t])
    BY <1>4, <2>1, SameFits
  <2>3. new.credentials = Credentials(new)
    BY <1>4, <1>5 DEF Credentials
  <2>4. ASSUME Provenance = "signer"
        PROVE  /\ Chosen(new) \subseteq new.signed
               /\ new.best # None => final'[t] = [asset |-> new.best, signed |-> TRUE]
    <3>1. Chosen(old) \subseteq old.signed
      BY <1>0, <1>3, <2>4
    <3>2. ASSUME new.best # None PROVE final'[t] = [asset |-> new.best, signed |-> TRUE]
      <4>1. (old.best \in old.signed) = TRUE
        BY <1>1, <1>3, <1>5, <3>1, <3>2
      <4>2. final'[t] = [asset |-> old.best, signed |-> old.best \in old.signed]
        BY <1>5, <1>6, <2>0, <2>4, <3>2 DEF FinalAsset
      <4> QED BY <1>5, <4>1, <4>2
    <3> QED BY <1>4, <1>5, <3>1, <3>2
  <2>5. SignedRight(new, final'[t])
    BY <2>3, <2>4 DEF SignedRight
  <2> QED BY <1>4, <2>0, <2>1, <2>2, <2>5 DEF SameRecords
<1>8. Types'
  BY <1>0, <1>6 DEF IInv, Types, Labels
<1>9. LessonsTyped'
  BY <1>0 DEF IInv, LessonsTyped
<1>10. Control' /\ ReviewOK' /\ Intact'
  <2>1. ASSUME NEW q \in Processes
        PROVE  /\ result'[q] = None <=> result[q] = None
               /\ pc'[q] = "idle" <=> pc[q] = "idle"
               /\ pc'[q] \in HasResult <=> pc[q] \in HasResult
               /\ pc'[q] \in {"batch", "save", "finish"} => pc[q] = pc'[q]
               /\ pc'[q] = "load" => pc[q] = "load"
               /\ pc'[q] \in {"sign", "remember", "learn"} => pc[q] \in {"sign", "remember", "learn"}
               /\ pc'[q] \in {"idle", "finish"} <=> pc[q] \in {"idle", "finish"}
               /\ pc'[q] # "status" <=> pc[q] # "status"
    BY <1>0, <1>1, <1>3, <1>5, <1>6 DEF HasResult
  <2>2. Control'
    BY <1>0, <2>1 DEF IInv, Control
  <2>3. ReviewOK'
    BY <1>0 DEF IInv, ReviewOK
  <2>4. Intact'
    BY <1>0, <2>1 DEF IInv, Intact
  <2> QED BY <2>2, <2>3, <2>4
<1>11. BatchOK'
  <2>1. pc'["worker"] = "batch" => pc["worker"] = "batch"
    BY <1>6, DeliveryAssumption
  <2> QED BY <1>0, <2>1 DEF IInv, BatchOK, Indices
<1>12. ResultOK'
  <2>1. DeliveredFor(new, t, executed, requests[t])
    BY <1>1, <1>3, <1>4, SameDelivered
  <2>2. WorkerStatus(new, requests[t]) = WorkerStatus(old, requests[t])
    BY <1>4, SameStatus
  <2>3. new.signed \subseteq signedFiles
    BY <1>1, <1>3, <1>4
  <2>4. /\ p = "api" => old.status = "completed"
        /\ p = "worker" => old.status = WorkerStatus(old, requests[t])
    BY <1>0, <1>3 DEF IInv, ResultOK, HandOK, HasResult
  <2>5. HandOK(p)'
    BY <1>0, <1>3, <1>4, <2>1, <2>2, <2>3, <2>4 DEF HandOK
  <2>6. ASSUME NEW q \in Processes, q # p, pc[q] \in HasResult
        PROVE  HandOK(q)'
    BY <1>0, <1>6, <2>6, HandStays DEF IInv, ResultOK
  <2> QED BY <1>6, <2>5, <2>6 DEF ResultOK
<1>c. HandsFit'
  <2>1. ASSUME t \notin redone PROVE HandFits(p)'
    <3>1. p = "api" => SameDelivery(new, saved[t])
      BY <1>4, <1>7, <2>1 DEF SameDelivery
    <3> QED BY <1>0, <1>3, <1>6, <1>7, <2>1, <3>1 DEF HandFits
  <2>2. ASSUME NEW q \in Processes, q # p, pc[q] \in HasResult, task[q] \notin redone
        PROVE  HandFits(q)'
    <3>1. task[q] \in Tasks \ {t} /\ HandFits(q)
      BY <1>a, <1>3, <2>2 DEF IInv, HandsFit, HasResult
    <3> QED BY <1>0, <1>6, <2>2, <3>1, FitStays
  <2> QED BY <1>0, <1>3, <1>6, <2>1, <2>2 DEF HandsFit
<1>13. SavedOK' /\ AllFit'
  <2>1. ASSUME NEW u \in Tasks \ redone PROVE SavedFits(u)'
    <3>1. CASE u = t
      <4>1. /\ saved[t] = None => status[t] \in {"queued", "running", "failed"}
            /\ saved[t] # None /\ saved[t].status = "waiting_for_review" =>
                 Untouched(saved[t])
        BY <1>2, <1>3, <2>1, <3>1 DEF IInv, AllFit, SavedFits
      <4>2. saved[t] # None => p = "api" /\ saved[t].status = "waiting_for_review"
        BY <1>0, <1>3, <2>1, <3>1, TwoProcesses DEF IInv, Intact
      <4>3. saved[t] # None => FinalFits(saved[t], final'[t])
        BY <1>7, <2>1, <3>1, <4>2, SameFits
      <4> QED BY <1>0, <3>1, <4>1, <4>2, <4>3 DEF SavedFits
    <3>2. CASE u # t
      BY <1>0, <1>6, <2>1, <3>2 DEF IInv, AllFit, SavedFits
    <3> QED BY <3>1, <3>2
  <2>2. SavedOK'
    BY <1>0 DEF IInv, SavedOK
  <2> QED BY <1>0, <2>1, <2>2 DEF AllFit
<1>14. SignedOK'
  <2>1. ASSUME final'[t] # None, final'[t].signed, final'[t] # final[t]
        PROVE  /\ final'[t].asset \in signedFiles
               /\ \E x \in DOMAIN executed : executed[x] = t /\ final'[t].asset[1] = x
    <3>1. /\ old.best # None
          /\ final'[t] = [asset |-> old.best, signed |-> old.best \in old.signed]
      BY <1>6, <2>1 DEF FinalAsset
    <3>2. old.best \in old.signed /\ final'[t].asset = old.best
      <4>1. CASE old.best \in old.signed
        BY <3>1, <4>1
      <4>2. CASE old.best \notin old.signed
        <5>0. (old.best \in old.signed) = FALSE
          BY <4>2
        <5>1. final'[t] = [asset |-> old.best, signed |-> FALSE]
          BY <3>1, <5>0
        <5>2. final'[t].signed = FALSE
          BY <5>1
        <5> QED BY <2>1, <5>2
      <4> QED BY <4>1, <4>2
    <3>3. old.best \in ToSet(result[p].assets)
      BY <1>1, <1>3, <3>1
    <3>4. \E x \in DOMAIN executed : executed[x] = t /\ old.best[1] = x
      BY <1>0, <1>3, <3>3, PictureInHand
    <3> QED BY <1>1, <1>3, <3>2, <3>4
  <2>2. ASSUME NEW u \in Tasks, final'[u] # None, final'[u].signed
        PROVE  /\ final'[u].asset \in signedFiles
               /\ \E x \in DOMAIN executed : executed[x] = u /\ final'[u].asset[1] = x
    <3>1. CASE final'[u] = final[u]
      BY <2>2, <3>1 DEF IInv, SignedOK
    <3>2. CASE final'[u] # final[u]
      BY <1>6, <2>1, <2>2, <3>2
    <3> QED BY <3>1, <3>2
  <2> QED BY <1>0, <2>2 DEF IInv, SignedOK
<1>15. CasesOK'
  <2>1. Recorded(new, cases) = Recorded(old, cases)
    BY <1>4, SameCases
  <2>2. ASSUME NEW q \in Processes, task[q] \notin redone PROVE HandCases(q)'
    <3>1. CASE q = p
      BY <1>0, <1>3, <1>6, <2>1, <2>2, <3>1 DEF IInv, CasesOK, HandCases
    <3>2. CASE q # p
      BY <1>0, <1>6, <2>2, <3>2, CasesStay DEF IInv, CasesOK
    <3> QED BY <3>1, <3>2
  <2>3. pc'["worker"] = "batch" => pc["worker"] = "batch"
    BY <1>6, DeliveryAssumption
  <2>4. OneCase' /\ \A u \in Tasks \ redone : SavedCases(u)'
    BY <1>0, <2>3 DEF IInv, CasesOK, OneCase, SavedCases
  <2> QED BY <1>0, <2>2, <2>4 DEF CasesOK
<1> QED BY <1>8, <1>9, <1>10, <1>11, <1>12, <1>c, <1>13, <1>14, <1>15 DEF IInv

(* What is learned from a trace is a sequence of lessons.                   *)
LEMMA LessonsAreSeq ==
    ASSUME NEW trace, TraceTyped(trace)
    PROVE  IsSeq(Lessons(trace))
<1>1. PICK n \in Nat : n = Len(trace) /\ DOMAIN trace = 1..n
  BY LenProperties DEF TraceTyped, IsSeq
<1> DEFINE drawn(i) == IF IsEvaluation(trace[i]) /\ Previous(trace, i) # {}
                       THEN LessonsOf(trace[Max(Previous(trace, i))], trace[i]) ELSE <<>>
           ss == [i \in 1..n |-> drawn(i)]
<1>2. ASSUME NEW i \in 1..n PROVE IsSeq(drawn(i))
  <2>1. CASE ~(IsEvaluation(trace[i]) /\ Previous(trace, i) # {})
    BY <2>1, EmptyIsSeq
  <2>2. CASE IsEvaluation(trace[i]) /\ Previous(trace, i) # {}
    <3>1. PICK j : j \in Previous(trace, i)
      BY <2>2
    <3>2. j \in 1..(i - 1) /\ j \in 1..n /\ IsEvaluation(trace[j])
      BY <3>1 DEF Previous
    <3>3. ASSUME NEW k \in Previous(trace, i) PROVE k = j
      <4>1. /\ k \in 1..(i - 1) /\ IsEvaluation(trace[k])
            /\ \A m \in (k + 1)..(i - 1) : ~IsEvaluation(trace[m])
            /\ \A m \in (j + 1)..(i - 1) : ~IsEvaluation(trace[m])
        BY <3>1, <3>3 DEF Previous
      <4> QED BY <3>2, <4>1
    <3>4. Max(Previous(trace, i)) = j
      <4>0. Previous(trace, i) = {j}
        BY <3>1, <3>3, Zenon
      <4>1. j >= j
        BY <3>2
      <4>2. Max({j}) = j
        BY <4>1 DEF Max
      <4> QED BY <4>0, <4>2
    <3>5. PICK e, l : e = trace[j] /\ l = trace[i]
      OBVIOUS
    <3>6. e.issues \in Seq(Issues)
      <4>1. e \in ToSet(trace)
        BY <1>1, <3>2, <3>5 DEF ToSet
      <4> QED BY <3>2, <3>5, <4>1 DEF TraceTyped
    <3>7. Len(e.issues) \in Nat /\ DOMAIN e.issues = 1..Len(e.issues)
      BY <3>6, LenProperties
    <3>8. PICK m \in Nat : DOMAIN e.issues = 1..m
      BY <3>7
    <3>9. LessonsOf(e, l) = [k \in 1..m |-> LessonsOf(e, l)[k]]
      BY <3>8 DEF LessonsOf
    <3>10. PICK s : s = LessonsOf(e, l) /\ s = [k \in 1..m |-> s[k]]
      BY <3>9
    <3>11. IsSeq(s)
      BY <3>10, GivenByElements
    <3>12. drawn(i) = LessonsOf(trace[j], trace[i])
      BY <2>2, <3>4
    <3> HIDE DEF drawn
    <3> QED BY <3>5, <3>10, <3>11, <3>12
  <2> QED BY <2>1, <2>2
<1>3. Lessons(trace) = FlattenSeq(ss)
  BY <1>1 DEF Lessons
<1>4. ss = [i \in 1..n |-> ss[i]] /\ \A i \in 1..n : IsSeq(ss[i])
  BY <1>2
<1> HIDE DEF ss
<1> QED BY <1>3, <1>4, FlattenedElements

LEMMA TailIsSeq ==
    ASSUME NEW s, IsSeq(s), s # <<>>
    PROVE  IsSeq(Tail(s))
<1>1. Tail(s) \in Seq(ToSet(s))
  BY HeadTailProperties DEF IsSeq
<1> QED BY <1>1, SeqIsSeq

LEMMA LearnKeeps ==
    ASSUME IInv, NEW p \in Processes, Learn(p)
    PROVE  IInv'
<1>0. /\ lessons[p] # <<>> /\ file' = Append(file, Head(lessons[p]))
      /\ known' = [known EXCEPT ![p] = Append(known[p], Head(lessons[p]))]
      /\ lessons' = [lessons EXCEPT ![p] = Tail(lessons[p])]
      /\ UNCHANGED <<batchVars, taskVars, recordVars, historyVars, pc, task, result, restarts>>
  BY DEF Learn, At, AddLesson
<1> USE DEF batchVars, taskVars, recordVars, historyVars
<1>1. LessonsTyped'
  <2>1. /\ IsSeq(file) /\ DOMAIN known = Processes /\ DOMAIN lessons = Processes
        /\ \A q \in Processes : /\ IsSeq(known[q]) /\ ToSet(known[q]) \subseteq ToSet(file)
                                /\ IsSeq(lessons[q])
    BY DEF IInv, LessonsTyped
  <2>2. PICK l, fl, kn, ls : /\ l = Head(lessons[p]) /\ fl = file /\ kn = known[p]
                             /\ ls = lessons[p]
    OBVIOUS
  <2>3. IsSeq(Append(fl, l)) /\ ToSet(Append(fl, l)) = ToSet(fl) \cup {l}
    BY <2>1, <2>2, AppendedElements
  <2>4. IsSeq(Append(kn, l)) /\ ToSet(Append(kn, l)) = ToSet(kn) \cup {l}
    BY <2>1, <2>2, AppendedElements
  <2>5. IsSeq(Tail(ls))
    BY <1>0, <2>1, <2>2, TailIsSeq
  <2>6. IsSeq(file') /\ ToSet(file') = ToSet(file) \cup {l}
    BY <1>0, <2>2, <2>3
  <2>7. /\ known'[p] = Append(kn, l) /\ lessons'[p] = Tail(ls)
        /\ \A q \in Processes \ {p} : known'[q] = known[q] /\ lessons'[q] = lessons[q]
        /\ DOMAIN known' = Processes /\ DOMAIN lessons' = Processes
    BY <1>0, <2>1, <2>2
  <2>8. ASSUME NEW q \in Processes
        PROVE  IsSeq(known'[q]) /\ ToSet(known'[q]) \subseteq ToSet(file') /\ IsSeq(lessons'[q])
    <3>1. CASE q = p
      BY <2>1, <2>2, <2>4, <2>5, <2>6, <2>7, <3>1
    <3>2. CASE q # p
      BY <2>1, <2>6, <2>7, <3>2
    <3> QED BY <3>1, <3>2
  <2> QED BY <2>6, <2>7, <2>8 DEF LessonsTyped
<1>2. Types'
  BY <1>0 DEF IInv, Types
<1>3. Control' /\ ReviewOK' /\ Intact'
  BY <1>0 DEF IInv, Control, ReviewOK, Intact
<1>4. BatchOK'
  BY <1>0 DEF IInv, BatchOK, Indices
<1>5. ResultOK'
  BY <1>0 DEF IInv, ResultOK, HandOK
<1>6. HandsFit'
  BY <1>0 DEF IInv, HandsFit, HandFits
<1>7. SavedOK' /\ AllFit'
  BY <1>0 DEF IInv, SavedOK, AllFit, SavedFits
<1>8. SignedOK'
  BY <1>0 DEF IInv, SignedOK
<1>9. CasesOK'
  <2>1. OneCase' /\ \A u \in Tasks \ redone : SavedCases(u)'
    BY <1>0 DEF IInv, CasesOK, OneCase, SavedCases
  <2>2. ASSUME NEW q \in Processes, task[q] \notin redone PROVE HandCases(q)'
    BY <1>0, <2>2, CasesStay DEF IInv, CasesOK
  <2> QED BY <1>0, <2>1, <2>2 DEF CasesOK
<1> QED BY <1>1, <1>2, <1>3, <1>4, <1>5, <1>6, <1>7, <1>8, <1>9 DEF IInv

(* The case that is recorded fits the delivery.                             *)
LEMMA CaseFitsDelivery ==
    ASSUME NEW res, NEW x, NEW q, RequestOK(q), DeliveredBy(res, x, q), res.assets # <<>>,
           NEW t, NEW c, c.task = t, c.asset = CaseAsset(res), c.score = res.score,
           c.compliant = (res.compliant /\ res.best = CaseAsset(res))
    PROVE  CaseFits(c, t, res) /\ c.asset[1] = x
<1>1. /\ Last(res.assets) \in ToSet(res.assets) /\ \A a \in ToSet(res.assets) : a[1] = x
      /\ res.best # None => res.best \in ToSet(res.assets)
      /\ res.best = None => res.score = -1 /\ res.compliant = FALSE
  <2>1. Last(res.assets) \in ToSet(res.assets)
    BY FirstPicture
  <2>2. /\ \A a \in ToSet(res.assets) : a[1] = x
        /\ res.best # None => res.best \in ToSet(res.assets)
        /\ res.best = None => res.score = -1 /\ res.compliant = FALSE
    BY DeliveredPictures, ZenonT(20)
  <2> QED BY <2>1, <2>2
<1>2. c.asset \in ToSet(res.assets)
  BY <1>1 DEF CaseAsset
<1>3. CASE res.best = None
  <2>1. c.score = -1 /\ c.compliant = FALSE
    <3>1. c.compliant = FALSE
      BY <1>1, <1>3, Zenon
    <3> QED BY <1>1, <1>3, <3>1
  <2> QED BY <1>1, <1>2, <1>3, <2>1 DEF CaseFits
<1>4. CASE res.best # None
  <2>1. CaseAsset(res) = res.best
    BY <1>4 DEF CaseAsset
  <2>2. res.compliant \in BOOLEAN
    <3>1. 1 \in 1..q.formats
      BY DEF RequestOK
    <3>2. ReportsBest(res.summaries[1], SeenOf(res, 1)) /\ res.compliant = res.summaries[1].compliant
      BY <3>1, SummaryFields DEF DeliveredBy
    <3>3. \A o \in SeenOf(res, 1) : o.compliant \in BOOLEAN
      BY DEF DeliveredBy, SeenOf
    <3>4. res.summaries[1].compliant \in BOOLEAN
      <4>1. CASE SeenOf(res, 1) = {}
        BY <3>2, <4>1 DEF ReportsBest
      <4>2. CASE SeenOf(res, 1) # {}
        BY <3>2, <3>3, <4>2 DEF ReportsBest
      <4> QED BY <4>1, <4>2
    <3> QED BY <3>2, <3>4
  <2>3. c.compliant = res.compliant
    <3>1. c.compliant = (res.compliant /\ TRUE)
      BY <2>1, Zenon
    <3>2. CASE res.compliant = TRUE
      BY <3>1, <3>2
    <3>3. CASE res.compliant = FALSE
      BY <3>1, <3>3
    <3> QED BY <2>2, <3>2, <3>3
  <2> QED BY <1>1, <1>2, <1>4, <2>1, <2>3 DEF CaseFits
<1> QED BY <1>3, <1>4
LEMMA RememberKeeps ==
    ASSUME IInv, NEW p \in Processes, Remember(p)
    PROVE  IInv'
<1> DEFINE learned == IF result[p].taught THEN <<>> ELSE Lessons(result[p].trace)
<1>0. /\ pc[p] = "remember" /\ pc' = [pc EXCEPT ![p] = "learn"]
      /\ cases' = IF result[p].assets = <<>> \/ result[p].recorded THEN cases
                  ELSE Append(cases, Case(p))
      /\ lessons' = [lessons EXCEPT ![p] = learned]
      /\ result' = [result EXCEPT ![p].recorded = (result[p].assets # <<>>),
                                  ![p].taught = (result[p].taught \/ learned # <<>>)]
      /\ UNCHANGED <<experienceVars, batchVars, taskVars, signedFiles, historyVars, task,
                     restarts>>
  BY DEF Remember, At, Goto
<1> USE DEF experienceVars, batchVars, taskVars, historyVars
<1>1. task[p] \in Tasks /\ RequestOK(requests[task[p]])
  BY <1>0, OwnTask
<1>a. \A q \in Processes \ {p} :
        pc[q] \notin {"idle", "finish"} /\ task[q] \notin redone =>
          task[q] \in Tasks /\ task[q] # task[p]
  BY <1>0, TasksApart
<1>2. PICK x \in DOMAIN executed :
        executed[x] = task[p] /\ DeliveredBy(result[p], x, requests[task[p]])
  BY <1>0, InHand DEF DeliveredFor, HasResult
<1>3. /\ pc'[p] = "learn" /\ \A q \in Processes \ {p} : pc'[q] = pc[q]
      /\ lessons'[p] = learned
      /\ DOMAIN lessons' = Processes
      /\ \A q \in Processes \ {p} : lessons'[q] = lessons[q]
      /\ DOMAIN result' = Processes
      /\ \A q \in Processes \ {p} : result'[q] = result[q]
  BY <1>0 DEF IInv, Types, LessonsTyped
<1>b. /\ DeliveredFor(result[p], task[p], executed, requests[task[p]])
      /\ DOMAIN result[p] = FinalFields /\ result[p] # None
      /\ result[p].signed \subseteq signedFiles
      /\ task[p] \notin redone => HandFits(p)
  BY <1>0, InHand DEF HasResult
<1>c. PICK res, new, t, rec, tau :
        /\ res = result[p] /\ new = result'[p] /\ t = task[p]
        /\ new = [res EXCEPT !.recorded = rec, !.taught = tau]
  <2>1. PICK rec, tau : /\ rec = (result[p].assets # <<>>)
                        /\ tau = (result[p].taught \/ learned # <<>>)
    OBVIOUS
  <2>2. result' = [result EXCEPT ![p].recorded = rec, ![p].taught = tau]
    BY <1>0, <2>1
  <2>3. DOMAIN result = Processes
    BY DEF IInv, Types
  <2>4. result'[p] = [result[p] EXCEPT !.recorded = rec, !.taught = tau]
    BY <2>2, <2>3
  <2> QED BY <2>4
<1>d. /\ SameDelivery(new, res) /\ new.status = res.status /\ new.signed = res.signed
      /\ new.credentials = res.credentials
  <2>1. DOMAIN res = FinalFields
    BY <1>b, <1>c
  <2>2. new = WithRecords(res, rec, tau)
    BY <1>c DEF WithRecords
  <2> QED BY <2>1, <2>2, RecordsSet
<1>e. new # None /\ Chosen(new) = Chosen(res) /\ new.best = res.best
      /\ new.assets = res.assets
  BY <1>d, RecordIsSome, SameFits DEF SameDelivery
<1>4. Types'
  <2>1. IsSeq(cases')
    <3>1. PICK cs, c : cs = cases /\ c = Case(p)
      OBVIOUS
    <3>2. IsSeq(cs) /\ IsSeq(Append(cs, c))
      BY <3>1, AppendedElements DEF IInv, Types
    <3> QED BY <1>0, <3>1, <3>2
  <2> QED BY <1>0, <1>3, <2>1 DEF IInv, Types, Labels
<1>5. LessonsTyped'
  <2>1. PICK trace : trace = result[p].trace
    OBVIOUS
  <2>2. IsSeq(Lessons(trace))
    BY <1>2, <2>1, LessonsAreSeq DEF DeliveredBy
  <2>3. IsSeq(learned)
    <3>1. CASE result[p].taught
      BY <3>1, EmptyIsSeq
    <3>2. CASE ~result[p].taught
      BY <2>1, <2>2, <3>2
    <3> QED BY <3>1, <3>2
  <2> HIDE DEF learned
  <2> QED BY <1>0, <1>3, <2>3 DEF IInv, LessonsTyped
<1> HIDE DEF learned
<1>6. Control' /\ ReviewOK' /\ Intact'
  <2>1. ASSUME NEW q \in Processes
        PROVE  /\ result'[q] = None <=> result[q] = None
               /\ pc'[q] = "idle" <=> pc[q] = "idle"
               /\ pc'[q] \in HasResult <=> pc[q] \in HasResult
               /\ pc'[q] \in {"batch", "save", "finish"} => pc[q] = pc'[q]
               /\ pc'[q] = "load" => pc[q] = "load"
               /\ pc'[q] \in {"sign", "remember", "learn"} => pc[q] \in {"sign", "remember", "learn"}
               /\ pc'[q] \in {"idle", "finish"} <=> pc[q] \in {"idle", "finish"}
               /\ pc'[q] # "status" <=> pc[q] # "status"
    BY <1>0, <1>b, <1>c, <1>e, <1>3 DEF HasResult
  <2>2. Control'
    BY <1>0, <2>1 DEF IInv, Control
  <2>3. ReviewOK'
    BY <1>0 DEF IInv, ReviewOK
  <2>4. Intact'
    BY <1>0, <2>1 DEF IInv, Intact
  <2> QED BY <2>2, <2>3, <2>4
<1>7. BatchOK'
  <2>1. pc'["worker"] = "batch" => pc["worker"] = "batch"
    BY <1>3, DeliveryAssumption
  <2> QED BY <1>0, <2>1 DEF IInv, BatchOK, Indices
<1>8. ResultOK'
  <2>1. DeliveredFor(new, t, executed, requests[t])
    BY <1>b, <1>c, <1>d, SameDelivered
  <2>2. WorkerStatus(new, requests[t]) = WorkerStatus(res, requests[t])
    BY <1>d, SameStatus
  <2>3. new.signed \subseteq signedFiles
    BY <1>b, <1>c, <1>d
  <2>4. /\ p = "api" => res.status = "completed"
        /\ p = "worker" => res.status = WorkerStatus(res, requests[t])
    BY <1>0, <1>c DEF IInv, ResultOK, HandOK, HasResult
  <2>5. HandOK(p)'
    BY <1>0, <1>c, <1>d, <2>1, <2>2, <2>3, <2>4 DEF HandOK
  <2>6. ASSUME NEW q \in Processes, q # p, pc[q] \in HasResult
        PROVE  HandOK(q)'
    BY <1>0, <1>3, <2>6, HandStays DEF IInv, ResultOK
  <2> QED BY <1>3, <2>5, <2>6 DEF ResultOK
<1>f. HandsFit'
  <2>1. ASSUME t \notin redone PROVE HandFits(p)'
    <3>0. HandFits(p)
      BY <1>b, <1>c, <2>1
    <3>1. /\ FinalFits(res, final[t]) /\ SignedRight(res, final[t])
          /\ p = "api" => SameDelivery(res, saved[t])
      BY <1>0, <1>c, <3>0 DEF HandFits
    <3>2. p = "api" => SameDelivery(new, saved[t])
      BY <1>d, <3>1 DEF SameDelivery
    <3>3. FinalFits(new, final[t])
      BY <1>d, <3>1, SameFits
    <3>4. SignedRight(new, final[t])
      BY <1>d, <1>e, <3>1 DEF SignedRight, Credentials
    <3> QED BY <1>0, <1>c, <1>3, <3>2, <3>3, <3>4 DEF HandFits
  <2>2. ASSUME NEW q \in Processes, q # p, pc[q] \in HasResult, task[q] \notin redone
        PROVE  HandFits(q)'
    BY <1>0, <1>3, <2>2, FitStays DEF IInv, HandsFit
  <2> QED BY <1>0, <1>c, <1>3, <2>1, <2>2 DEF HandsFit
<1>9. SavedOK' /\ AllFit' /\ SignedOK'
  <2>1. SavedOK'
    BY <1>0 DEF IInv, SavedOK
  <2>2. AllFit'
    BY <1>0 DEF IInv, AllFit, SavedFits
  <2>3. SignedOK'
    BY <1>0 DEF IInv, SignedOK
  <2> QED BY <2>1, <2>2, <2>3
<1>10. t \notin redone => Recorded(res, cases) = {} /\ ~res.recorded
  BY <1>0, <1>b, <1>c DEF IInv, CasesOK, HandCases, HandFits
<1>11. CASE res.assets = <<>> \/ res.recorded
  <2>1. cases' = cases
    BY <1>0, <1>c, <1>11
  <2>2. ASSUME NEW q \in Processes, task[q] \notin redone PROVE HandCases(q)'
    <3>1. CASE q = p
      <4>1. res.assets = <<>> /\ Recorded(res, cases) = {}
        BY <1>c, <1>10, <1>11, <2>2, <3>1
      <4>2. Recorded(new, cases) = {} /\ CasesFit(new, t, cases)
        BY <1>e, <4>1 DEF Recorded, CasesFit
      <4> QED BY <1>0, <1>c, <1>e, <1>3, <2>1, <3>1, <4>1, <4>2 DEF HandCases
    <3>2. CASE q # p
      BY <1>0, <1>3, <2>1, <2>2, <3>2, CasesStay DEF IInv, CasesOK
    <3> QED BY <3>1, <3>2
  <2>3. pc'["worker"] = "batch" => pc["worker"] = "batch"
    BY <1>3, DeliveryAssumption
  <2>4. OneCase' /\ \A u \in Tasks \ redone : SavedCases(u)'
    BY <1>0, <2>1, <2>3 DEF IInv, CasesOK, OneCase, SavedCases
  <2>5. CasesOK'
    BY <1>0, <2>2, <2>4 DEF CasesOK
  <2> QED BY <1>4, <1>5, <1>6, <1>7, <1>8, <1>f, <1>9, <2>5 DEF IInv
<1>12. CASE ~(res.assets = <<>> \/ res.recorded)
  <2>1. PICK cs, c, ds, rq, ex :
          /\ cs = cases /\ c = Case(p) /\ ds = Append(cs, c)
          /\ rq = requests[task[p]] /\ ex = executed
    OBVIOUS
  <2>2. cases' = ds /\ IsSeq(cs)
    BY <1>0, <1>c, <1>12, <2>1 DEF IInv, Types
  <2>3. CaseFits(c, t, res) /\ c.asset[1] = x
    <3>1. /\ c.task = t /\ c.asset = CaseAsset(res) /\ c.score = res.score
          /\ c.compliant = (res.compliant /\ res.best = CaseAsset(res))
      BY <1>c, <2>1 DEF Case
    <3>2. res.assets # <<>> /\ RequestOK(rq) /\ DeliveredBy(res, x, rq)
      BY <1>c, <1>1, <1>2, <1>12, <2>1
    <3> QED BY <3>1, <3>2, CaseFitsDelivery
  <2>4. PICK n \in Nat : n = Len(cs) + 1
    BY <2>2, LenProperties DEF IsSeq
  <2>5. /\ DOMAIN cs = 1..(n - 1) /\ DOMAIN ds = 1..n /\ n > 0
        /\ ds[n] = c /\ \A i \in DOMAIN cs : ds[i] = cs[i]
    <3>1. /\ IsSeq(ds) /\ Len(ds) = Len(cs) + 1 /\ ds[Len(cs) + 1] = c
          /\ \A i \in 1..Len(cs) : ds[i] = cs[i]
      BY <2>1, <2>2, AppendedElements
    <3>2. Len(cs) \in Nat /\ DOMAIN cs = 1..Len(cs) /\ DOMAIN ds = 1..Len(ds)
      BY <2>2, <3>1, LenProperties DEF IsSeq
    <3> QED BY <2>4, <3>1, <3>2
  <2>6. DOMAIN ds = DOMAIN cs \cup {n} /\ n \notin DOMAIN cs
    BY <2>5
  <2>7. res.assets[1][1] = x /\ res.assets # <<>>
    <3>1. RequestOK(rq) /\ DeliveredBy(res, x, rq) /\ res.assets # <<>>
      BY <1>c, <1>1, <1>2, <1>12, <2>1
    <3> QED BY <3>1, FirstPicture
  <2>8. t \notin redone => \A i \in DOMAIN cs : cs[i].asset[1] # x
    BY <1>10, <2>1, <2>7 DEF Recorded
  <2>9. ASSUME t \notin redone
        PROVE  Recorded(res, ds) = {n} /\ CasesFit(res, t, ds)
    <3>1. Recorded(res, cs) = {}
      BY <1>10, <2>1, <2>9
    <3>2. Recorded(res, ds) = Recorded(res, cs) \cup {n}
      <4>1. res.assets # <<>> /\ ds[n].asset[1] = res.assets[1][1]
        BY <2>3, <2>5, <2>7
      <4>2. n \notin DOMAIN cs /\ DOMAIN ds = DOMAIN cs \cup {n}
            /\ \A i \in DOMAIN cs : ds[i] = cs[i]
        BY <2>5, <2>6
      <4> QED BY <4>1, <4>2 DEF Recorded
    <3> QED BY <2>3, <2>5, <3>1, <3>2 DEF CasesFit
  <2>10. ASSUME NEW other, NEW u \in Tasks, u # t, DeliveredFor(other, u, ex, requests[u])
         PROVE  /\ Recorded(other, ds) = Recorded(other, cs)
                /\ CasesFit(other, u, ds) <=> CasesFit(other, u, cs)
    <3>1. RequestOK(requests[u])
      BY DEF IInv, Types
    <3>2. PICK w : w = requests[u]
      OBVIOUS
    <3>3. /\ RequestOK(w) /\ DeliveredFor(other, u, ex, w) /\ IsSeq(cs) /\ c.asset[1] = x
          /\ x \in DOMAIN ex /\ ex[x] # u
      BY <1>c, <1>2, <2>1, <2>2, <2>3, <2>10, <3>1, <3>2
    <3>4. Recorded(other, Append(cs, c)) = Recorded(other, cs)
      BY <3>3, RecordedElsewhere
    <3>5. CasesFit(other, u, Append(cs, c)) <=> CasesFit(other, u, cs)
      BY <3>3, CasesElsewhere
    <3> QED BY <2>1, <3>4, <3>5
  <2>11. \A i \in DOMAIN ds : ds[i].asset[1] \in DOMAIN executed
    BY <2>1, <2>3, <2>5, <2>6 DEF IInv, CasesOK, OneCase
  <2>12. \A i, j \in DOMAIN ds :
           ds[i].asset[1] = ds[j].asset[1] /\ executed[ds[i].asset[1]] \notin redone => i = j
    <3>1. \A i, j \in DOMAIN cs :
            cs[i].asset[1] = cs[j].asset[1] /\ executed[cs[i].asset[1]] \notin redone => i = j
      BY <2>1 DEF IInv, CasesOK, OneCase
    <3>2. executed[x] \notin redone => \A i \in DOMAIN cs : cs[i].asset[1] # x
      BY <1>c, <1>2, <2>8
    <3> QED BY <2>3, <2>5, <2>6, <3>1, <3>2
  <2>13. pc'["worker"] = "batch" /\ task["worker"] \notin redone =>
           \A i \in DOMAIN ds : ds[i].asset[1] # execution
    <3> SUFFICES ASSUME pc'["worker"] = "batch", task["worker"] \notin redone
                 PROVE  \A i \in DOMAIN ds : ds[i].asset[1] # execution
      OBVIOUS
    <3>1. pc["worker"] = "batch" /\ p # "worker"
      BY <1>3, DeliveryAssumption
    <3>2. executed[execution] = task["worker"]
      BY <3>1 DEF IInv, BatchOK
    <3>3. execution # x
      BY <1>a, <1>2, <3>1, <3>2, DeliveryAssumption
    <3>4. \A i \in DOMAIN cs : cs[i].asset[1] # execution
      BY <2>1, <3>1 DEF IInv, CasesOK, OneCase
    <3> QED BY <2>3, <2>5, <2>6, <3>3, <3>4
  <2>14. ASSUME NEW q \in Processes, task[q] \notin redone
         PROVE  HandCases(q)'
    <3>1. CASE q = p
      <4>1. Recorded(res, ds) = {n} /\ CasesFit(res, t, ds)
        BY <1>c, <2>9, <2>14, <3>1
      <4>2. PICK r1, r2 : r1 = res /\ r2 = new
        OBVIOUS
      <4>3. /\ Recorded(r2, ds) = Recorded(r1, ds)
            /\ CasesFit(r2, t, ds) <=> CasesFit(r1, t, ds)
        BY <1>d, <4>2, SameCases
      <4>4. Recorded(new, ds) # {} /\ CasesFit(new, t, ds)
        BY <4>1, <4>2, <4>3
      <4> QED BY <1>0, <1>c, <1>3, <2>2, <3>1, <4>4 DEF HandCases
    <3>2. CASE q # p /\ pc[q] \in HasResult
      <4>1. task[q] \in Tasks /\ task[q] # t
        BY <1>a, <1>c, <2>14, <3>2 DEF HasResult
      <4>2. DeliveredFor(result[q], task[q], ex, requests[task[q]])
        BY <2>1, <3>2, InHand
      <4>3. /\ Recorded(result[q], ds) = Recorded(result[q], cs)
            /\ CasesFit(result[q], task[q], ds) <=> CasesFit(result[q], task[q], cs)
        BY <2>10, <4>1, <4>2
      <4>4. HandCases(q) /\ pc[q] # "load"
        BY <2>14, <3>2 DEF IInv, CasesOK, HasResult
      <4> QED BY <1>0, <1>3, <2>1, <2>2, <3>2, <4>3, <4>4 DEF HandCases
    <3>3. CASE q # p /\ pc[q] = "load"
      <4>1. task[q] \in Tasks /\ task[q] # t
        BY <1>a, <1>c, <2>14, <3>3
      <4>2. saved[task[q]] # None
        <5>1. q = "api"
          BY <3>3 DEF IInv, Control
        <5> QED BY <3>3, <5>1 DEF IInv, Control
      <4>3. DeliveredFor(saved[task[q]], task[q], ex, requests[task[q]])
        BY <2>1, <4>1, <4>2 DEF IInv, SavedOK
      <4>4. Recorded(saved[task[q]], ds) = Recorded(saved[task[q]], cs)
        BY <2>10, <4>1, <4>3
      <4>5. HandCases(q)
        BY <2>14 DEF IInv, CasesOK
      <4> QED BY <1>0, <1>3, <2>1, <2>2, <3>3, <4>4, <4>5 DEF HandCases
    <3>4. CASE q # p /\ pc[q] \notin HasResult /\ pc[q] # "load"
      BY <1>3, <3>4 DEF HandCases, HasResult
    <3> QED BY <3>1, <3>2, <3>3, <3>4
  <2>15. ASSUME NEW u \in Tasks \ redone
         PROVE  SavedCases(u)'
    <3> SUFFICES ASSUME saved[u] # None PROVE SavedCases(u)'
      BY <1>0 DEF SavedCases
    <3>1. CASE u = t
      <4>1. p = "api"
        BY <1>0, <1>c, <2>15, <3>1, TwoProcesses DEF IInv, Intact
      <4>2. /\ SameDelivery(res, saved[u]) /\ status[u] = "review_processing"
            /\ saved[u].status = "waiting_for_review"
        BY <1>0, <1>b, <1>c, <2>15, <3>1, <4>1 DEF IInv, Intact, HandFits
      <4>3. PICK sv : sv = saved[u]
        OBVIOUS
      <4>4. /\ Recorded(res, ds) = Recorded(sv, ds)
            /\ CasesFit(res, t, ds) <=> CasesFit(sv, t, ds)
        BY <4>2, <4>3, SameCases
      <4>5. CasesFit(saved[u], u, ds)
        BY <2>9, <2>15, <3>1, <4>3, <4>4
      <4> QED BY <1>0, <2>2, <4>2, <4>5 DEF SavedCases
    <3>2. CASE u # t
      <4>1. DeliveredFor(saved[u], u, ex, requests[u])
        BY <2>1, <2>15 DEF IInv, SavedOK
      <4>2. /\ Recorded(saved[u], ds) = Recorded(saved[u], cs)
            /\ CasesFit(saved[u], u, ds) <=> CasesFit(saved[u], u, cs)
        BY <2>10, <2>15, <3>2, <4>1
      <4>3. SavedCases(u)
        BY <2>15 DEF IInv, CasesOK
      <4> QED BY <1>0, <2>1, <2>2, <2>15, <4>2, <4>3 DEF SavedCases
    <3> QED BY <3>1, <3>2
  <2>16. CasesOK'
    <3>1. OneCase'
      BY <1>0, <2>2, <2>11, <2>12, <2>13 DEF OneCase
    <3> QED BY <1>0, <2>14, <2>15, <3>1 DEF CasesOK
  <2> QED BY <1>4, <1>5, <1>6, <1>7, <1>8, <1>f, <1>9, <2>16 DEF IInv
<1> QED BY <1>11, <1>12

-----------------------------------------------------------------------------
(* Steps with which a process saves its result.                             *)

LEMMA SaveResultKeeps ==
    ASSUME IInv, NEW p \in Processes, SaveResult(p)
    PROVE  IInv'
<1>0. /\ pc[p] \in {"save", "learn"} /\ pc' = [pc EXCEPT ![p] = "status"]
      /\ saved' = [saved EXCEPT ![task[p]] = result[p]]
      /\ UNCHANGED <<experienceVars, batchVars, requests, job, status, final, recordVars,
                     historyVars, task, result, lessons, restarts>>
  BY DEF SaveResult, At, Goto
<1> USE DEF experienceVars, batchVars, recordVars, historyVars
<1>1. /\ task[p] \in Tasks /\ RequestOK(requests[task[p]])
      /\ task[p] \notin redone => status[task[p]] \in {"running", "review_processing"}
  BY <1>0, OwnTask, TwoProcesses
<1>a. \A q \in Processes \ {p} :
        pc[q] \notin {"idle", "finish"} /\ task[q] \notin redone =>
          task[q] \in Tasks /\ task[q] # task[p]
  BY <1>0, TasksApart
<1>2. PICK t, res : t = task[p] /\ res = result[p]
  OBVIOUS
<1>3. /\ saved'[t] = res /\ DOMAIN saved' = Tasks
      /\ \A u \in Tasks \ {t} : saved'[u] = saved[u]
      /\ pc'[p] = "status" /\ \A q \in Processes \ {p} : pc'[q] = pc[q]
      /\ pc' \in [Processes -> Labels]
  BY <1>0, <1>1, <1>2 DEF IInv, Types, Labels
<1>4. /\ DeliveredFor(res, t, executed, requests[t]) /\ res # None
      /\ res.signed \subseteq signedFiles
      /\ t \notin redone => HandFits(p)
  BY <1>0, <1>2, InHand DEF HasResult
<1>5. /\ pc[p] = "save" => p = "worker" /\ UnderReview(requests[t])
      /\ p = "api" => res.status = "completed" /\ UnderReview(requests[t])
      /\ p = "worker" => res.status = WorkerStatus(res, requests[t])
      /\ p = "worker" /\ pc[p] = "learn" => ~UnderReview(requests[t])
  <2>1. HandOK(p)
    BY <1>0 DEF IInv, ResultOK, HasResult
  <2>2. /\ pc[p] = "save" => p = "worker" /\ UnderReview(requests[t])
        /\ p = "api" => UnderReview(requests[t])
        /\ p = "worker" /\ pc[p] = "learn" => ~UnderReview(requests[t])
    BY <1>0, <1>2 DEF IInv, Control
  <2> QED BY <1>2, <2>1, <2>2 DEF HandOK
<1>6. /\ pc[p] = "save" => res.status = "waiting_for_review"
      /\ pc[p] = "learn" => res.status # "waiting_for_review"
  BY <1>5, TwoProcesses DEF WorkerStatus, StatusOf
<1>7. Types' /\ LessonsTyped'
  BY <1>0, <1>3 DEF IInv, Types, LessonsTyped
<1>8. Control' /\ ReviewOK' /\ Intact'
  <2>1. \A u \in Tasks : saved[u] # None => saved'[u] # None
    BY <1>3, <1>4
  <2>2. ASSUME NEW q \in Processes
        PROVE  /\ pc'[q] = "idle" <=> pc[q] = "idle"
               /\ pc'[q] \in HasResult <=> pc[q] \in HasResult
               /\ pc'[q] \in {"batch", "save", "finish"} => pc[q] = pc'[q]
               /\ pc'[q] = "load" => pc[q] = "load"
               /\ pc'[q] \in {"sign", "remember", "learn"} => pc[q] = pc'[q]
    BY <1>0, <1>3 DEF HasResult
  <2>3. \A q \in Processes : pc[q] # "idle" => task[q] \in Tasks
    BY OwnTask
  <2>4. Control'
    BY <1>0, <2>1, <2>2, <2>3 DEF IInv, Control
  <2>5. ReviewOK'
    BY <1>0, <2>1 DEF IInv, ReviewOK, Types
  <2>6. Intact'
    <3> SUFFICES ASSUME NEW q \in Processes, pc'[q] \notin {"idle", "finish"},
                        task[q] \notin redone
                 PROVE  /\ q = "worker" => /\ status[task[q]] = "running"
                                           /\ pc'[q] # "status" => saved'[task[q]] = None
                        /\ q = "api" =>
                             /\ status[task[q]] = "review_processing"
                             /\ pc'[q] # "status" =>
                                  saved'[task[q]].status = "waiting_for_review"
      BY <1>0 DEF Intact
    <3>1. CASE q = p
      BY <1>0, <1>3, <3>1, OwnTask
    <3>2. CASE q # p
      BY <1>a, <1>2, <1>3, <3>2 DEF IInv, Intact
    <3> QED BY <3>1, <3>2
  <2> QED BY <2>4, <2>5, <2>6
<1>9. BatchOK'
  <2>1. pc'["worker"] = "batch" => pc["worker"] = "batch"
    BY <1>3, DeliveryAssumption
  <2> QED BY <1>0, <2>1 DEF IInv, BatchOK, Indices
<1>10. ResultOK'
  <2>1. ASSUME NEW q \in Processes, pc'[q] \in HasResult PROVE HandOK(q)'
    <3>1. pc[q] \in HasResult
      BY <1>0, <1>3, <2>1 DEF HasResult
    <3> QED BY <1>0, <3>1, HandStays DEF IInv, ResultOK
  <2> QED BY <2>1 DEF ResultOK
<1>11. HandsFit'
  <2>1. ASSUME t \notin redone PROVE HandFits(p)'
    <3>1. FinalFits(res, final[t])
      BY <1>2, <1>4, <2>1 DEF HandFits
    <3> QED BY <1>0, <1>2, <1>3, <3>1 DEF HandFits
  <2>2. ASSUME NEW q \in Processes, q # p, pc[q] \in HasResult, task[q] \notin redone
        PROVE  HandFits(q)'
    <3>1. task[q] \in Tasks \ {t} /\ HandFits(q)
      BY <1>a, <1>2, <2>2 DEF IInv, HandsFit, HasResult
    <3> QED BY <1>0, <1>3, <2>2, <3>1, FitStays
  <2> QED BY <1>0, <1>2, <1>3, <2>1, <2>2 DEF HandsFit
<1>12. SavedOK'
  <2>1. ASSUME NEW u \in Tasks, saved'[u] # None
        PROVE  /\ DeliveredFor(saved'[u], u, executed, requests[u])
               /\ saved'[u].signed \subseteq signedFiles
               /\ \/ saved'[u].status = WorkerStatus(saved'[u], requests[u])
                  \/ saved'[u].status = "completed" /\ UnderReview(requests[u])
    <3>1. CASE u = t
      BY <1>3, <1>4, <1>5, <3>1, TwoProcesses
    <3>2. CASE u # t
      <4>1. saved'[u] = saved[u] /\ saved[u] # None
        BY <1>3, <2>1, <3>2
      <4>2. /\ DeliveredFor(saved[u], u, executed, requests[u])
            /\ saved[u].signed \subseteq signedFiles
            /\ \/ saved[u].status = WorkerStatus(saved[u], requests[u])
               \/ saved[u].status = "completed" /\ UnderReview(requests[u])
        BY <4>1 DEF IInv, SavedOK
      <4> QED BY <4>1, <4>2
    <3> QED BY <3>1, <3>2
  <2> QED BY <1>0, <2>1 DEF SavedOK
<1>13. AllFit'
  <2>1. ASSUME NEW u \in Tasks \ redone PROVE SavedFits(u)'
    <3>1. CASE u = t
      <4>1. FinalFits(res, final[t]) /\ HandFits(p)
        BY <1>2, <1>4, <2>1, <3>1 DEF HandFits
      <4>2. CASE pc[p] = "save"
        <5>1. Untouched(res)
          BY <1>2, <4>1, <4>2 DEF HandFits, Untouched
        <5> QED BY <1>0, <1>3, <1>4, <1>6, <3>1, <4>1, <4>2, <5>1 DEF SavedFits
      <4>3. CASE pc[p] = "learn"
        <5>1. SignedRight(res, final[t])
          BY <1>2, <4>1, <4>3 DEF HandFits
        <5>2. status[t] # "waiting_for_review"
          BY <1>1, <1>2, <2>1, <3>1
        <5> QED BY <1>0, <1>3, <1>4, <1>6, <3>1, <4>1, <4>3, <5>1, <5>2 DEF SavedFits
      <4> QED BY <1>0, <4>2, <4>3
    <3>2. CASE u # t
      <4>1. SavedFits(u) /\ saved'[u] = saved[u]
        BY <1>3, <2>1, <3>2 DEF IInv, AllFit
      <4> QED BY <1>0, <4>1 DEF SavedFits
    <3> QED BY <3>1, <3>2
  <2> QED BY <1>0, <2>1 DEF AllFit
<1>14. SignedOK'
  BY <1>0 DEF IInv, SignedOK
<1>15. CasesOK'
  <2>1. OneCase'
    <3>1. pc'["worker"] = "batch" => pc["worker"] = "batch"
      BY <1>3, DeliveryAssumption
    <3> QED BY <1>0, <3>1 DEF IInv, CasesOK, OneCase
  <2>2. ASSUME NEW q \in Processes, task[q] \notin redone PROVE HandCases(q)'
    <3>1. CASE q = p
      BY <1>3, <3>1 DEF HandCases
    <3>2. CASE q # p /\ pc[q] \notin {"idle", "finish"}
      <4>1. task[q] \in Tasks \ {t} /\ HandCases(q)
        BY <1>a, <1>2, <2>2, <3>2 DEF IInv, CasesOK
      <4> QED BY <1>0, <1>3, <3>2, <4>1, CasesStay
    <3>3. CASE q # p /\ pc[q] \in {"idle", "finish"}
      BY <1>3, <3>3 DEF HandCases
    <3> QED BY <3>1, <3>2, <3>3
  <2>3. ASSUME NEW u \in Tasks \ redone PROVE SavedCases(u)'
    <3>1. CASE u = t
      <4>1. HandCases(p)
        BY <1>2, <2>3, <3>1 DEF IInv, CasesOK
      <4>2. CASE pc[p] = "save"
        <5>1. Recorded(res, cases) = {}
          BY <1>2, <4>1, <4>2 DEF HandCases
        <5> QED BY <1>0, <1>3, <1>6, <3>1, <4>2, <5>1 DEF SavedCases, CasesFit
      <4>3. CASE pc[p] = "learn"
        BY <1>0, <1>2, <1>3, <1>6, <3>1, <4>1, <4>3 DEF SavedCases, HandCases
      <4> QED BY <1>0, <4>2, <4>3
    <3>2. CASE u # t
      <4>1. SavedCases(u) /\ saved'[u] = saved[u]
        BY <1>3, <2>3, <3>2 DEF IInv, CasesOK
      <4> QED BY <1>0, <4>1 DEF SavedCases
    <3> QED BY <3>1, <3>2
  <2> QED BY <1>0, <2>1, <2>2, <2>3 DEF CasesOK
<1> QED BY <1>7, <1>8, <1>9, <1>10, <1>11, <1>12, <1>13, <1>14, <1>15 DEF IInv
-----------------------------------------------------------------------------
(* Steps after which a process is not at work on its task any more.         *)

(* What the process has is gone; the worker may have the job still.         *)
Leaves(p) ==
    /\ \/ pc' = [pc EXCEPT ![p] = "idle"] /\ task' = [task EXCEPT ![p] = NoTask]
       \/ /\ p = "worker" /\ pc[p] # "idle"
          /\ pc' = [pc EXCEPT ![p] = "finish"] /\ UNCHANGED task
    /\ result' = [result EXCEPT ![p] = None]
    /\ lessons' = [lessons EXCEPT ![p] = <<>>]

(* The status of the task changes only if the process was at work on it.    *)
StatusMoves(p) ==
    \/ UNCHANGED status
    \/ /\ pc[p] \notin {"idle", "finish"} /\ DOMAIN status' = Tasks
       /\ \A u \in Tasks \ {task[p]} : status'[u] = status[u]

LEMMA LeaveKeeps ==
    ASSUME IInv, NEW p \in Processes, Leaves(p), StatusMoves(p),
           UNCHANGED <<requests, saved, final, recordVars, historyVars, execution, file>>,
           known' = known \/ known' = [known EXCEPT ![p] = file],
           p = "worker" \/ UNCHANGED batchVars
    PROVE  /\ LessonsTyped' /\ Control' /\ Intact' /\ BatchOK' /\ ResultOK' /\ HandsFit'
           /\ SavedOK' /\ OneCase'
           /\ \A q \in Processes : task'[q] \notin redone => HandCases(q)'
           /\ pc' \in [Processes -> Labels] /\ task' \in [Processes -> Tasks \cup {NoTask}]
           /\ DOMAIN result' = Processes
<1> USE DEF recordVars, historyVars
<1>1. /\ pc \in [Processes -> Labels] /\ task \in [Processes -> Tasks \cup {NoTask}]
      /\ DOMAIN result = Processes
      /\ pc[p] = "idle" <=> task[p] = NoTask
  BY DEF IInv, Types, Control
<1>2. /\ pc'[p] \in {"idle", "finish"} /\ result'[p] = None
      /\ pc'[p] = "idle" <=> task'[p] = NoTask
      /\ pc'[p] = "finish" => p = "worker"
      /\ \A q \in Processes \ {p} :
           pc'[q] = pc[q] /\ task'[q] = task[q] /\ result'[q] = result[q]
      /\ pc' \in [Processes -> Labels] /\ task' \in [Processes -> Tasks \cup {NoTask}]
      /\ DOMAIN result' = Processes
  <2>1. /\ result'[p] = None /\ DOMAIN result' = Processes
        /\ \A q \in Processes \ {p} : result'[q] = result[q]
    BY <1>1 DEF Leaves
  <2>2. CASE pc' = [pc EXCEPT ![p] = "idle"] /\ task' = [task EXCEPT ![p] = NoTask]
    BY <1>1, <2>1, <2>2 DEF Labels
  <2>3. CASE /\ p = "worker" /\ pc[p] # "idle"
             /\ pc' = [pc EXCEPT ![p] = "finish"] /\ UNCHANGED task
    BY <1>1, <2>1, <2>3 DEF Labels
  <2> QED BY <2>2, <2>3 DEF Leaves
<1>3. LessonsTyped'
  <2>1. /\ IsSeq(file) /\ DOMAIN known = Processes /\ DOMAIN lessons = Processes
        /\ \A q \in Processes : /\ IsSeq(known[q]) /\ ToSet(known[q]) \subseteq ToSet(file)
                                /\ IsSeq(lessons[q])
    BY DEF IInv, LessonsTyped
  <2>2. /\ DOMAIN lessons' = Processes /\ lessons'[p] = <<>>
        /\ \A q \in Processes \ {p} : lessons'[q] = lessons[q]
    BY <2>1 DEF Leaves
  <2>3. /\ DOMAIN known' = Processes
        /\ \A q \in Processes : known'[q] = known[q] \/ known'[q] = file
    BY <2>1
  <2> QED BY <2>1, <2>2, <2>3, EmptyIsSeq DEF LessonsTyped
<1>4. Control'
  <2>1. ASSUME NEW q \in Processes, q # p
        PROVE  /\ pc[q] = "idle" <=> task[q] = NoTask
               /\ pc[q] \in HasResult <=> result[q] # None
               /\ pc[q] \in {"batch", "save", "finish"} => q = "worker"
               /\ pc[q] = "load" => q = "api"
               /\ pc[q] = "save" => UnderReview(requests[task[q]])
               /\ q = "worker" /\ pc[q] \in {"sign", "remember", "learn"} =>
                    ~UnderReview(requests[task[q]])
               /\ q = "api" /\ pc[q] # "idle" =>
                    UnderReview(requests[task[q]]) /\ saved[task[q]] # None
    BY DEF IInv, Control
  <2>2. p = "api" => pc'[p] = "idle"
    BY <1>2
  <2> QED BY <1>2, <2>1, <2>2 DEF Control, HasResult
<1>5. Intact'
  <2>1. ASSUME NEW q \in Processes, pc'[q] \notin {"idle", "finish"}, task'[q] \notin redone
        PROVE  /\ q # p /\ pc[q] = pc'[q] /\ task'[q] = task[q]
               /\ status'[task[q]] = status[task[q]]
    <3>1. q # p /\ pc[q] = pc'[q] /\ task'[q] = task[q]
      BY <1>2, <2>1
    <3>2. pc[p] \notin {"idle", "finish"} => task[q] \in Tasks \ {task[p]}
      BY <2>1, <3>1, TasksApart
    <3> QED BY <3>1, <3>2 DEF StatusMoves
  <2> QED BY <2>1 DEF IInv, Intact
<1>6. BatchOK'
  <2>1. pc'["worker"] = "batch" => p # "worker" /\ pc["worker"] = "batch"
    BY <1>2, DeliveryAssumption
  <2>2. pc'["worker"] = "batch" => UNCHANGED batchVars /\ task'["worker"] = task["worker"]
    BY <1>2, <2>1, DeliveryAssumption
  <2> QED BY <2>1, <2>2 DEF IInv, BatchOK, Indices, batchVars
<1>7. ResultOK' /\ HandsFit'
  <2>1. ASSUME NEW q \in Processes, pc'[q] \in HasResult
        PROVE  /\ q # p /\ pc[q] \in HasResult /\ pc'[q] = pc[q] /\ task'[q] = task[q]
               /\ result'[q] = result[q]
    BY <1>2, <2>1 DEF HasResult
  <2>2. ResultOK'
    BY <2>1, HandStays DEF IInv, ResultOK
  <2>3. HandsFit'
    BY <2>1, FitStays DEF IInv, HandsFit
  <2> QED BY <2>2, <2>3
<1>8. SavedOK'
  BY DEF IInv, SavedOK
<1>9. OneCase'
  <2>1. pc'["worker"] = "batch" => pc["worker"] = "batch" /\ task'["worker"] = task["worker"]
    BY <1>2, DeliveryAssumption
  <2> QED BY <2>1 DEF IInv, CasesOK, OneCase
<1>10. ASSUME NEW q \in Processes, task'[q] \notin redone PROVE HandCases(q)'
  <2>1. CASE q = p
    BY <1>2, <2>1 DEF HandCases
  <2>2. CASE q # p
    BY <1>2, <1>10, <2>2, CasesStay DEF IInv, CasesOK
  <2> QED BY <2>1, <2>2
<1> QED BY <1>2, <1>3, <1>4, <1>5, <1>6, <1>7, <1>8, <1>9, <1>10

(* The worker sets the status of a task without signed pictures.            *)
LEMMA SignedStays ==
    ASSUME IInv, NEW t \in Tasks,
           t \notin redone => status[t] \notin {"review_processing", "completed"},
           \A u \in Tasks \ {t} : status'[u] = status[u],
           UNCHANGED <<requests, signedFiles, final, historyVars>>
    PROVE  SignedOK'
<1> USE DEF historyVars
<1>1. ASSUME NEW a \in signedFiles
      PROVE  \E x \in DOMAIN executed :
               /\ \E f \in 1..4 : a \in AssetsOf(x, f)
               /\ UnderReview(requests[executed[x]]) /\ executed[x] \notin redone =>
                    status'[executed[x]] \in {"review_processing", "completed"}
  <2>1. PICK x \in DOMAIN executed :
          /\ \E f \in 1..4 : a \in AssetsOf(x, f)
          /\ UnderReview(requests[executed[x]]) /\ executed[x] \notin redone =>
               status[executed[x]] \in {"review_processing", "completed"}
    BY DEF IInv, SignedOK
  <2>2. executed[x] \in Tasks
    BY DEF IInv, Types
  <2> QED BY <2>1, <2>2
<1> QED BY <1>1 DEF IInv, SignedOK

LEMMA SaveStatusKeeps ==
    ASSUME IInv, NEW p \in Processes, SaveStatus(p)
    PROVE  IInv'
<1>0. /\ pc[p] = "status" /\ Leaves(p)
      /\ status' = [status EXCEPT ![task[p]] = result[p].status]
      /\ UNCHANGED <<experienceVars, batchVars, requests, job, saved, final, recordVars,
                     historyVars, restarts>>
  <2>1. /\ pc[p] = "status" /\ Leave(p)
        /\ status' = [status EXCEPT ![task[p]] = result[p].status]
        /\ UNCHANGED <<experienceVars, batchVars, requests, job, saved, final, recordVars,
                       historyVars, restarts>>
    BY DEF SaveStatus, At
  <2>2. Leaves(p)
    BY <2>1, TwoProcesses DEF Leave, Leaves, Return, Goto
  <2> QED BY <2>1, <2>2
<1>1. /\ task[p] \in Tasks
      /\ task[p] \notin redone =>
           /\ p = "worker" => status[task[p]] = "running"
           /\ p = "api" => status[task[p]] = "review_processing"
  BY <1>0, OwnTask
<1>2. PICK t, res, s : t = task[p] /\ res = result[p] /\ s = res.status
  OBVIOUS
<1>3. /\ status' = [status EXCEPT ![t] = s] /\ status'[t] = s
      /\ DOMAIN status' = Tasks
      /\ \A u \in Tasks \ {t} : status'[u] = status[u]
  BY <1>0, <1>1, <1>2 DEF IInv, Types
<1>4. /\ p = "api" => s = "completed" /\ UnderReview(requests[t])
      /\ p = "worker" => s = WorkerStatus(res, requests[t])
      /\ t \notin redone => saved[t] = res /\ res # None
      /\ saved[t] # None
  <2>1. HandOK(p) /\ res # None /\ (t \notin redone => HandFits(p))
    BY <1>0, <1>2, InHand DEF IInv, ResultOK, HasResult
  <2>2. p = "api" => UnderReview(requests[t])
    BY <1>0, <1>2 DEF IInv, Control
  <2>3. t \notin redone => saved[t] = res
    BY <1>0, <1>2, <2>1 DEF HandFits
  <2>4. saved[t] # None
    BY <1>1, <1>2, <2>1, <2>3 DEF IInv, ReviewOK
  <2> QED BY <1>2, <2>1, <2>2, <2>3, <2>4 DEF HandOK
<1>5. /\ s \in Statuses
      /\ s \in {"waiting_for_review", "review_processing"} => UnderReview(requests[t])
  BY <1>4, TwoProcesses DEF WorkerStatus, StatusOf, Statuses
<1>6. /\ LessonsTyped' /\ Control' /\ Intact' /\ BatchOK' /\ ResultOK' /\ HandsFit'
      /\ SavedOK' /\ OneCase'
      /\ \A q \in Processes : task'[q] \notin redone => HandCases(q)'
      /\ pc' \in [Processes -> Labels] /\ task' \in [Processes -> Tasks \cup {NoTask}]
      /\ DOMAIN result' = Processes
  <2>1. StatusMoves(p)
    BY <1>0, <1>2, <1>3 DEF StatusMoves
  <2>2. UNCHANGED <<execution, file, known>>
    BY <1>0 DEF batchVars, experienceVars
  <2> QED BY <1>0, <2>1, <2>2, LeaveKeeps
<1> USE DEF recordVars, historyVars
<1>7. Types'
  <2>1. status' \in [Tasks -> Statuses]
    BY <1>3, <1>5 DEF IInv, Types
  <2>2. UNCHANGED <<requests, job, saved, final, cases, executed, redone, execution, restarts>>
    BY <1>0 DEF batchVars
  <2> QED BY <1>6, <2>1, <2>2 DEF IInv, Types
<1>8. ReviewOK'
  BY <1>0, <1>3, <1>4, <1>5 DEF IInv, ReviewOK
<1>9. AllFit'
  <2>1. ASSUME NEW u \in Tasks \ redone PROVE SavedFits(u)'
    <3>0. SavedFits(u)
      BY <2>1 DEF IInv, AllFit
    <3>1. CASE u = t
      BY <1>0, <1>2, <1>3, <1>4, <2>1, <3>0, <3>1 DEF SavedFits
    <3>2. CASE u # t
      BY <1>0, <1>3, <3>0, <3>2 DEF SavedFits
    <3> QED BY <3>1, <3>2
  <2> QED BY <1>0, <2>1 DEF AllFit
<1>10. SignedOK'
  <2>1. CASE p = "worker"
    BY <1>0, <1>1, <1>2, <1>3, <2>1, SignedStays
  <2>2. CASE p = "api"
    <3>1. \A u \in Tasks : status[u] \in {"review_processing", "completed"} =>
                             status'[u] \in {"review_processing", "completed"}
      BY <1>3, <1>4, <2>2
    <3>2. \A x \in DOMAIN executed : executed[x] \in Tasks
      BY DEF IInv, Types
    <3> QED BY <1>0, <3>1, <3>2 DEF IInv, SignedOK
  <2> QED BY <2>1, <2>2, TwoProcesses
<1>11. CasesOK'
  <2>1. ASSUME NEW u \in Tasks \ redone PROVE SavedCases(u)'
    <3>0. SavedCases(u)
      BY <2>1 DEF IInv, CasesOK
    <3>1. CASE u = t
      <4>1. saved[t].status = "waiting_for_review" => p = "worker"
        BY <1>2, <1>4, <2>1, <3>1, TwoProcesses
      <4>2. p = "worker" => status[t] = "running"
        BY <1>1, <1>2, <2>1, <3>1
      <4> QED BY <1>0, <3>0, <3>1, <4>1, <4>2 DEF SavedCases
    <3>2. CASE u # t
      BY <1>0, <1>3, <3>0, <3>2 DEF SavedCases
    <3> QED BY <3>1, <3>2
  <2> QED BY <1>0, <1>6, <2>1 DEF CasesOK
<1> QED BY <1>6, <1>7, <1>8, <1>9, <1>10, <1>11 DEF IInv

(* A job ends, or is handed out again, and the status stays.                *)
LEMMA DropKeeps ==
    ASSUME IInv, NEW p \in Processes, Return(p), UNCHANGED status,
           job' = job \/ /\ task[p] # NoTask
                         /\ \E s \in {"queued", "finished"} :
                              job' = [job EXCEPT ![task[p]] = s],
           UNCHANGED <<requests, saved, final, recordVars, historyVars, execution>>,
           p = "worker" \/ UNCHANGED batchVars,
           file' = file, known' = known \/ known' = [known EXCEPT ![p] = file],
           restarts' \in 0..MaxRestarts
    PROVE  IInv'
<1>1. Leaves(p) /\ StatusMoves(p)
  BY DEF Leaves, StatusMoves, Return, Goto
<1>2. /\ LessonsTyped' /\ Control' /\ Intact' /\ BatchOK' /\ ResultOK' /\ HandsFit'
      /\ SavedOK' /\ OneCase'
      /\ \A q \in Processes : task'[q] \notin redone => HandCases(q)'
      /\ pc' \in [Processes -> Labels] /\ task' \in [Processes -> Tasks \cup {NoTask}]
      /\ DOMAIN result' = Processes
  BY <1>1, LeaveKeeps
<1> USE DEF recordVars, historyVars
<1>3. Types'
  <2>1. job' \in [Tasks -> {"queued", "running", "finished"}]
    BY DEF IInv, Types
  <2> QED BY <1>2, <2>1 DEF IInv, Types
<1>4. ReviewOK' /\ SignedOK'
  BY DEF IInv, ReviewOK, SignedOK
<1>5. AllFit'
  BY DEF IInv, AllFit, SavedFits
<1>6. CasesOK'
  <2>1. \A u \in Tasks \ redone : SavedCases(u)'
    BY DEF IInv, CasesOK, SavedCases
  <2> QED BY <1>2, <2>1 DEF CasesOK
<1> QED BY <1>2, <1>3, <1>4, <1>5, <1>6 DEF IInv

LEMMA FinishKeeps ==
    ASSUME IInv, FinishJob
    PROVE  IInv'
<1>1. /\ pc["worker"] = "finish" /\ Return("worker")
      /\ job' = [job EXCEPT ![task["worker"]] = "finished"]
      /\ UNCHANGED <<experienceVars, batchVars, requests, status, saved, final, recordVars,
                     historyVars, restarts>>
  BY DEF FinishJob, At
<1>2. "worker" \in Processes
  BY DeliveryAssumption
<1>3. task["worker"] # NoTask /\ restarts' \in 0..MaxRestarts
  BY <1>1, <1>2 DEF IInv, Control, Types
<1>4. UNCHANGED <<execution, file, known>>
  BY <1>1 DEF batchVars, experienceVars
<1> QED BY <1>1, <1>2, <1>3, <1>4, DropKeeps

LEMMA RestartKeeps ==
    ASSUME IInv, NEW p \in Processes, Restart(p)
    PROVE  IInv'
<1>1. /\ restarts < MaxRestarts /\ restarts' = restarts + 1 /\ Return(p)
      /\ file' = file /\ known' = [known EXCEPT ![p] = file]
      /\ job' = IF p = "worker" /\ task[p] # NoTask
                THEN [job EXCEPT ![task[p]] = "queued"] ELSE job
      /\ IF p = "worker" THEN EndBatch ELSE UNCHANGED batchVars
      /\ UNCHANGED <<requests, status, saved, final, recordVars, historyVars>>
  BY DEF Restart, LoadLessons
<1>2. restarts' \in 0..MaxRestarts
  BY <1>1, DeliveryAssumption DEF IInv, Types
<1>3. execution' = execution
  BY <1>1 DEF EndBatch, batchVars
<1>4. p = "worker" \/ UNCHANGED batchVars
  BY <1>1
<1>5. job' = job \/ /\ task[p] # NoTask
                    /\ \E s \in {"queued", "finished"} : job' = [job EXCEPT ![task[p]] = s]
  BY <1>1
<1> QED BY <1>1, <1>2, <1>3, <1>4, <1>5, DropKeeps

LEMMA RaiseKeeps ==
    ASSUME IInv, NEW p \in Processes, Raise(p)
    PROVE  IInv'
<1>0. /\ pc[p] \notin {"idle", "finish"} /\ Leaves(p)
      /\ status' = IF p = "worker" THEN [status EXCEPT ![task[p]] = "failed"] ELSE status
      /\ IF p = "worker" THEN EndBatch ELSE UNCHANGED batchVars
      /\ UNCHANGED <<experienceVars, requests, job, saved, final, recordVars, historyVars,
                     restarts>>
  <2>1. /\ pc[p] \notin {"idle", "finish"} /\ Leave(p)
        /\ status' = IF p = "worker" THEN [status EXCEPT ![task[p]] = "failed"] ELSE status
        /\ IF p = "worker" THEN EndBatch ELSE UNCHANGED batchVars
        /\ UNCHANGED <<experienceVars, requests, job, saved, final, recordVars, historyVars,
                       restarts>>
    BY DEF Raise, At
  <2>2. Leaves(p)
    BY <2>1, TwoProcesses DEF Leave, Leaves, Return, Goto
  <2> QED BY <2>1, <2>2
<1>1. /\ task[p] \in Tasks
      /\ task[p] \notin redone /\ p = "worker" => status[task[p]] = "running"
  BY <1>0, OwnTask
<1>2. PICK t : t = task[p]
  OBVIOUS
<1>3. /\ status' \in [Tasks -> Statuses]
      /\ \A u \in Tasks \ {t} : status'[u] = status[u]
      /\ status'[t] = "failed" \/ status'[t] = status[t]
      /\ p # "worker" => status' = status
  BY <1>0, <1>1, <1>2 DEF IInv, Types, Statuses
<1>4. /\ UNCHANGED <<execution, file, known>>
      /\ p = "worker" \/ UNCHANGED batchVars
  BY <1>0 DEF EndBatch, batchVars, experienceVars
<1>5. /\ LessonsTyped' /\ Control' /\ Intact' /\ BatchOK' /\ ResultOK' /\ HandsFit'
      /\ SavedOK' /\ OneCase'
      /\ \A q \in Processes : task'[q] \notin redone => HandCases(q)'
      /\ pc' \in [Processes -> Labels] /\ task' \in [Processes -> Tasks \cup {NoTask}]
      /\ DOMAIN result' = Processes
  <2>1. StatusMoves(p)
    BY <1>0, <1>2, <1>3 DEF StatusMoves
  <2> QED BY <1>0, <1>4, <2>1, LeaveKeeps
<1> USE DEF recordVars, historyVars
<1>6. Types'
  BY <1>0, <1>3, <1>4, <1>5 DEF IInv, Types
<1>7. ReviewOK'
  BY <1>0, <1>3 DEF IInv, ReviewOK
<1>8. AllFit'
  <2>1. ASSUME NEW u \in Tasks \ redone PROVE SavedFits(u)'
    <3>0. SavedFits(u)
      BY <2>1 DEF IInv, AllFit
    <3> QED BY <1>0, <1>3, <3>0 DEF SavedFits
  <2> QED BY <1>0, <2>1 DEF AllFit
<1>9. SignedOK'
  <2>1. CASE p = "worker"
    BY <1>0, <1>1, <1>2, <1>3, <2>1, SignedStays
  <2>2. CASE p # "worker"
    BY <1>0, <1>3, <2>2 DEF IInv, SignedOK
  <2> QED BY <2>1, <2>2
<1>10. CasesOK'
  <2>1. ASSUME NEW u \in Tasks \ redone PROVE SavedCases(u)'
    <3>0. SavedCases(u)
      BY <2>1 DEF IInv, CasesOK
    <3> QED BY <1>0, <1>3, <3>0 DEF SavedCases
  <2> QED BY <1>0, <1>5, <2>1 DEF CasesOK
<1> QED BY <1>5, <1>6, <1>7, <1>8, <1>9, <1>10 DEF IInv
-----------------------------------------------------------------------------
(* The pictures are made final.                                             *)

LEMMA MaterializeKeeps ==
    ASSUME IInv, Materialize
    PROVE  IInv'
<1> DEFINE joined == JoinFormats(formatResults)
           review == request.review /\ joined.assets # <<>>
           status2 == IF review THEN "waiting_for_review" ELSE joined.status
           res == [joined EXCEPT !.status = status2]
<1>0. /\ pc["worker"] = "batch" /\ Len(formatResults) = request.formats
      /\ final' = IF res.best = None THEN final
                  ELSE [final EXCEPT ![task["worker"]] = [asset |-> res.best, signed |-> FALSE]]
      /\ result' = [result EXCEPT !["worker"] = res]
      /\ pc' = [pc EXCEPT !["worker"] = IF review THEN "save" ELSE "sign"]
      /\ execution' = execution
      /\ UNCHANGED <<experienceVars, requests, job, status, saved, recordVars, historyVars,
                     task, lessons, restarts>>
  BY DEF Materialize, At, Goto, EndBatch
<1> USE DEF experienceVars, recordVars, historyVars
<1>1. "worker" \in Processes /\ "api" \in Processes
  BY DeliveryAssumption
<1>2. PICK t, req, x, fr : /\ t = task["worker"] /\ req = request /\ x = execution
                           /\ fr = formatResults
  OBVIOUS
<1>3. /\ t \in Tasks /\ RequestOK(requests[t])
      /\ t \notin redone => saved[t] = None
  BY <1>0, <1>1, <1>2, OwnTask DEF IInv, Intact
<1>a. \A q \in Processes \ {"worker"} :
        pc[q] \notin {"idle", "finish"} /\ task[q] \notin redone =>
          task[q] \in Tasks /\ task[q] # t
  BY <1>0, <1>1, <1>2, TasksApart
<1>4. /\ req = requests[t] /\ RequestOK(req) /\ x > 0 /\ executed[x] = t
      /\ IsSeq(fr) /\ Len(fr) = req.formats
      /\ \A f \in 1..Len(fr) : FormatResult(fr[f], x, f, req)
  BY <1>0, <1>2, <1>3 DEF IInv, BatchOK
<1>5. x \in DOMAIN executed
  BY <1>2, <1>4, LenProperties DEF IInv, Types
<1>6. FormatsListed(fr, x, req)
  <2>1. PICK n \in 1..4 : n = req.formats
    BY <1>4 DEF RequestOK
  <2>2. fr = [i \in 1..n |-> fr[i]]
    BY <1>4, <2>1, LenProperties DEF IsSeq
  <2> QED BY <1>4, <2>1, <2>2 DEF FormatsListed, Listed
<1>7. PICK old : old = JoinFormats(fr)
  OBVIOUS
<1>8. /\ DeliveredBy(old, x, req) /\ old.status = StatusOf(old.assets, SeenOf(old, 1))
      /\ old.signed = {} /\ DOMAIN old = FinalFields /\ Untouched(old)
      /\ old.assets = <<>> <=> req.unclear
  <2>1. /\ DeliveredBy(old, x, req) /\ old.status = StatusOf(old.assets, SeenOf(old, 1))
        /\ old.signed = {} /\ Untouched(old)
    BY <1>4, <1>6, <1>7, JoinedIsDelivered
  <2> QED BY <2>1 DEF DeliveredBy
<1>9. joined = old
  BY <1>2, <1>7
<1>10. PICK new, s : new = res /\ s = status2
  OBVIOUS
<1>11. new = [old EXCEPT !.status = s]
  BY <1>9, <1>10
<1>12. SameDelivery(new, old) /\ new.status = s /\ new.signed = {} /\ Untouched(new)
  <2>1. PICK r : r = [old EXCEPT !.status = s]
    OBVIOUS
  <2>2. /\ SameDelivery(r, old) /\ SameRecords(r, old) /\ r.status = s
        /\ r.signed = old.signed /\ r.credentials = old.credentials
    BY <1>8, <2>1, StatusReplaced
  <2> QED BY <1>8, <1>11, <2>1, <2>2 DEF Untouched, SameRecords
<1>13. /\ UnderReview(requests[t]) =>
            s = "waiting_for_review" /\ pc'["worker"] = "save"
       /\ ~UnderReview(requests[t]) =>
            s = old.status /\ pc'["worker"] = "sign"
  <2>1. UnderReview(requests[t]) <=> review
    BY <1>2, <1>4, <1>8, <1>9 DEF UnderReview
  <2> QED BY <1>0, <1>1, <1>9, <1>10, <2>1 DEF IInv, Types
<1> HIDE DEF joined, review, status2, res
<1>14. /\ DeliveredFor(new, t, executed, requests[t]) /\ new # None
       /\ SeenOf(new, 1) = SeenOf(old, 1) /\ new.assets = old.assets /\ new.best = old.best
  <2>1. DeliveredBy(new, x, req)
    BY <1>8, <1>12, StillDelivered
  <2>2. SeenOf(new, 1) = SeenOf(old, 1)
    BY <1>12, SameFits
  <2>3. new # None
    BY <1>12, RecordIsSome DEF SameDelivery
  <2> QED BY <1>4, <1>5, <1>12, <2>1, <2>2, <2>3 DEF DeliveredFor, SameDelivery
<1>15. /\ result'["worker"] = new /\ DOMAIN result' = Processes /\ DOMAIN final' = Tasks
       /\ pc' \in [Processes -> Labels]
       /\ \A q \in Processes \ {"worker"} : result'[q] = result[q] /\ pc'[q] = pc[q]
       /\ \A u \in Tasks \ {t} : final'[u] = final[u]
       /\ final'[t] = IF new.best = None THEN final[t]
                      ELSE [asset |-> new.best, signed |-> FALSE]
  <2>1. DOMAIN result = Processes /\ pc \in [Processes -> Labels] /\ DOMAIN final = Tasks
    BY DEF IInv, Types
  <2>2. pc' = [pc EXCEPT !["worker"] = "save"] \/ pc' = [pc EXCEPT !["worker"] = "sign"]
    BY <1>0
  <2>3. result' = [result EXCEPT !["worker"] = new]
        /\ final' = IF new.best = None THEN final
                    ELSE [final EXCEPT ![t] = [asset |-> new.best, signed |-> FALSE]]
    BY <1>0, <1>2, <1>10
  <2> QED BY <1>1, <1>3, <2>1, <2>2, <2>3 DEF Labels
<1>16. FinalFits(new, final'[t])
  <2>1. CASE new.best # None
    <3>1. final'[t] = [asset |-> new.best, signed |-> FALSE]
      BY <1>15, <2>1
    <3>2. "asset" \in DOMAIN final'[t] /\ DOMAIN <<>> = {}
      BY <3>1
    <3> QED BY <3>1, <3>2 DEF FinalFits, None
  <2>2. CASE new.best = None
    BY <2>2 DEF FinalFits
  <2> QED BY <2>1, <2>2
<1>18. Types'
  BY <1>0, <1>15 DEF IInv, Types
<1>19. LessonsTyped'
  BY <1>0 DEF IInv, LessonsTyped
<1>20. Control' /\ ReviewOK' /\ Intact'
  <2>1. pc'["worker"] \in {"save", "sign"}
    BY <1>13
  <2>2. /\ task["worker"] # NoTask
        /\ pc'["worker"] = "save" => UnderReview(requests[t])
        /\ pc'["worker"] = "sign" => ~UnderReview(requests[t])
    BY <1>0, <1>1, <1>13 DEF IInv, Control
  <2>3. Control'
    <3>1. ASSUME NEW q \in Processes, q # "worker"
          PROVE  /\ pc[q] = "idle" <=> task[q] = NoTask
                 /\ pc[q] \in HasResult <=> result[q] # None
                 /\ pc[q] \in {"batch", "save", "finish"} => q = "worker"
                 /\ pc[q] = "load" => q = "api"
                 /\ pc[q] = "save" => UnderReview(requests[task[q]])
                 /\ q = "api" /\ pc[q] # "idle" =>
                      UnderReview(requests[task[q]]) /\ saved[task[q]] # None
      BY DEF IInv, Control
    <3> QED BY <1>0, <1>2, <1>14, <1>15, <2>1, <2>2, <3>1 DEF Control, HasResult
  <2>4. ReviewOK'
    BY <1>0 DEF IInv, ReviewOK
  <2>5. Intact'
    BY <1>0, <1>1, <1>15, <2>1 DEF IInv, Intact
  <2> QED BY <2>3, <2>4, <2>5
<1>21. BatchOK'
  BY <1>13 DEF BatchOK
<1>22. ResultOK'
  <2>1. WorkerStatus(new, requests[t]) = s
    BY <1>8, <1>13, <1>14 DEF WorkerStatus
  <2>2. HandOK("worker")'
    BY <1>0, <1>2, <1>12, <1>14, <1>15, <2>1 DEF HandOK
  <2>3. ASSUME NEW q \in Processes, q # "worker", pc[q] \in HasResult
        PROVE  HandOK(q)'
    BY <1>0, <1>15, <2>3, HandStays DEF IInv, ResultOK
  <2> QED BY <1>15, <2>2, <2>3 DEF ResultOK
<1>b. HandsFit'
  <2>1. HandFits("worker")'
    BY <1>0, <1>2, <1>12, <1>13, <1>15, <1>16 DEF HandFits, Untouched
  <2>2. ASSUME NEW q \in Processes, q # "worker", pc[q] \in HasResult, task[q] \notin redone
        PROVE  HandFits(q)'
    <3>1. task[q] \in Tasks \ {t} /\ HandFits(q)
      BY <1>a, <2>2 DEF IInv, HandsFit, HasResult
    <3> QED BY <1>0, <1>15, <2>2, <3>1, FitStays
  <2> QED BY <1>0, <1>15, <2>1, <2>2 DEF HandsFit
<1>23. SavedOK' /\ AllFit'
  <2>1. SavedOK'
    BY <1>0 DEF IInv, SavedOK
  <2>2. ASSUME NEW u \in Tasks \ redone PROVE SavedFits(u)'
    <3>1. SavedFits(u) /\ (saved[u] # None => final'[u] = final[u])
      BY <1>3, <1>15, <2>2 DEF IInv, AllFit
    <3> QED BY <1>0, <3>1 DEF SavedFits
  <2> QED BY <1>0, <2>1, <2>2 DEF AllFit
<1>24. SignedOK'
  <2>1. ASSUME NEW u \in Tasks, final'[u] # None, final'[u].signed
        PROVE  final'[u] = final[u]
    <3>1. ASSUME u = t, new.best # None PROVE FALSE
      <4>1. final'[u] = [asset |-> new.best, signed |-> FALSE]
        BY <1>15, <3>1
      <4>2. final'[u].signed = FALSE
        BY <4>1
      <4> QED BY <2>1, <4>2
    <3> QED BY <1>15, <3>1
  <2> QED BY <1>0, <2>1 DEF IInv, SignedOK
<1>25. CasesOK'
  <2>1. t \notin redone => Recorded(new, cases) = {}
    <3>1. new.assets # <<>> => new.assets[1][1] = x
      <4>1. new.assets # <<>> => old.assets # <<>> /\ old.assets[1] = new.assets[1]
        BY <1>14
      <4> QED BY <1>4, <1>8, <4>1, FirstPicture
    <3>2. t \notin redone => \A i \in DOMAIN cases : cases[i].asset[1] # x
      BY <1>0, <1>2 DEF IInv, CasesOK, OneCase
    <3> QED BY <3>1, <3>2 DEF Recorded
  <2>2. ASSUME NEW q \in Processes, task[q] \notin redone PROVE HandCases(q)'
    <3>1. CASE q = "worker"
      <4>1. pc'["worker"] \in {"save", "sign"}
        BY <1>13
      <4> QED BY <1>0, <1>2, <1>15, <2>1, <2>2, <3>1, <4>1 DEF HandCases
    <3>2. CASE q # "worker"
      BY <1>0, <1>15, <2>2, <3>2, CasesStay DEF IInv, CasesOK
    <3> QED BY <3>1, <3>2
  <2>3. pc'["worker"] # "batch"
    BY <1>13
  <2>4. OneCase' /\ \A u \in Tasks \ redone : SavedCases(u)'
    BY <1>0, <2>3 DEF IInv, CasesOK, OneCase, SavedCases
  <2> QED BY <1>0, <2>2, <2>4 DEF CasesOK
<1> QED BY <1>18, <1>19, <1>20, <1>21, <1>22, <1>b, <1>23, <1>24, <1>25 DEF IInv

LEMMA BeginKeeps ==
    ASSUME IInv, NEW t \in Tasks, Begin(t)
    PROVE  IInv'
<1>0. /\ pc["worker"] = "idle" /\ job' = [job EXCEPT ![t] = "running"]
      /\ status' = [status EXCEPT ![t] = "running"]
      /\ request' = requests[t] /\ execution' = execution + 1
      /\ candidates' = [c \in 1..requests[t].candidates |-> Waiting]
      /\ formatResults' = <<>>
      /\ executed' = Append(executed, t)
      /\ redone' = IF saved[t] # None THEN redone \cup {t} ELSE redone
      /\ task' = [task EXCEPT !["worker"] = t]
      /\ pc' = [pc EXCEPT !["worker"] = "batch"]
      /\ UNCHANGED <<experienceVars, requests, saved, final, recordVars, result, lessons,
                     restarts>>
  BY DEF Begin, BeginBatch, At, Goto
<1> USE DEF experienceVars, recordVars
<1>1. "worker" \in Processes /\ "api" \in Processes /\ t # NoTask
  BY DeliveryAssumption DEF NoTask
<1>2. /\ RequestOK(requests[t]) /\ redone \subseteq redone' /\ redone' \subseteq Tasks
      /\ redone' \subseteq redone \cup {t}
      /\ t \notin redone' => saved[t] = None /\ status[t] \in {"queued", "running", "failed"}
      /\ \A u \in redone' : saved[u] # None
  <2>1. /\ RequestOK(requests[t]) /\ redone \subseteq redone' /\ redone' \subseteq Tasks
        /\ redone' \subseteq redone \cup {t}
    BY <1>0 DEF IInv, Types
  <2>2. t \notin redone' => saved[t] = None /\ t \notin redone
    BY <1>0
  <2>3. \A u \in redone' : saved[u] # None
    BY <1>0 DEF IInv, ReviewOK
  <2> QED BY <2>1, <2>2, <2>3 DEF IInv, AllFit, SavedFits
<1>3. /\ pc'["worker"] = "batch" /\ task'["worker"] = t /\ status'[t] = "running"
      /\ pc' \in [Processes -> Labels] /\ task' \in [Processes -> Tasks \cup {NoTask}]
      /\ \A q \in Processes \ {"worker"} : pc'[q] = pc[q] /\ task'[q] = task[q]
      /\ \A u \in Tasks \ {t} : status'[u] = status[u]
      /\ result["worker"] = None
  BY <1>0, <1>1 DEF IInv, Types, Control, Labels, HasResult
<1>4. PICK ex, n : /\ ex = executed /\ n = Len(ex) /\ n \in Nat /\ ex \in Seq(Tasks)
                   /\ DOMAIN ex = 1..n /\ execution = n
  BY LenProperties DEF IInv, Types
<1>5. PICK ey : /\ ey = Append(ex, t) /\ ey \in Seq(Tasks) /\ Len(ey) = n + 1
                /\ DOMAIN ey = 1..(n + 1) /\ ey[n + 1] = t
                /\ \A x \in 1..n : ey[x] = ex[x]
  <2>1. /\ Append(ex, t) \in Seq(Tasks) /\ Len(Append(ex, t)) = Len(ex) + 1
        /\ Append(ex, t)[Len(ex) + 1] = t
        /\ \A x \in 1..Len(ex) : Append(ex, t)[x] = ex[x]
    BY <1>4, AppendProperties
  <2>2. DOMAIN Append(ex, t) = 1..Len(Append(ex, t))
    BY <2>1, LenProperties
  <2> QED BY <1>4, <2>1, <2>2
<1>6. executed' = ey
  BY <1>0, <1>4, <1>5
<1>7. ASSUME NEW q \in Processes, q # "worker", pc[q] # "idle"
      PROVE  /\ q = "api" /\ task[q] \in Tasks /\ saved[task[q]] # None
             /\ task[q] \notin redone' => task[q] # t
  <2>1. q = "api" /\ task[q] \in Tasks
    BY <1>7, OwnTask, TwoProcesses
  <2>2. saved[task[q]] # None
    BY <1>7, <2>1 DEF IInv, Control
  <2> QED BY <1>2, <2>1, <2>2
<1>8. Types'
  <2>1. status' \in [Tasks -> Statuses] /\ job' \in [Tasks -> {"queued", "running", "finished"}]
    BY <1>0 DEF IInv, Types, Statuses
  <2>2. executed' \in Seq(Tasks) /\ execution' = Len(executed')
    BY <1>0, <1>4, <1>5, <1>6
  <2> QED BY <1>0, <1>2, <1>3, <2>1, <2>2 DEF IInv, Types
<1>9. LessonsTyped'
  BY <1>0 DEF IInv, LessonsTyped
<1>10. Control' /\ ReviewOK' /\ Intact'
  <2>1. ASSUME NEW q \in Processes, q # "worker"
        PROVE  /\ pc[q] = "idle" <=> task[q] = NoTask
               /\ pc[q] \in HasResult <=> result[q] # None
               /\ pc[q] \in {"batch", "save", "finish"} => q = "worker"
               /\ pc[q] = "load" => q = "api"
               /\ pc[q] = "save" => UnderReview(requests[task[q]])
               /\ q = "api" /\ pc[q] # "idle" =>
                    UnderReview(requests[task[q]]) /\ saved[task[q]] # None
    BY DEF IInv, Control
  <2>2. Control'
    BY <1>0, <1>1, <1>3, <2>1 DEF Control, HasResult
  <2>3. ReviewOK'
    BY <1>0, <1>2, <1>3 DEF IInv, ReviewOK
  <2>4. ASSUME NEW q \in Processes, q # "worker", pc[q] \notin {"idle", "finish"},
               task[q] \notin redone'
        PROVE  /\ q = "api" /\ status'[task[q]] = "review_processing"
               /\ pc[q] # "status" => saved[task[q]].status = "waiting_for_review"
    <3>1. q = "api" /\ task[q] \in Tasks \ {t} /\ task[q] \notin redone
      BY <1>2, <1>7, <2>4
    <3> QED BY <1>3, <2>4, <3>1 DEF IInv, Intact
  <2>5. Intact'
    BY <1>0, <1>2, <1>3, <2>4 DEF Intact
  <2> QED BY <2>2, <2>3, <2>5
<1>11. BatchOK'
  <2>1. PICK rq \in {requests[t]} : rq.candidates \in 1..8 /\ rq.formats \in 1..4
    BY <1>2 DEF RequestOK
  <2>2. IsSeq(formatResults') /\ Len(formatResults') = 0
    BY <1>0, EmptyIsSeq
  <2>3. execution' > 0 /\ executed'[execution'] = t
    BY <1>0, <1>4, <1>5, <1>6
  <2>4. \A c \in Indices' : candidates'[c] \in CandidateStates(request')
    BY <1>0 DEF CandidateStates, Indices
  <2>5. Indices' = 1..request'.candidates /\ request'.formats \in 1..4
    BY <1>0, <2>1 DEF Indices
  <2> QED BY <1>0, <1>3, <2>2, <2>3, <2>4, <2>5 DEF BatchOK
<1>12. ASSUME NEW res, NEW u, NEW q, DeliveredFor(res, u, ex, q)
       PROVE  DeliveredFor(res, u, ey, q)
  BY <1>4, <1>5, <1>12, DeliveredGrows
<1>13. ResultOK' /\ HandsFit'
  <2>1. ASSUME NEW q \in Processes, pc'[q] \in HasResult
        PROVE  /\ q # "worker" /\ pc'[q] = pc[q] /\ task'[q] = task[q]
               /\ pc[q] \in HasResult
    BY <1>3, <2>1 DEF HasResult
  <2>2. ASSUME NEW q \in Processes, pc'[q] \in HasResult
        PROVE  HandOK(q)'
    <3>1. q # "worker" /\ pc'[q] = pc[q] /\ task'[q] = task[q] /\ HandOK(q)
      BY <2>1, <2>2 DEF IInv, ResultOK
    <3>2. DeliveredFor(result[q], task[q], executed', requests[task[q]])
      BY <1>4, <1>6, <1>12, <3>1 DEF HandOK
    <3> QED BY <1>0, <3>1, <3>2 DEF HandOK
  <2>3. ASSUME NEW q \in Processes, pc'[q] \in HasResult, task'[q] \notin redone'
        PROVE  HandFits(q)'
    <3>1. HandFits(q)
      BY <1>2, <2>1, <2>3 DEF IInv, HandsFit
    <3> QED BY <1>0, <2>1, <2>3, <3>1, FitStays
  <2> QED BY <2>2, <2>3 DEF ResultOK, HandsFit
<1>14. SavedOK' /\ AllFit'
  <2>1. \A u \in Tasks : saved[u] # None => DeliveredFor(saved[u], u, executed', requests[u])
    BY <1>4, <1>6, <1>12 DEF IInv, SavedOK
  <2>2. SavedOK'
    BY <1>0, <2>1 DEF IInv, SavedOK
  <2>3. ASSUME NEW u \in Tasks \ redone' PROVE SavedFits(u)'
    <3>1. SavedFits(u)
      BY <1>2, <2>3 DEF IInv, AllFit
    <3>2. CASE u = t
      BY <1>0, <1>2, <1>3, <2>3, <3>2 DEF SavedFits
    <3>3. CASE u # t
      BY <1>0, <1>3, <3>1, <3>3 DEF SavedFits
    <3> QED BY <3>2, <3>3
  <2> QED BY <2>2, <2>3 DEF AllFit
<1>15. SignedOK'
  <2>1. ASSUME NEW x \in DOMAIN executed
        PROVE  x \in DOMAIN executed' /\ executed'[x] = executed[x] /\ executed[x] \in Tasks
    BY <1>4, <1>5, <1>6 DEF IInv, Types
  <2>2. ASSUME NEW a \in signedFiles
        PROVE  \E x \in DOMAIN executed' :
                 /\ \E f \in 1..4 : a \in AssetsOf(x, f)
                 /\ UnderReview(requests[executed'[x]]) /\ executed'[x] \notin redone' =>
                      status'[executed'[x]] \in {"review_processing", "completed"}
    <3>1. PICK x \in DOMAIN executed :
            /\ \E f \in 1..4 : a \in AssetsOf(x, f)
            /\ UnderReview(requests[executed[x]]) /\ executed[x] \notin redone =>
                 status[executed[x]] \in {"review_processing", "completed"}
      BY DEF IInv, SignedOK
    <3>2. UnderReview(requests[executed[x]]) /\ executed[x] \notin redone' =>
            status[executed[x]] \in {"review_processing", "completed"} /\ executed[x] # t
      BY <1>2, <3>1
    <3>3. UnderReview(requests[executed[x]]) /\ executed[x] \notin redone' =>
            status'[executed[x]] \in {"review_processing", "completed"}
      BY <1>3, <2>1, <3>2
    <3> QED BY <2>1, <3>1, <3>3
  <2>3. ASSUME NEW u \in Tasks, final[u] # None, final[u].signed
        PROVE  /\ final[u].asset \in signedFiles
               /\ \E x \in DOMAIN executed' : executed'[x] = u /\ final[u].asset[1] = x
    <3>1. final[u].asset \in signedFiles
      BY <2>3 DEF IInv, SignedOK
    <3>2. PICK x \in DOMAIN executed : executed[x] = u /\ final[u].asset[1] = x
      BY <2>3 DEF IInv, SignedOK
    <3> QED BY <2>1, <3>1, <3>2
  <2> QED BY <1>0, <2>2, <2>3 DEF SignedOK
<1>16. CasesOK'
  <2>1. ASSUME NEW i \in DOMAIN cases
        PROVE  /\ cases[i].asset[1] \in DOMAIN executed' /\ cases[i].asset[1] # execution'
               /\ executed'[cases[i].asset[1]] = executed[cases[i].asset[1]]
    <3>1. cases[i].asset[1] \in 1..n
      BY <1>4 DEF IInv, CasesOK, OneCase
    <3> QED BY <1>0, <1>4, <1>5, <1>6, <3>1
  <2>2. OneCase'
    <3>1. \A i, j \in DOMAIN cases :
            cases[i].asset[1] = cases[j].asset[1] /\ executed[cases[i].asset[1]] \notin redone =>
              i = j
      BY DEF IInv, CasesOK, OneCase
    <3> QED BY <1>0, <1>2, <2>1, <3>1 DEF OneCase
  <2>3. ASSUME NEW q \in Processes, task'[q] \notin redone' PROVE HandCases(q)'
    <3>1. CASE q = "worker"
      BY <1>3, <3>1 DEF HandCases
    <3>2. CASE q # "worker"
      BY <1>0, <1>2, <1>3, <2>3, <3>2, CasesStay DEF IInv, CasesOK
    <3> QED BY <3>1, <3>2
  <2>4. ASSUME NEW u \in Tasks \ redone' PROVE SavedCases(u)'
    <3>1. SavedCases(u)
      BY <1>2, <2>4 DEF IInv, CasesOK
    <3>2. CASE u = t
      BY <1>0, <1>2, <2>4, <3>2 DEF SavedCases
    <3>3. CASE u # t
      BY <1>0, <1>3, <3>1, <3>3 DEF SavedCases
    <3> QED BY <3>2, <3>3
  <2> QED BY <2>2, <2>3, <2>4 DEF CasesOK
<1> QED BY <1>8, <1>9, <1>10, <1>11, <1>13, <1>14, <1>15, <1>16 DEF IInv
-----------------------------------------------------------------------------
(* The theorems.                                                            *)

LEMMA NextKeeps ==
    ASSUME IInv, [Next]_vars
    PROVE  IInv'
<1>1. ASSUME UNCHANGED vars PROVE IInv'
  <2> USE <1>1 DEF vars, experienceVars, batchVars, taskVars, recordVars, historyVars,
                   localVars, IInv
  <2>1. Types' /\ LessonsTyped' /\ Control' /\ ReviewOK' /\ Intact'
    BY DEF Types, LessonsTyped, Control, ReviewOK, Intact
  <2>2. ResultOK' /\ HandsFit'
    BY HandStays, FitStays DEF ResultOK, HandsFit
  <2>3. SavedOK' /\ AllFit' /\ SignedOK'
    BY DEF SavedOK, AllFit, SavedFits, SignedOK
  <2>4. BatchOK'
    BY DEF BatchOK, Indices
  <2>5. CasesOK'
    BY CasesStay DEF CasesOK, OneCase, SavedCases
  <2> QED BY <2>1, <2>2, <2>3, <2>4, <2>5
<1>2. ASSUME NEW t \in Tasks, Begin(t) PROVE IInv'
  BY <1>2, BeginKeeps
<1>3. ASSUME NEW t \in Tasks, Approve(t) PROVE IInv'
  BY <1>3, ApproveKeeps
<1>4. ASSUME Batch \/ Materialize \/ LoadResult \/ FinishJob PROVE IInv'
  BY <1>4, BatchKeeps, MaterializeKeeps, LoadKeeps, FinishKeeps
<1>5. ASSUME NEW p \in Processes,
             SignAsset(p) \/ UpdateFinal(p) \/ Remember(p) \/ Learn(p)
      PROVE  IInv'
  BY <1>5, SignKeeps, UpdateKeeps, RememberKeeps, LearnKeeps
<1>6. ASSUME NEW p \in Processes,
             SaveResult(p) \/ SaveStatus(p) \/ Raise(p) \/ Restart(p)
      PROVE  IInv'
  BY <1>6, SaveResultKeeps, SaveStatusKeeps, RaiseKeeps, RestartKeeps
<1> QED BY <1>1, <1>2, <1>3, <1>4, <1>5, <1>6 DEF Next

(* The invariant holds in every reachable state, whatever is requested,     *)
(* whatever the runs of the loop give, and whichever steps fail.            *)
THEOREM Invariance == Spec => []IInv
BY InitInv, NextKeeps, PTL DEF Spec

LEMMA PicturesHaveIds ==
    ASSUME IInv, NEW x \in DOMAIN executed, NEW f \in 1..4, NEW a \in AssetsOf(x, f)
    PROVE  a \in AssetIds
<1>1. x \in 1..execution
  BY LenProperties DEF IInv, Types
<1> QED BY <1>1 DEF AssetsOf, AssetIds

(* Every variable has its type, a process has a task and a result exactly   *)
(* when it is at work, and what the processes know of lessons was once in   *)
(* the file.                                                                *)
THEOREM TypeCorrect == Spec => []TypeOK
<1>1. ASSUME IInv PROVE TypeOK
  <2>1. \A p \in Processes :
          /\ pc[p] = "idle" <=> task[p] = NoTask
          /\ pc[p] \in HasResult <=> result[p] # None
          /\ ToSet(known[p]) \subseteq ToSet(file)
    BY <1>1 DEF IInv, Control, LessonsTyped
  <2>2. signedFiles \subseteq AssetIds
    BY <1>1, PicturesHaveIds DEF IInv, SignedOK
  <2>3. ASSUME NEW t \in Tasks, saved[t] # None
        PROVE  ToSet(saved[t].assets) \subseteq AssetIds
    <3>1. PICK x \in DOMAIN executed : DeliveredBy(saved[t], x, requests[t])
      BY <1>1, <2>3 DEF IInv, SavedOK, DeliveredFor
    <3>2. \A a \in ToSet(saved[t].assets) : \E f \in 1..4 : a \in AssetsOf(x, f)
      BY <3>1 DEF DeliveredBy
    <3> QED BY <1>1, <3>2, PicturesHaveIds
  <2> QED BY <1>1, <2>1, <2>2, <2>3 DEF IInv, Types, TypeOK
<1> QED BY <1>1, Invariance, PTL

(* What is delivered for every format is an evaluated asset that no other   *)
(* evaluated asset of the format beats, whatever the number of candidates,  *)
(* the order in which they end, and the restarts; the first format's is the *)
(* best of the task, and the picture in final/ unless the task was executed *)
(* again after its result was saved.                                        *)
THEOREM BestIsDelivered == Spec => []BestDelivered
<1>1. ASSUME IInv PROVE BestDelivered
  <2> SUFFICES ASSUME NEW t \in Tasks, saved[t] # None
      PROVE  /\ \A f \in 1..requests[t].formats :
                  LET s == saved[t].summaries[f] IN
                  IF SeenFor(t, f) = {} THEN s.best = None
                  ELSE \E o \in SeenFor(t, f) :
                         /\ s = [best |-> o.asset, score |-> o.score,
                                 compliant |-> o.compliant]
                         /\ \A other \in SeenFor(t, f) : ~Better(other, o)
             /\ saved[t].best = saved[t].summaries[1].best
             /\ saved[t].best # None /\ t \notin redone => final[t].asset = saved[t].best
    BY DEF BestDelivered, Saved
  <2>1. PICK x \in DOMAIN executed : DeliveredBy(saved[t], x, requests[t])
    BY <1>1 DEF IInv, SavedOK, DeliveredFor
  <2>2. saved[t].best # None /\ t \notin redone => final[t].asset = saved[t].best
    BY <1>1 DEF IInv, AllFit, SavedFits, FinalFits
  <2>3. saved[t].best = saved[t].summaries[1].best
    BY <2>1, SummaryFields DEF DeliveredBy
  <2>4. ASSUME NEW f \in 1..requests[t].formats
        PROVE  LET s == saved[t].summaries[f] IN
               IF SeenFor(t, f) = {} THEN s.best = None
               ELSE \E o \in SeenFor(t, f) :
                      /\ s = [best |-> o.asset, score |-> o.score, compliant |-> o.compliant]
                      /\ \A other \in SeenFor(t, f) : ~Better(other, o)
    <3>1. PICK s : s = saved[t].summaries[f]
      OBVIOUS
    <3>2. s = Summary(s) /\ ReportsBest(s, SeenFor(t, f))
      BY <2>1, <3>1 DEF DeliveredBy, SeenFor, SeenOf
    <3>3. CASE SeenFor(t, f) = {}
      BY <3>1, <3>2, <3>3 DEF ReportsBest
    <3>4. CASE SeenFor(t, f) # {}
      <4>1. PICK o \in SeenFor(t, f) :
              /\ s.best = o.asset /\ s.score = o.score /\ s.compliant = o.compliant
              /\ \A other \in SeenFor(t, f) : ~Better(other, o)
        BY <3>2, <3>4 DEF ReportsBest
      <4>2. s = [best |-> o.asset, score |-> o.score, compliant |-> o.compliant]
        BY <3>2, <4>1 DEF Summary
      <4> QED BY <3>1, <3>4, <4>1, <4>2
    <3> QED BY <3>3, <3>4
  <2> QED BY <2>2, <2>3, <2>4
<1> QED BY <1>1, Invariance, PTL

(* The status of a task without a review is completed exactly when some     *)
(* candidate of its first format passed.                                    *)
THEOREM StatusFromPrimary == Spec => []StatusOfPrimary
<1>1. ASSUME IInv PROVE StatusOfPrimary
  <2> SUFFICES ASSUME NEW t \in Tasks, saved[t] # None,
                      ~requests[t].review \/ saved[t].assets = <<>>
      PROVE  saved[t].status = StatusOf(saved[t].assets, SeenFor(t, 1))
    BY DEF StatusOfPrimary, Saved, StatusOf
  <2>1. ~UnderReview(requests[t])
    BY <1>1, SavedFields DEF UnderReview
  <2>2. saved[t].status = StatusOf(saved[t].assets, SeenOf(saved[t], 1))
    BY <1>1, <2>1 DEF IInv, SavedOK, WorkerStatus
  <2> QED BY <2>2 DEF SeenFor, SeenOf
<1> QED BY <1>1, Invariance, PTL

(* A closed task says "signed and verified" exactly when signing is         *)
(* configured and pictures were chosen; then all of these are signed and    *)
(* its final picture is the signed copy of the best.  Nothing that awaits   *)
(* a review is signed.  All this for tasks that were not executed again     *)
(* after their result was saved.                                            *)
THEOREM CredentialsHold == Spec => []CredentialsKept
<1>1. ASSUME IInv, NEW t \in Tasks \ redone, saved[t] # None,
             saved[t].status # "waiting_for_review"
      PROVE  LET res == saved[t] IN
             /\ res.credentials = "signed_and_verified" <=>
                  Provenance = "signer" /\ Chosen(res) # {}
             /\ res.credentials = "signed_and_verified" =>
                  /\ Chosen(res) \subseteq signedFiles \cap res.signed
                  /\ res.best # None => final[t] = [asset |-> res.best, signed |-> TRUE]
  <2>1. SignedRight(saved[t], final[t]) /\ saved[t].signed \subseteq signedFiles
    BY <1>1 DEF IInv, SavedOK, AllFit, SavedFits
  <2>2. saved[t].credentials = "signed_and_verified" <=>
          Provenance = "signer" /\ Chosen(saved[t]) # {}
    BY <2>1, DeliveryAssumption DEF SignedRight, Credentials
  <2> QED BY <2>1, <2>2 DEF SignedRight
<1>2. ASSUME IInv, NEW t \in Tasks \ redone, saved[t] # None,
             saved[t].status = "waiting_for_review",
             status[t] = "waiting_for_review"
      PROVE  /\ ToSet(saved[t].assets) \cap signedFiles = {}
             /\ final[t] # None => ~final[t].signed
  <2>1. UnderReview(requests[t])
    BY <1>2 DEF IInv, ReviewOK
  <2>2. ASSUME NEW x \in DOMAIN executed, executed[x] = t, NEW a \in signedFiles, a[1] = x
        PROVE  FALSE
    <3>1. PICK y \in DOMAIN executed :
            /\ \E f \in 1..4 : a \in AssetsOf(y, f)
            /\ UnderReview(requests[executed[y]]) /\ executed[y] \notin redone =>
                 status[executed[y]] \in {"review_processing", "completed"}
      BY <1>2 DEF IInv, SignedOK
    <3>2. y = x
      BY <2>2, <3>1, AssetIsSome
    <3> QED BY <1>2, <2>1, <2>2, <3>1, <3>2
  <2>3. PICK x \in DOMAIN executed : executed[x] = t /\ DeliveredBy(saved[t], x, requests[t])
    BY <1>2 DEF IInv, SavedOK, DeliveredFor
  <2>4. RequestOK(requests[t])
    BY <1>2 DEF IInv, Types
  <2>5. \A a \in ToSet(saved[t].assets) : a[1] = x
    BY <2>3, <2>4, PicturesOf
  <2>6. ASSUME final[t] # None, final[t].signed PROVE FALSE
    <3>1. /\ final[t].asset \in signedFiles
          /\ \E y \in DOMAIN executed : executed[y] = t /\ final[t].asset[1] = y
      BY <1>2, <2>6 DEF IInv, SignedOK
    <3> QED BY <2>2, <3>1
  <2> QED BY <2>2, <2>3, <2>5, <2>6
<1>3. ASSUME IInv PROVE CredentialsKept
  BY <1>1, <1>2, <1>3 DEF CredentialsKept, Saved, Closed
<1> QED BY <1>3, Invariance, PTL

(* The cases of an execution are one or none.                               *)
LEMMA OneCaseOf ==
    ASSUME IInv, NEW x, executed[x] \notin redone
    PROVE  /\ CasesOf(x) = {} \/ \E i : CasesOf(x) = {i}
           /\ CasesOf(x) # {} => Cardinality(CasesOf(x)) = 1
           /\ CasesOf(x) = {} => Cardinality(CasesOf(x)) = 0
<1>1. \A i, j \in CasesOf(x) : i = j
  BY DEF IInv, CasesOK, OneCase, CasesOf
<1>2. CASE CasesOf(x) = {}
  BY <1>2, FS_EmptySet
<1>3. CASE CasesOf(x) # {}
  <2>1. PICK i : CasesOf(x) = {i}
    BY <1>1, <1>3
  <2>2. Cardinality({i}) = 1
    BY FS_Singleton
  <2> QED BY <1>3, <2>1, <2>2
<1> QED BY <1>2, <1>3

(* A finished task with pictures has exactly one case for the execution it  *)
(* delivers, a task in review none; the case is of a delivered picture and  *)
(* has its score and compliance.  All this for tasks that were not executed *)
(* again after their result was saved.                                      *)
THEOREM CasesMatch == Spec => []CasesMatchDelivery
<1>1. ASSUME IInv
      PROVE  \A x \in DOMAIN executed : executed[x] \notin redone => Cardinality(CasesOf(x)) <= 1
  BY <1>1, OneCaseOf
<1>2. ASSUME IInv, NEW t \in Tasks \ redone, saved[t] # None
      PROVE  LET res == saved[t]
                 of == IF res.assets = <<>> THEN {} ELSE CasesOf(res.assets[1][1])
             IN
             /\ t \in Closed /\ res.assets # <<>> => Cardinality(of) = 1
             /\ status[t] = "waiting_for_review" => of = {}
             /\ \A i \in of :
                  LET c == cases[i] IN
                  /\ c.task = t /\ c.asset \in ToSet(res.assets)
                  /\ IF \E o \in ToSet(res.observations) : o.asset = c.asset
                     THEN \E o \in ToSet(res.observations) :
                            <<o.asset, o.score, o.compliant>>
                            = <<c.asset, c.score, c.compliant>>
                     ELSE c.score = -1 /\ ~c.compliant
  <2> DEFINE res == saved[t]
             of == IF res.assets = <<>> THEN {} ELSE CasesOf(res.assets[1][1])
  <2>1. of = Recorded(res, cases)
    BY DEF Recorded, CasesOf
  <2>a. PICK x \in DOMAIN executed : executed[x] = t /\ DeliveredBy(res, x, requests[t])
    BY <1>2 DEF IInv, SavedOK, DeliveredFor
  <2>b. res.assets # <<>> => res.assets[1][1] = x
    BY <1>2, <2>a, FirstPicture DEF IInv, Types
  <2>2. t \in Closed /\ res.assets # <<>> => Cardinality(of) = 1
    <3>1. t \in Closed /\ res.assets # <<>> => of # {}
      BY <1>2, <2>1 DEF IInv, CasesOK, SavedCases, Closed
    <3>2. res.assets # <<>> => of = CasesOf(x)
      BY <2>b
    <3>3. CasesOf(x) # {} => Cardinality(CasesOf(x)) = 1
      BY <1>2, <2>a, OneCaseOf
    <3> QED BY <3>1, <3>2, <3>3
  <2>3. status[t] = "waiting_for_review" => of = {}
    <3>1. status[t] = "waiting_for_review" => saved[t].status = "waiting_for_review"
      BY <1>2 DEF IInv, AllFit, SavedFits
    <3> QED BY <1>2, <2>1, <3>1 DEF IInv, CasesOK, SavedCases
  <2>4. ASSUME NEW i \in of
        PROVE  LET c == cases[i] IN
               /\ c.task = t /\ c.asset \in ToSet(res.assets)
               /\ IF \E o \in ToSet(res.observations) : o.asset = c.asset
                  THEN \E o \in ToSet(res.observations) :
                         <<o.asset, o.score, o.compliant>>
                         = <<c.asset, c.score, c.compliant>>
                  ELSE c.score = -1 /\ ~c.compliant
    <3>1. CaseFits(cases[i], t, res)
      BY <1>2, <2>1, <2>4 DEF IInv, CasesOK, SavedCases, CasesFit
    <3>2. DeliveredBy(res, x, requests[t])
      BY <2>a
    <3>3. RequestOK(requests[t])
      BY <1>2 DEF IInv, Types
    <3>4. res.best = None <=> ToSet(res.observations) = {}
      <4>1. res.best = None <=> Unevaluated(requests[t])
        BY <3>2, <3>3, DeliveredPictures
      <4> QED BY <3>2, <4>1 DEF DeliveredBy
    <3>5. CASE res.best = None
      <4>1. cases[i].score = -1 /\ cases[i].compliant = FALSE
        BY <3>1, <3>5, ZenonT(20) DEF CaseFits
      <4>2. cases[i].task = t /\ cases[i].asset \in ToSet(res.assets)
        BY <3>1 DEF CaseFits
      <4> QED BY <3>4, <3>5, <4>1, <4>2
    <3>6. CASE res.best # None
      <4>1. PICK o \in ToSet(res.observations) :
              res.best = o.asset /\ res.score = o.score /\ res.compliant = o.compliant
        <5>1. 1 \in 1..requests[t].formats
          BY <3>3 DEF RequestOK
        <5>2. /\ ReportsBest(res.summaries[1], SeenOf(res, 1))
              /\ res.best = res.summaries[1].best /\ res.score = res.summaries[1].score
              /\ res.compliant = res.summaries[1].compliant
          BY <3>2, <5>1, SummaryFields DEF DeliveredBy
        <5>3. PICK o \in SeenOf(res, 1) :
                /\ res.summaries[1].best = o.asset /\ res.summaries[1].score = o.score
                /\ res.summaries[1].compliant = o.compliant
          BY <3>6, <5>2 DEF ReportsBest
        <5> QED BY <5>2, <5>3 DEF SeenOf
      <4>2. /\ cases[i].task = t /\ cases[i].asset \in ToSet(res.assets)
            /\ cases[i].asset = res.best /\ cases[i].score = res.score
            /\ cases[i].compliant = res.compliant
        BY <3>1, <3>6 DEF CaseFits
      <4>3. <<o.asset, o.score, o.compliant>>
            = <<cases[i].asset, cases[i].score, cases[i].compliant>>
        BY <4>1, <4>2
      <4> QED BY <4>1, <4>2, <4>3
    <3> QED BY <3>5, <3>6
  <2> QED BY <2>2, <2>3, <2>4
<1>3. ASSUME IInv PROVE CasesMatchDelivery
  BY <1>1, <1>2, <1>3 DEF CasesMatchDelivery, Saved
<1> QED BY <1>3, Invariance, PTL
-----------------------------------------------------------------------------
(* Lessons.  First sequences: positions in a concatenation, and sequences   *)
(* of lessons none of which are on the same asset and issue.                *)

LEMMA Positions ==
    ASSUME NEW s, IsSeq(s)
    PROVE  Len(s) \in Nat /\ DOMAIN s = 1..Len(s) /\ \A i \in DOMAIN s : s[i] \in ToSet(s)
BY LenProperties DEF IsSeq, ToSet

LEMMA ConcatenatedPositions ==
    ASSUME NEW s, IsSeq(s), NEW u, IsSeq(u)
    PROVE  /\ Len(s \o u) = Len(s) + Len(u)
           /\ \A i \in DOMAIN s : i \in DOMAIN (s \o u) /\ (s \o u)[i] = s[i]
           /\ \A j \in DOMAIN u : /\ Len(s) + j \in DOMAIN (s \o u)
                                  /\ (s \o u)[Len(s) + j] = u[j]
           /\ \A k \in DOMAIN (s \o u) :
                k \in DOMAIN s \/ \E j \in DOMAIN u : k = Len(s) + j
<1> DEFINE S == ToSet(s) \cup ToSet(u)
<1> PICK w : w = s \o u
  OBVIOUS
<1>1. s \in Seq(S) /\ u \in Seq(S)
  BY DEF IsSeq, ToSet
<1>2. w \in Seq(S) /\ Len(w) = Len(s) + Len(u)
      /\ \A i \in 1..Len(w) : w[i] = IF i <= Len(s) THEN s[i] ELSE u[i - Len(s)]
  BY <1>1, ConcatProperties
<1> PICK m, n : m = Len(s) /\ n = Len(u)
  OBVIOUS
<1>3. m \in Nat /\ n \in Nat /\ DOMAIN s = 1..m /\ DOMAIN u = 1..n /\ DOMAIN w = 1..(m + n)
      /\ \A i \in 1..(m + n) : w[i] = IF i <= m THEN s[i] ELSE u[i - m]
  BY <1>1, <1>2, LenProperties
<1>4. \A i \in 1..m : i \in 1..(m + n) /\ w[i] = s[i]
  BY <1>3
<1>5. \A j \in 1..n : m + j \in 1..(m + n) /\ w[m + j] = u[j]
  <2> SUFFICES ASSUME NEW j \in 1..n PROVE m + j \in 1..(m + n) /\ w[m + j] = u[j]
    OBVIOUS
  <2>1. m + j \in 1..(m + n) /\ ~(m + j <= m) /\ (m + j) - m = j
    BY <1>3
  <2> QED BY <1>3, <2>1
<1>6. ASSUME NEW k \in 1..(m + n) PROVE k \in 1..m \/ \E j \in 1..n : k = m + j
  <2>1. CASE k <= m
    BY <1>3, <2>1
  <2>2. CASE ~(k <= m)
    <3>1. k - m \in 1..n /\ k = m + (k - m)
      BY <1>3, <2>2
    <3> QED BY <3>1
  <2> QED BY <2>1, <2>2
<1> HIDE DEF S
<1>7. /\ Len(w) = m + n
      /\ \A i \in DOMAIN s : i \in DOMAIN w /\ w[i] = s[i]
      /\ \A j \in DOMAIN u : m + j \in DOMAIN w /\ w[m + j] = u[j]
      /\ \A k \in DOMAIN w : k \in DOMAIN s \/ \E j \in DOMAIN u : k = m + j
  <2>1. Len(w) = m + n
    BY <1>2
  <2>2. \A i \in DOMAIN s : i \in DOMAIN w /\ w[i] = s[i]
    BY <1>3, <1>4, Zenon
  <2>3. \A j \in DOMAIN u : m + j \in DOMAIN w /\ w[m + j] = u[j]
    BY <1>3, <1>5, Zenon
  <2>4. \A k \in DOMAIN w : k \in DOMAIN s \/ \E j \in DOMAIN u : k = m + j
    <3> SUFFICES ASSUME NEW k \in DOMAIN w
                 PROVE  k \in DOMAIN s \/ \E j \in DOMAIN u : k = m + j
      OBVIOUS
    <3>1. k \in 1..(m + n)
      BY <1>3
    <3>2. k \in 1..m \/ \E j \in 1..n : k = m + j
      BY <1>6, <3>1
    <3> QED BY <1>3, <3>2
  <2> QED BY <2>1, <2>2, <2>3, <2>4
<1>8. w = s \o u /\ m = Len(s) /\ n = Len(u)
  OBVIOUS
<1> QED BY <1>7, <1>8, Zenon

Key(l) == <<l.from, l.issue>>

KeysDistinct(s) == \A i, j \in DOMAIN s : Key(s[i]) = Key(s[j]) => i = j

KeysApart(s, u) == \A a \in ToSet(s), b \in ToSet(u) : Key(a) # Key(b)

LEMMA ConcatenatedKeys ==
    ASSUME NEW s, IsSeq(s), KeysDistinct(s), NEW u, IsSeq(u), KeysDistinct(u),
           KeysApart(s, u)
    PROVE  KeysDistinct(s \o u)
<1> PICK w : w = s \o u
  OBVIOUS
<1> PICK m : m = Len(s)
  OBVIOUS
<1>1. /\ \A i \in DOMAIN s : w[i] = s[i]
      /\ \A j \in DOMAIN u : w[m + j] = u[j]
      /\ \A k \in DOMAIN w : k \in DOMAIN s \/ \E j \in DOMAIN u : k = m + j
  BY ConcatenatedPositions
<1>2. \A i \in DOMAIN s, j \in DOMAIN u : Key(s[i]) # Key(u[j])
  BY Positions DEF KeysApart
<1> SUFFICES ASSUME NEW a \in DOMAIN w, NEW b \in DOMAIN w, Key(w[a]) = Key(w[b])
             PROVE  a = b
  BY DEF KeysDistinct
<1>3. CASE a \in DOMAIN s /\ b \in DOMAIN s
  BY <1>1, <1>3 DEF KeysDistinct
<1>4. CASE a \in DOMAIN s /\ b \notin DOMAIN s
  BY <1>1, <1>2, <1>4
<1>5. CASE a \notin DOMAIN s /\ b \in DOMAIN s
  BY <1>1, <1>2, <1>5
<1>6. CASE a \notin DOMAIN s /\ b \notin DOMAIN s
  <2>1. PICK i, j \in DOMAIN u : a = m + i /\ b = m + j
    BY <1>1, <1>6
  <2>2. Key(u[i]) = Key(u[j])
    BY <1>1, <2>1
  <2> QED BY <2>1, <2>2 DEF KeysDistinct
<1> QED BY <1>3, <1>4, <1>5, <1>6

(* Flattening keeps keys distinct that are so within and between the parts. *)
LEMMA FlattenedKeys ==
    ASSUME NEW n \in Nat, NEW ss, ss = [i \in 1..n |-> ss[i]],
           \A i \in 1..n : IsSeq(ss[i]) /\ KeysDistinct(ss[i]),
           \A i, j \in 1..n : i # j => KeysApart(ss[i], ss[j])
    PROVE  KeysDistinct(FlattenSeq(ss))
<1>0. CASE n = 0
  <2>1. IsSeq(ss) /\ Len(ss) = 0
    BY <1>0, GivenByElements
  <2>2. ss = <<>> /\ FlattenSeq(ss) = ss
    BY <2>1, EmptySeq DEF IsSeq, FlattenSeq
  <2> QED BY <2>2 DEF KeysDistinct
<1>1. CASE n > 0
  <2>1. PICK g : /\ g[1] = ss[1]
                 /\ \A i \in 2..n : g[i] = g[i - 1] \o ss[i]
                 /\ FlattenSeq(ss) = g[n]
    BY <1>1, FlattenByPrefix
  <2> DEFINE Has(m) == /\ IsSeq(g[m]) /\ KeysDistinct(g[m])
                       /\ \A e \in ToSet(g[m]) : \E i \in 1..m : e \in ToSet(ss[i])
             S == {m \in 1..n : Has(m)}
  <2>2. 1 \in S
    <3>1. 1 \in 1..n
      BY <1>1
    <3> QED BY <2>1, <3>1
  <2>3. ASSUME NEW m \in 1..(n - 1), m \in S PROVE m + 1 \in S
    <3>1. m + 1 \in 2..n /\ m + 1 \in 1..n /\ (m + 1) - 1 = m
      OBVIOUS
    <3>2. PICK s, u, w : s = g[m] /\ u = ss[m + 1] /\ w = g[m + 1]
      OBVIOUS
    <3>3. w = s \o u
      BY <2>1, <3>1, <3>2
    <3>4. /\ IsSeq(s) /\ KeysDistinct(s) /\ IsSeq(u) /\ KeysDistinct(u)
          /\ \A e \in ToSet(s) : \E i \in 1..m : e \in ToSet(ss[i])
      BY <2>3, <3>1, <3>2
    <3>5. KeysApart(s, u)
      <4>1. ASSUME NEW a \in ToSet(s), NEW b \in ToSet(u) PROVE Key(a) # Key(b)
        <5>1. PICK i \in 1..m : a \in ToSet(ss[i])
          BY <3>4
        <5>2. i \in 1..n /\ i # m + 1
          OBVIOUS
        <5>3. KeysApart(ss[i], ss[m + 1])
          BY <3>1, <5>2
        <5> QED BY <3>2, <5>1, <5>3 DEF KeysApart
      <4> QED BY <4>1 DEF KeysApart
    <3>6. KeysDistinct(w)
      BY <3>3, <3>4, <3>5, ConcatenatedKeys
    <3>7. IsSeq(w) /\ ToSet(w) = ToSet(s) \cup ToSet(u)
      BY <3>3, <3>4, ConcatenatedElements
    <3>8. \A e \in ToSet(w) : \E i \in 1..(m + 1) : e \in ToSet(ss[i])
      <4>1. m + 1 \in 1..(m + 1) /\ \A i \in 1..m : i \in 1..(m + 1)
        OBVIOUS
      <4> QED BY <3>2, <3>4, <3>7, <4>1
    <3> QED BY <3>1, <3>2, <3>6, <3>7, <3>8
  <2> HIDE DEF S
  <2>4. 1..n \subseteq S
    BY <2>2, <2>3, BoundedInduction
  <2>5. n \in S
    BY <1>1, <2>4
  <2> QED BY <2>1, <2>5 DEF S
<1> QED BY <1>0, <1>1
-----------------------------------------------------------------------------
(* Traces.                                                                  *)

(* Nothing from lo to hi ends or replaces the evaluation before.            *)
Quiet(trace, lo, hi) ==
    \A k \in lo..hi : ~IsEvaluation(trace[k]) /\ ~StartsAfresh(trace[k])

(* Consecutive, of assets of the same execution.                            *)
Follows(from, to, req) ==
    /\ from[1] = to[1]
    /\ \/ from[2] = to[2] /\ from[3] = to[3] /\ to[4] = from[4] + 1
       \/ to[2] = from[2] + 1 /\ to[4] = 1 /\ req.candidates = 1

(* A trace of execution x tells of every asset once, and what it tells of   *)
(* next to each other are consecutive assets.                               *)
Told(trace, x, req) ==
    /\ IsSeq(trace)
    /\ \A e \in ToSet(trace) : IsEvaluation(e) =>
         e.asset[1] = x /\ e.issues \in Seq(Issues) /\ IsInjective(e.issues)
    /\ \A i, j \in DOMAIN trace : IsEvaluation(trace[i]) /\ IsEvaluation(trace[j]) =>
         /\ trace[i].asset = trace[j].asset => i = j
         /\ i < j /\ Quiet(trace, i + 1, j - 1) =>
              Follows(trace[i].asset, trace[j].asset, req)

LEMMA ConcatenatedTold ==
    ASSUME NEW x, NEW req, NEW s, Told(s, x, req), NEW u, Told(u, x, req),
           \A a \in ToSet(s), b \in ToSet(u) :
             IsEvaluation(a) /\ IsEvaluation(b) => a.asset # b.asset,
           \A i \in DOMAIN s, j \in DOMAIN u :
             IsEvaluation(s[i]) /\ IsEvaluation(u[j])
               /\ Quiet(s, i + 1, Len(s)) /\ Quiet(u, 1, j - 1) =>
                 Follows(s[i].asset, u[j].asset, req)
    PROVE  Told(s \o u, x, req)
<1> PICK w, m, n : w = s \o u /\ m = Len(s) /\ n = Len(u)
  OBVIOUS
<1>0. IsSeq(s) /\ IsSeq(u)
  BY DEF Told
<1>1. /\ m \in Nat /\ n \in Nat /\ DOMAIN s = 1..m /\ DOMAIN u = 1..n
      /\ \A i \in DOMAIN s : s[i] \in ToSet(s)
      /\ \A i \in DOMAIN u : u[i] \in ToSet(u)
  BY <1>0, Positions
<1>2. /\ \A i \in 1..m : w[i] = s[i]
      /\ \A j \in 1..n : w[m + j] = u[j]
      /\ \A k \in DOMAIN w : k \in 1..m \/ \E j \in 1..n : k = m + j
  <2>1. /\ \A i \in DOMAIN s : w[i] = s[i]
        /\ \A j \in DOMAIN u : w[m + j] = u[j]
        /\ \A k \in DOMAIN w : k \in DOMAIN s \/ \E j \in DOMAIN u : k = m + j
    BY <1>0, ConcatenatedPositions
  <2> QED BY <1>1, <2>1
<1>3. IsSeq(w) /\ ToSet(w) = ToSet(s) \cup ToSet(u)
  BY <1>0, ConcatenatedElements
<1>4. \A e \in ToSet(w) : IsEvaluation(e) =>
        e.asset[1] = x /\ e.issues \in Seq(Issues) /\ IsInjective(e.issues)
  BY <1>3 DEF Told
<1>5. ASSUME NEW a \in DOMAIN w, NEW b \in DOMAIN w,
             IsEvaluation(w[a]), IsEvaluation(w[b])
      PROVE  /\ w[a].asset = w[b].asset => a = b
             /\ a < b /\ Quiet(w, a + 1, b - 1) =>
                  Follows(w[a].asset, w[b].asset, req)
  <2>1. CASE a \in 1..m /\ b \in 1..m
    <3>1. w[a] = s[a] /\ w[b] = s[b]
      BY <1>2, <2>1
    <3>2. Quiet(w, a + 1, b - 1) => Quiet(s, a + 1, b - 1)
      <4>1. \A k \in (a + 1)..(b - 1) : k \in 1..m
        BY <1>1, <2>1
      <4> QED BY <1>2, <4>1 DEF Quiet
    <3> QED BY <1>1, <1>5, <2>1, <3>1, <3>2 DEF Told
  <2>2. CASE a \in 1..m /\ b \notin 1..m
    <3>1. PICK j \in 1..n : b = m + j
      BY <1>2, <2>2
    <3>2. w[a] = s[a] /\ w[b] = u[j]
      BY <1>2, <2>2, <3>1
    <3>3. ASSUME Quiet(w, a + 1, b - 1)
          PROVE  Quiet(s, a + 1, m) /\ Quiet(u, 1, j - 1)
      <4>1. ASSUME NEW k \in (a + 1)..m PROVE k \in 1..m /\ k \in (a + 1)..(b - 1)
        BY <1>1, <2>2, <3>1
      <4>2. ASSUME NEW k \in 1..(j - 1) PROVE k \in 1..n /\ m + k \in (a + 1)..(b - 1)
        BY <1>1, <2>2, <3>1
      <4>3. Quiet(s, a + 1, m)
        BY <1>2, <3>3, <4>1 DEF Quiet
      <4>4. Quiet(u, 1, j - 1)
        BY <1>2, <3>3, <4>2 DEF Quiet
      <4> QED BY <4>3, <4>4
    <3>4. w[a].asset # w[b].asset
      BY <1>1, <1>5, <2>2, <3>2
    <3> QED BY <1>1, <1>5, <2>2, <3>2, <3>3, <3>4
  <2>3. CASE a \notin 1..m /\ b \in 1..m
    <3>1. PICK i \in 1..n : a = m + i
      BY <1>2, <2>3
    <3>2. w[a] = u[i] /\ w[b] = s[b]
      BY <1>2, <2>3, <3>1
    <3>3. w[a].asset # w[b].asset
      BY <1>1, <1>5, <2>3, <3>2
    <3>4. ~(a < b)
      BY <1>1, <2>3, <3>1
    <3> QED BY <3>3, <3>4
  <2>4. CASE a \notin 1..m /\ b \notin 1..m
    <3>1. PICK i, j \in 1..n : a = m + i /\ b = m + j
      BY <1>2, <2>4
    <3>2. w[a] = u[i] /\ w[b] = u[j]
      BY <1>2, <3>1
    <3>3. Quiet(w, a + 1, b - 1) => Quiet(u, i + 1, j - 1)
      <4>1. \A k \in (i + 1)..(j - 1) : k \in 1..n /\ m + k \in (a + 1)..(b - 1)
        BY <1>1, <3>1
      <4> QED BY <1>2, <4>1 DEF Quiet
    <3>4. (i = j => a = b) /\ (a < b => i < j)
      <4>1. m \in Nat /\ i \in Nat /\ j \in Nat
        BY <1>1
      <4>2. m + i < m + j => i < j
        BY <4>1
      <4> QED BY <3>1, <4>2
    <3> QED BY <1>1, <1>5, <3>2, <3>3, <3>4 DEF Told
  <2> QED BY <2>1, <2>2, <2>3, <2>4
<1> QED BY <1>3, <1>4, <1>5 DEF Told

(* The evaluations in a trace are of format f and the candidate of best.    *)
ToldOf(trace, f, best) ==
    \A e \in ToSet(trace) : IsEvaluation(e) => e.asset[2] = f /\ e.asset[3] = best[3]

(* A trace with an evaluation at both ends, the first of a first attempt.   *)
Evaluated(trace) ==
    /\ trace # <<>> /\ IsEvaluation(trace[1]) /\ trace[1].asset[4] = 1
    /\ IsEvaluation(trace[Len(trace)])

(* What a run tells, and what a format does; where there is a choice of     *)
(* candidates, the latter starts afresh.                                    *)
RunTrace(res, x, f, req) ==
    /\ Told(res.trace, x, req) /\ ToldOf(res.trace, f, res.best)
    /\ IF Unevaluated(req) THEN \A e \in ToSet(res.trace) : ~IsEvaluation(e)
       ELSE Evaluated(res.trace)

FormatTrace(res, x, f, req) ==
    /\ Told(res.trace, x, req) /\ ToldOf(res.trace, f, res.best)
    /\ Unevaluated(req) => \A e \in ToSet(res.trace) : ~IsEvaluation(e)
    /\ req.candidates = 1 /\ ~Unevaluated(req) => Evaluated(res.trace)
    /\ req.candidates # 1 => res.trace # <<>> /\ StartsAfresh(res.trace[1])
-----------------------------------------------------------------------------
(* What is learned from a trace.                                            *)

(* The lessons of execution x are on an asset and an issue each, between    *)
(* assets that follow each other, of the candidate that was chosen.         *)
LessonFits(l, summaries, x, req) ==
    /\ l.from[1] = x /\ Follows(l.from, l.to, req)
    /\ summaries[l.from[2]].best[3] = l.from[3]

LessonsRight(ls, summaries, x, req) ==
    /\ KeysDistinct(ls)
    /\ \A l \in ToSet(ls) : LessonFits(l, summaries, x, req)

LEMMA PreviousIsLast ==
    ASSUME NEW trace, NEW i \in Nat, NEW j \in Previous(trace, i)
    PROVE  /\ j \in 1..(i - 1) /\ IsEvaluation(trace[j]) /\ Quiet(trace, j + 1, i - 1)
           /\ Max(Previous(trace, i)) = j
<1>1. j \in 1..(i - 1) /\ IsEvaluation(trace[j]) /\ Quiet(trace, j + 1, i - 1)
  BY DEF Previous, Quiet
<1>2. ASSUME NEW k \in Previous(trace, i) PROVE k = j
  <2>1. /\ k \in 1..(i - 1) /\ IsEvaluation(trace[k])
        /\ \A m \in (k + 1)..(i - 1) : ~IsEvaluation(trace[m])
        /\ \A m \in (j + 1)..(i - 1) : ~IsEvaluation(trace[m])
    BY <1>2 DEF Previous
  <2> QED BY <1>1, <2>1
<1>3. Previous(trace, i) = {j}
  BY <1>2, Zenon
<1>4. Max({j}) = j
  <2>1. j >= j
    BY <1>1
  <2> QED BY <2>1 DEF Max
<1> QED BY <1>1, <1>3, <1>4

LEMMA LessonsOfPair ==
    ASSUME NEW e, NEW l, e.issues \in Seq(Issues), IsInjective(e.issues)
    PROVE  /\ IsSeq(LessonsOf(e, l)) /\ KeysDistinct(LessonsOf(e, l))
           /\ \A d \in ToSet(LessonsOf(e, l)) : d.from = e.asset /\ d.to = l.asset
<1>1. PICK m \in Nat : DOMAIN e.issues = 1..m
  BY LenProperties
<1>2. PICK s : s = LessonsOf(e, l)
  OBVIOUS
<1>3. /\ s = [k \in 1..m |-> s[k]]
      /\ \A k \in 1..m : s[k].from = e.asset /\ s[k].to = l.asset
                         /\ s[k].issue = e.issues[k]
  BY <1>1, <1>2 DEF LessonsOf
<1>4. IsSeq(s) /\ DOMAIN s = 1..m
  BY <1>3, GivenByElements
<1>5. KeysDistinct(s)
  <2>1. ASSUME NEW i \in 1..m, NEW j \in 1..m, Key(s[i]) = Key(s[j]) PROVE i = j
    <3>1. e.issues[i] = e.issues[j]
      BY <1>3, <2>1 DEF Key
    <3> QED BY <1>1, <3>1 DEF IsInjective
  <2> QED BY <1>4, <2>1 DEF KeysDistinct
<1>6. \A d \in ToSet(s) : d.from = e.asset /\ d.to = l.asset
  BY <1>3, <1>4 DEF ToSet
<1> QED BY <1>2, <1>4, <1>5, <1>6

LEMMA LessonsTold ==
    ASSUME NEW trace, NEW x, NEW req, Told(trace, x, req), NEW summaries,
           \A e \in ToSet(trace) : IsEvaluation(e) =>
             summaries[e.asset[2]].best[3] = e.asset[3]
    PROVE  IsSeq(Lessons(trace)) /\ LessonsRight(Lessons(trace), summaries, x, req)
<1>0. IsSeq(trace)
  BY DEF Told
<1>1. PICK n \in Nat : /\ n = Len(trace) /\ DOMAIN trace = 1..n
                       /\ \A i \in 1..n : trace[i] \in ToSet(trace)
  BY <1>0, Positions
<1> DEFINE drawn(i) == IF IsEvaluation(trace[i]) /\ Previous(trace, i) # {}
                       THEN LessonsOf(trace[Max(Previous(trace, i))], trace[i]) ELSE <<>>
           ss == [i \in 1..n |-> drawn(i)]
           (* what evaluation i teaches is about evaluation j *)
           About(i, j) == /\ IsEvaluation(trace[i]) /\ IsEvaluation(trace[j])
                          /\ j < i /\ Quiet(trace, j + 1, i - 1)
                          /\ ss[i] = LessonsOf(trace[j], trace[i])
<1>2. ASSUME NEW i \in 1..n, ss[i] # <<>> PROVE \E j \in 1..n : About(i, j)
  <2>1. IsEvaluation(trace[i]) /\ Previous(trace, i) # {}
    BY <1>2
  <2>2. PICK j : j \in Previous(trace, i)
    BY <2>1
  <2>3. /\ j \in 1..(i - 1) /\ IsEvaluation(trace[j]) /\ Quiet(trace, j + 1, i - 1)
        /\ Max(Previous(trace, i)) = j
    <3>1. i \in Nat
      OBVIOUS
    <3> QED BY <2>2, <3>1, PreviousIsLast
  <2>4. ss[i] = LessonsOf(trace[j], trace[i])
    BY <2>1, <2>3
  <2>5. j \in 1..n /\ j < i
    BY <2>3
  <2> HIDE DEF ss
  <2> QED BY <2>1, <2>3, <2>4, <2>5
<1>3. Lessons(trace) = FlattenSeq(ss)
  BY <1>1 DEF Lessons
<1>4. ss = [i \in 1..n |-> ss[i]]
  OBVIOUS
<1> HIDE DEF ss
<1>5. ASSUME NEW i \in 1..n, NEW j \in 1..n, About(i, j)
      PROVE  /\ IsSeq(ss[i]) /\ KeysDistinct(ss[i])
             /\ \A d \in ToSet(ss[i]) : d.from = trace[j].asset /\ d.to = trace[i].asset
  <2>1. PICK e, l : e = trace[j] /\ l = trace[i]
    OBVIOUS
  <2>2. e.issues \in Seq(Issues) /\ IsInjective(e.issues)
    BY <1>1, <1>5, <2>1 DEF Told
  <2>3. /\ IsSeq(LessonsOf(e, l)) /\ KeysDistinct(LessonsOf(e, l))
        /\ \A d \in ToSet(LessonsOf(e, l)) : d.from = e.asset /\ d.to = l.asset
    BY <2>2, LessonsOfPair
  <2> QED BY <1>5, <2>1, <2>3
<1>6. ASSUME NEW i \in 1..n PROVE IsSeq(ss[i]) /\ KeysDistinct(ss[i])
  <2>1. CASE ss[i] = <<>>
    BY <2>1, EmptyIsSeq DEF KeysDistinct
  <2>2. CASE ss[i] # <<>>
    <3>1. PICK j \in 1..n : About(i, j)
      BY <1>2, <2>2
    <3> QED BY <1>5, <3>1
  <2> QED BY <2>1, <2>2
<1>7. ASSUME NEW i \in 1..n, NEW d \in ToSet(ss[i])
      PROVE  \E j \in 1..n : About(i, j) /\ d.from = trace[j].asset /\ d.to = trace[i].asset
  <2>1. ss[i] # <<>>
    BY EmptyIsSeq
  <2>2. PICK j \in 1..n : About(i, j)
    BY <1>2, <2>1
  <2> HIDE DEF About
  <2> QED BY <1>5, <2>2
<1>8. ASSUME NEW i \in 1..n, NEW k \in 1..n, i # k PROVE KeysApart(ss[i], ss[k])
  <2> SUFFICES ASSUME NEW a \in ToSet(ss[i]), NEW b \in ToSet(ss[k]), Key(a) = Key(b)
               PROVE  FALSE
    BY DEF KeysApart
  <2>1. PICK j \in 1..n : About(i, j) /\ a.from = trace[j].asset
    BY <1>7
  <2>2. PICK h \in 1..n : About(k, h) /\ b.from = trace[h].asset
    BY <1>7
  <2>3. trace[j].asset = trace[h].asset
    BY <2>1, <2>2 DEF Key
  <2>4. j = h
    BY <1>1, <2>1, <2>2, <2>3 DEF Told
  <2>5. CASE i < k
    <3>1. i \in (h + 1)..(k - 1)
      BY <2>1, <2>4, <2>5
    <3> QED BY <2>1, <2>2, <3>1 DEF Quiet
  <2>6. CASE k < i
    <3>1. k \in (j + 1)..(i - 1)
      BY <2>2, <2>4, <2>6
    <3> QED BY <2>1, <2>2, <3>1 DEF Quiet
  <2> QED BY <1>8, <2>5, <2>6
<1>9. KeysDistinct(FlattenSeq(ss))
  BY <1>4, <1>6, <1>8, FlattenedKeys
<1>10. IsSeq(FlattenSeq(ss)) /\ ToSet(FlattenSeq(ss)) = UNION {ToSet(ss[i]) : i \in 1..n}
  BY <1>4, <1>6, FlattenedElements
<1>11. ASSUME NEW l \in ToSet(FlattenSeq(ss)) PROVE LessonFits(l, summaries, x, req)
  <2>1. PICK i \in 1..n : l \in ToSet(ss[i])
    BY <1>10
  <2>2. PICK j \in 1..n : About(i, j) /\ l.from = trace[j].asset /\ l.to = trace[i].asset
    BY <1>7, <2>1
  <2>3. Follows(l.from, l.to, req)
    BY <1>1, <2>2 DEF Told
  <2>4. l.from[1] = x /\ summaries[l.from[2]].best[3] = l.from[3]
    BY <1>1, <2>2 DEF Told
  <2> QED BY <2>3, <2>4 DEF LessonFits
<1> QED BY <1>3, <1>9, <1>10, <1>11 DEF LessonsRight
-----------------------------------------------------------------------------
(* The traces that batches make.                                            *)

LEMMA RunTells ==
    ASSUME NEW req, RequestOK(req), NEW r \in RunsFor(req), NEW f \in 1..4, NEW c \in 1..8
    PROVE  RunTrace(RunResult(r, f, c), execution, f, req)
<1> PICK res : IsResultOf(res, r, f, c)
  BY DEF IsResultOf
<1> PICK x, tr : x = execution /\ tr = res.trace
  OBVIOUS
<1>0. r \in Runs /\ (Len(r.evaluations) = 0 <=> Unevaluated(req))
  BY RunForRequest
<1>1. PICK n \in Nat :
        /\ n = Len(r.evaluations) /\ DOMAIN r.evaluations = 1..n
        /\ \A i \in 1..n : r.evaluations[i].issues \in Seq(Issues)
                           /\ IsInjective(r.evaluations[i].issues)
  <2>1. /\ Len(r.evaluations) \in Nat /\ DOMAIN r.evaluations = 1..Len(r.evaluations)
        /\ \A i \in DOMAIN r.evaluations : r.evaluations[i].issues \in Seq(Issues)
    BY <1>0, RunTyped
  <2>2. \A i \in DOMAIN r.evaluations : IsInjective(r.evaluations[i].issues)
    BY <1>0, BatchAssumption
  <2> QED BY <2>1, <2>2
<1>2. /\ IsSeq(tr) /\ Len(tr) = n /\ ToSet(res.observations) = ToSet(tr)
      /\ ToSet(tr) = {tr[i] : i \in 1..n}
      /\ \A i \in 1..n : /\ tr[i].event = "observation" /\ tr[i].asset = <<x, f, c, i>>
                         /\ tr[i].issues = r.evaluations[i].issues
  <2>1. RunFields(res, r, f, c)
    BY <1>0, RunResultFields
  <2>2. res.observations = tr /\ execution = x
    BY <2>1 DEF RunFields
  <2>3. IsSeq(tr) /\ Len(tr) = n /\ ToSet(tr) = {tr[i] : i \in 1..n}
    BY <1>1, <2>1, <2>2 DEF RunFields
  <2>4. \A i \in 1..n : /\ tr[i].event = "observation" /\ tr[i].asset = <<x, f, c, i>>
                         /\ tr[i].issues = r.evaluations[i].issues
    BY <1>1, <2>1, <2>2 DEF RunFields
  <2> QED BY <2>2, <2>3, <2>4
<1>3. \A i \in 1..n : /\ IsEvaluation(tr[i]) /\ tr[i].asset[1] = x /\ tr[i].asset[2] = f
                      /\ tr[i].asset[3] = c /\ tr[i].asset[4] = i
  BY <1>2 DEF IsEvaluation
<1>4. DOMAIN tr = 1..n
  BY <1>2, LenProperties DEF IsSeq
<1>5. Told(tr, x, req)
  <2>1. \A e \in ToSet(tr) : e.asset[1] = x /\ e.issues \in Seq(Issues) /\ IsInjective(e.issues)
    <3>1. \A e \in ToSet(tr) : \E i \in 1..n : e = tr[i]
      BY <1>2
    <3>2. \A i \in 1..n : /\ tr[i].asset[1] = x /\ tr[i].issues \in Seq(Issues)
                           /\ IsInjective(tr[i].issues)
      BY <1>1, <1>2, <1>3, Zenon
    <3> QED BY <3>1, <3>2, Zenon
  <2>2. ASSUME NEW i \in 1..n, NEW j \in 1..n, tr[i].asset = tr[j].asset PROVE i = j
    BY <1>3, <2>2
  <2>3. ASSUME NEW i \in 1..n, NEW j \in 1..n, i < j, Quiet(tr, i + 1, j - 1)
        PROVE  Follows(tr[i].asset, tr[j].asset, req)
    <3>1. j = i + 1
      <4>1. ASSUME j # i + 1 PROVE FALSE
        <5>1. i + 1 \in (i + 1)..(j - 1) /\ i + 1 \in 1..n
          BY <2>3, <4>1
        <5>2. IsEvaluation(tr[i + 1])
          BY <1>3, <5>1
        <5> QED BY <2>3, <5>1, <5>2 DEF Quiet
      <4> QED BY <4>1
    <3> QED BY <1>3, <3>1 DEF Follows
  <2>4. \A i, j \in DOMAIN tr :
          /\ tr[i].asset = tr[j].asset => i = j
          /\ i < j /\ Quiet(tr, i + 1, j - 1) => Follows(tr[i].asset, tr[j].asset, req)
    BY <1>4, <2>2, <2>3, Zenon
  <2> QED BY <1>2, <2>1, <2>4 DEF Told
<1>6. ASSUME n # 0 PROVE res.best[3] = c
  <2>1. ReportsBest(res, ToSet(tr))
    <3>1. ReportsBest(res, ToSet(res.observations))
      BY <1>0, RunReportsBest
    <3>2. ToSet(res.observations) = ToSet(tr)
      BY <1>2
    <3> QED BY <3>1, <3>2, Zenon
  <2>2. tr[1] \in ToSet(tr)
    BY <1>2, <1>6
  <2>3. PICK o \in ToSet(tr) : res.best = o.asset
    BY <2>1, <2>2 DEF ReportsBest
  <2> QED BY <1>2, <1>3, <2>3
<1>7. ToldOf(tr, f, res.best)
  <2>1. ASSUME NEW i \in 1..n PROVE tr[i].asset[2] = f /\ tr[i].asset[3] = res.best[3]
    BY <1>3, <1>6
  <2> QED BY <1>2, <2>1 DEF ToldOf
<1>8. Unevaluated(req) => \A e \in ToSet(tr) : ~IsEvaluation(e)
  BY <1>0, <1>1, <1>2
<1>9. ~Unevaluated(req) => Evaluated(tr)
  BY <1>0, <1>1, <1>2, <1>3, <1>4 DEF Evaluated
<1>10. RunTrace(res, x, f, req)
  BY <1>5, <1>7, <1>8, <1>9 DEF RunTrace
<1> QED BY <1>10 DEF IsResultOf

(* Where there is a choice of candidates the trace is the chosen one's.     *)
LEMMA SelectedTells ==
    ASSUME RequestOK(request), NEW x, NEW f, NEW results,
           Listed(results, request.candidates),
           \A c \in 1..request.candidates :
             /\ FormatResult(results[c], x, f, request) /\ DOMAIN results[c] = ResultFields
             /\ RunTrace(results[c], x, f, request)
    PROVE  FormatTrace(SelectCandidate(results), x, f, request)
<1> PICK n : n \in 1..8 /\ n = request.candidates
  BY DEF RequestOK
<1>1. CASE n = 1
  <2>1. SelectCandidate(results) = results[1] /\ RunTrace(results[1], x, f, request)
    BY <1>1 DEF SelectCandidate
  <2> QED BY <1>1, <2>1 DEF RunTrace, FormatTrace
<1>2. CASE n # 1
  <2>0. DOMAIN results = 1..n
    BY DEF Listed
  <2>1. PICK k \in 1..n : IsSelected(k, results)
    <3>1. \A c \in 1..n : results[c].score \in Int /\ results[c].compliant \in BOOLEAN
      BY FormatResultTyped
    <3>2. n \in Nat /\ n > 0
      OBVIOUS
    <3>3. Selected(results) \in 1..n
      BY <2>0, <3>1, <3>2, SelectedIsBest
    <3> QED BY <3>3 DEF IsSelected
  <2>2. PICK chosen, res : chosen = results[k] /\ res = SelectCandidate(results)
    OBVIOUS
  <2>3. res.trace = <<BatchSelected>> \o chosen.trace /\ res.best = chosen.best
    <3>1. DOMAIN chosen = ResultFields
      BY <2>2
    <3>2. PICK as, os : res = [chosen EXCEPT !.assets = as, !.observations = os,
                                             !.trace = <<BatchSelected>> \o @]
      BY <1>2, <2>0, <2>1, <2>2 DEF SelectCandidate, IsSelected
    <3> QED BY <3>1, <3>2 DEF ResultFields
  <2>4. RunTrace(chosen, x, f, request)
    BY <2>2
  <2>5. PICK s, u, w, q : s = <<BatchSelected>> /\ u = chosen.trace /\ w = s \o u /\ q = request
    OBVIOUS
  <2>6. Told(u, x, q) /\ ToldOf(u, f, chosen.best) /\ IsSeq(u)
    BY <2>4, <2>5 DEF RunTrace, Told
  <2>7. ~IsEvaluation(BatchSelected) /\ StartsAfresh(BatchSelected)
    BY DEF IsEvaluation, StartsAfresh, BatchSelected
  <2>8. /\ ToSet(s) = {BatchSelected} /\ IsSeq(s) /\ DOMAIN s = {1} /\ s[1] = BatchSelected
    <3>1. s \in Seq({BatchSelected}) /\ ToSet(s) = {BatchSelected} /\ DOMAIN s = {1}
          /\ s[1] = BatchSelected
      BY <2>5 DEF ToSet
    <3> QED BY <3>1, SeqIsSeq
  <2>9. Told(s, x, q)
    BY <2>7, <2>8 DEF Told
  <2>10. Told(w, x, q)
    BY <2>5, <2>6, <2>7, <2>8, <2>9, ConcatenatedTold
  <2>11. IsSeq(w) /\ ToSet(w) = {BatchSelected} \cup ToSet(u)
    BY <2>5, <2>6, <2>8, ConcatenatedElements
  <2>12. w # <<>> /\ w[1] = BatchSelected
    <3>1. 1 \in DOMAIN w /\ w[1] = s[1]
      BY <2>5, <2>6, <2>8, ConcatenatedPositions
    <3>2. DOMAIN <<>> = {}
      OBVIOUS
    <3> QED BY <2>8, <3>1, <3>2
  <2>13. ToldOf(w, f, res.best)
    BY <2>3, <2>6, <2>7, <2>11 DEF ToldOf
  <2>14. Unevaluated(q) => \A e \in ToSet(w) : ~IsEvaluation(e)
    BY <2>4, <2>5, <2>7, <2>11 DEF RunTrace
  <2>15. w = res.trace
    BY <2>3, <2>5
  <2>16. FormatTrace(res, x, f, q)
    BY <1>2, <2>5, <2>7, <2>10, <2>12, <2>13, <2>14, <2>15 DEF FormatTrace
  <2> QED BY <2>2, <2>5, <2>16
<1> QED BY <1>1, <1>2
(* The trace of the first m formats.                                        *)
ToldUpTo(trace, m, results, x, req) ==
    /\ Told(trace, x, req)
    /\ \A e \in ToSet(trace) : IsEvaluation(e) =>
         e.asset[2] \in 1..m /\ e.asset[3] = results[e.asset[2]].best[3]
    /\ Unevaluated(req) => \A e \in ToSet(trace) : ~IsEvaluation(e)
    /\ req.candidates = 1 /\ ~Unevaluated(req) =>
         /\ trace # <<>> /\ IsEvaluation(trace[Len(trace)])
         /\ trace[Len(trace)].asset[2] = m

LEMMA OneMoreFormat ==
    ASSUME NEW x, NEW req, NEW results, NEW m \in Nat, m > 0,
           NEW s, ToldUpTo(s, m, results, x, req),
           FormatTrace(results[m + 1], x, m + 1, req)
    PROVE  ToldUpTo(s \o results[m + 1].trace, m + 1, results, x, req)
<1> PICK u, w, f : u = results[m + 1].trace /\ w = s \o u /\ f = m + 1
  OBVIOUS
<1>1. /\ Told(s, x, req) /\ IsSeq(s) /\ Told(u, x, req) /\ IsSeq(u)
      /\ \A e \in ToSet(u) : IsEvaluation(e) =>
           e.asset[2] = f /\ e.asset[3] = results[f].best[3]
  BY DEF FormatTrace, ToldUpTo, ToldOf, Told
<1>2. /\ Len(s) \in Nat /\ DOMAIN s = 1..Len(s) /\ \A i \in DOMAIN s : s[i] \in ToSet(s)
      /\ Len(u) \in Nat /\ DOMAIN u = 1..Len(u) /\ \A i \in DOMAIN u : u[i] \in ToSet(u)
  BY <1>1, Positions
<1>3. \A e \in ToSet(s) : IsEvaluation(e) =>
        e.asset[2] \in 1..m /\ e.asset[3] = results[e.asset[2]].best[3]
  BY DEF ToldUpTo
<1>4. \A a \in ToSet(s), b \in ToSet(u) :
        IsEvaluation(a) /\ IsEvaluation(b) => a.asset # b.asset
  <2>1. f \notin 1..m
    OBVIOUS
  <2> QED BY <1>1, <1>3, <2>1
<1>5. ASSUME NEW i \in DOMAIN s, NEW j \in DOMAIN u, IsEvaluation(s[i]), IsEvaluation(u[j]),
             Quiet(s, i + 1, Len(s)), Quiet(u, 1, j - 1)
      PROVE  Follows(s[i].asset, u[j].asset, req)
  <2>1. ~Unevaluated(req)
    BY <1>2, <1>5 DEF ToldUpTo
  <2>2. CASE req.candidates # 1
    <3>1. StartsAfresh(u[1]) /\ u # <<>>
      BY <2>2 DEF FormatTrace
    <3>2. j # 1
      BY <1>5, <3>1 DEF StartsAfresh, IsEvaluation
    <3>3. 1 \in 1..(j - 1)
      BY <1>2, <3>2
    <3> QED BY <1>5, <3>1, <3>3 DEF Quiet
  <2>3. CASE req.candidates = 1
    <3>1. IsEvaluation(s[Len(s)]) /\ s[Len(s)].asset[2] = m
      BY <2>1, <2>3 DEF ToldUpTo
    <3>2. IsEvaluation(u[1]) /\ u[1].asset[4] = 1
      BY <2>1, <2>3 DEF FormatTrace, Evaluated
    <3>3. i = Len(s)
      <4>1. i # Len(s) => Len(s) \in (i + 1)..Len(s)
        BY <1>2
      <4> QED BY <1>5, <3>1, <4>1 DEF Quiet
    <3>4. j = 1
      <4>1. j # 1 => 1 \in 1..(j - 1)
        BY <1>2
      <4> QED BY <1>5, <3>2, <4>1 DEF Quiet
    <3>5. s[i].asset[1] = x /\ u[j].asset[1] = x /\ u[j].asset[2] = m + 1
      BY <1>1, <1>2, <1>5 DEF Told
    <3> QED BY <2>3, <3>1, <3>2, <3>3, <3>4, <3>5 DEF Follows
  <2> QED BY <2>2, <2>3
<1>6. Told(w, x, req)
  BY <1>1, <1>4, <1>5, ConcatenatedTold
<1>7. IsSeq(w) /\ ToSet(w) = ToSet(s) \cup ToSet(u)
  BY <1>1, ConcatenatedElements
<1>8. \A e \in ToSet(w) : IsEvaluation(e) =>
        e.asset[2] \in 1..f /\ e.asset[3] = results[e.asset[2]].best[3]
  <2>1. f \in 1..f /\ \A k \in 1..m : k \in 1..f
    OBVIOUS
  <2> QED BY <1>1, <1>3, <1>7, <2>1
<1>9. Unevaluated(req) => \A e \in ToSet(w) : ~IsEvaluation(e)
  BY <1>7 DEF ToldUpTo, FormatTrace
<1>10. ASSUME req.candidates = 1, ~Unevaluated(req)
       PROVE  w # <<>> /\ IsEvaluation(w[Len(w)]) /\ w[Len(w)].asset[2] = f
  <2>1. u # <<>> /\ IsEvaluation(u[Len(u)])
    BY <1>10 DEF FormatTrace, Evaluated
  <2>2. Len(u) \in DOMAIN u
    <3>1. Len(u) # 0
      BY <1>1, <2>1, EmptySeq DEF IsSeq
    <3> QED BY <1>2, <3>1
  <2>3. Len(w) = Len(s) + Len(u) /\ w[Len(s) + Len(u)] = u[Len(u)]
        /\ Len(s) + Len(u) \in DOMAIN w
    BY <1>1, <2>2, ConcatenatedPositions
  <2>4. w # <<>>
    BY <2>3
  <2> QED BY <1>1, <1>2, <2>1, <2>2, <2>3, <2>4
<1> QED BY <1>6, <1>8, <1>9, <1>10 DEF ToldUpTo

FormatTraces(results, x, req) ==
    \A f \in 1..req.formats : FormatTrace(results[f], x, f, req)

(* What a delivery teaches.                                                 *)
Teaches(res, x, req) ==
    LessonsRight(Lessons(res.trace), res.summaries, x, req)

LEMMA ListedByPrefix ==
    ASSUME NEW n, n \in Nat /\ n > 0, NEW ss, Listed(ss, n)
    PROVE  \E g : /\ g[1] = ss[1]
                  /\ \A i \in 2..n : g[i] = g[i - 1] \o ss[i]
                  /\ FlattenSeq(ss) = g[n]
BY FlattenByPrefix DEF Listed

LEMMA JoinedTeaches ==
    ASSUME NEW req, RequestOK(req), NEW x, NEW results, FormatsListed(results, x, req),
           FormatTraces(results, x, req)
    PROVE  Teaches(JoinFormats(results), x, req)
<1>0. PICK n \in 1..4 : n = req.formats
  BY DEF RequestOK
<1> PICK res : res = JoinFormats(results)
  OBVIOUS
<1>1. DOMAIN results = 1..n /\ \A f \in 1..n : FormatTrace(results[f], x, f, req)
  BY <1>0 DEF FormatsListed, FormatTraces, Listed
<1> DEFINE traces == [f \in 1..n |-> results[f].trace]
<1>2. /\ res.trace = FlattenSeq(traces)
      /\ \A f \in 1..n : res.summaries[f].best = results[f].best
  BY <1>0, <1>1 DEF JoinFormats, Joined, Summary
<1>3. n \in Nat /\ n > 0 /\ traces = [i \in 1..n |-> traces[i]]
      /\ \A i \in 1..n : traces[i] = results[i].trace
  OBVIOUS
<1> HIDE DEF traces
<1>4. PICK g : /\ g[1] = traces[1]
               /\ \A i \in 2..n : g[i] = g[i - 1] \o traces[i]
               /\ FlattenSeq(traces) = g[n]
  <2>1. PICK ss : ss = traces
    OBVIOUS
  <2>2. n \in Nat /\ n > 0 /\ Listed(ss, n)
    BY <1>3, <2>1, Zenon DEF Listed
  <2>3. \E h : /\ h[1] = ss[1]
               /\ \A i \in 2..n : h[i] = h[i - 1] \o ss[i]
               /\ FlattenSeq(ss) = h[n]
    BY <2>2, ListedByPrefix
  <2> QED BY <2>1, <2>3, Zenon
<1> DEFINE S == {m \in 1..n : ToldUpTo(g[m], m, results, x, req)}
<1>5. 1 \in S
  <2>1. FormatTrace(results[1], x, 1, req) /\ g[1] = results[1].trace /\ 1 \in 1..n
    BY <1>1, <1>3, <1>4
  <2>2. ToldUpTo(g[1], 1, results, x, req)
    <3>1. PICK t : t = g[1]
      OBVIOUS
    <3>2. /\ Told(t, x, req)
          /\ \A e \in ToSet(t) : IsEvaluation(e) =>
               e.asset[2] = 1 /\ e.asset[3] = results[1].best[3]
          /\ Unevaluated(req) => \A e \in ToSet(t) : ~IsEvaluation(e)
          /\ req.candidates = 1 /\ ~Unevaluated(req) => Evaluated(t)
      BY <2>1, <3>1 DEF FormatTrace, ToldOf
    <3>3. Evaluated(t) => t[Len(t)].asset[2] = 1
      <4>1. IsSeq(t)
        BY <3>2 DEF Told
      <4>2. t # <<>> => Len(t) \in DOMAIN t /\ t[Len(t)] \in ToSet(t)
        <5>1. t # <<>> => Len(t) # 0
          BY <4>1, EmptySeq DEF IsSeq
        <5> QED BY <4>1, <5>1, Positions
      <4> QED BY <3>2, <4>2 DEF Evaluated
    <3> QED BY <3>1, <3>2, <3>3 DEF ToldUpTo, Evaluated
  <2> QED BY <2>1, <2>2
<1>6. ASSUME NEW m \in 1..(n - 1), m \in S PROVE m + 1 \in S
  <2>1. m + 1 \in 2..n /\ m + 1 \in 1..n /\ (m + 1) - 1 = m /\ m \in Nat /\ m > 0
    OBVIOUS
  <2>2. g[m + 1] = g[m] \o results[m + 1].trace
    BY <1>3, <1>4, <2>1
  <2>3. PICK s : s = g[m]
    OBVIOUS
  <2>4. ToldUpTo(s, m, results, x, req) /\ FormatTrace(results[m + 1], x, m + 1, req)
    BY <1>1, <1>6, <2>1, <2>3
  <2>5. ToldUpTo(s \o results[m + 1].trace, m + 1, results, x, req)
    BY <2>1, <2>4, OneMoreFormat
  <2> QED BY <2>1, <2>2, <2>3, <2>5
<1> HIDE DEF S
<1>7. 1..n \subseteq S
  BY <1>5, <1>6, BoundedInduction
<1>8. n \in S
  BY <1>7
<1>9. ToldUpTo(res.trace, n, results, x, req)
  BY <1>2, <1>4, <1>8 DEF S
<1>10. PICK tr, sm : tr = res.trace /\ sm = res.summaries
  OBVIOUS
<1>11. Told(tr, x, req) /\ \A e \in ToSet(tr) : IsEvaluation(e) =>
                             sm[e.asset[2]].best[3] = e.asset[3]
  BY <1>2, <1>9, <1>10 DEF ToldUpTo
<1>12. LessonsRight(Lessons(tr), sm, x, req)
  BY <1>11, LessonsTold
<1> QED BY <1>10, <1>12 DEF Teaches
-----------------------------------------------------------------------------
(* The invariant of lessons.                                                *)

(* No lesson of the file is of execution x ...                              *)
Fresh(fl, x) == \A l \in ToSet(fl) : l.from[1] # x

(* ... or every one is of a candidate that was chosen.                      *)
Agrees(fl, x, summaries) ==
    \A l \in ToSet(fl) : l.from[1] = x => summaries[l.from[2]].best[3] = l.from[3]

(* res is what execution x of task t delivers, with a trace to learn from.  *)
TaughtBy(res, x, t, ex, q) ==
    x \in DOMAIN ex /\ ex[x] = t /\ DeliveredBy(res, x, q) /\ Teaches(res, x, q)

(* There is one lesson of an asset and an issue, but of tasks executed      *)
(* again.                                                                   *)
LearnedOnce(fl, ex, again) ==
    \A i, j \in DOMAIN fl :
      Key(fl[i]) = Key(fl[j]) /\ ex[fl[i].from[1]] \notin again => i = j

FileLessons ==
    /\ LearnedOnce(file, executed, redone)
    /\ \A l \in ToSet(file) :
         /\ l.from[1] \in DOMAIN executed
         /\ Follows(l.from, l.to, requests[executed[l.from[1]]])

BatchLessons ==
    pc["worker"] = "batch" =>
      /\ task["worker"] \notin redone => Fresh(file, execution)
      /\ \A f \in 1..Len(formatResults) :
           FormatTrace(formatResults[f], execution, f, request)

ToSave == {"sign", "remember", "learn", "save"}

(* What process p, which has a result to save, has learned from it: nothing *)
(* yet, or what it has still to learn is not in the file.                   *)
Learning(p, x) ==
    /\ Agrees(file, x, result[p].summaries)
    /\ pc[p] # "learn" => Fresh(file, x)
    /\ pc[p] = "learn" => KeysApart(lessons[p], file)

HandLesson(p) ==
    \E x \in DOMAIN executed :
      /\ TaughtBy(result[p], x, task[p], executed, requests[task[p]])
      /\ pc[p] = "learn" =>
           LessonsRight(lessons[p], result[p].summaries, x, requests[task[p]])
      /\ task[p] \notin redone => Learning(p, x)

HandLessons == \A p \in Processes : pc[p] \in ToSave => HandLesson(p)

(* A saved result is for a reviewer, and no approval has begun to record it. *)
Undecided(t) ==
    /\ saved[t].status = "waiting_for_review"
    /\ \/ status[t] \in {"running", "waiting_for_review"}
       \/ pc["api"] = "load" /\ task["api"] = t

SavedLesson(t) ==
    \E x \in DOMAIN executed :
      /\ TaughtBy(saved[t], x, t, executed, requests[t])
      /\ t \notin redone =>
           /\ Agrees(file, x, saved[t].summaries)
           /\ Undecided(t) => Fresh(file, x)

SavedLessons == \A t \in Tasks : saved[t] # None => SavedLesson(t)

LessonInv == FileLessons /\ BatchLessons /\ HandLessons /\ SavedLessons
(* Two records of the same delivery teach the same.                         *)
LEMMA SameTaught ==
    ASSUME NEW res, NEW r, SameDelivery(r, res), NEW x, NEW t, NEW ex, NEW q,
           TaughtBy(res, x, t, ex, q)
    PROVE  TaughtBy(r, x, t, ex, q) /\ r.summaries = res.summaries
<1>1. r.trace = res.trace /\ r.summaries = res.summaries
  BY DEF SameDelivery
<1>2. DeliveredBy(res, x, q)
  BY DEF TaughtBy
<1>3. DeliveredBy(r, x, q)
  BY <1>2, StillDelivered
<1>4. Teaches(r, x, q)
  BY <1>1 DEF TaughtBy, Teaches
<1> QED BY <1>1, <1>3, <1>4 DEF TaughtBy

LEMMA TaughtGrows ==
    ASSUME NEW res, NEW x, NEW t, NEW ex, NEW ey, NEW q, TaughtBy(res, x, t, ex, q),
           \A y \in DOMAIN ex : y \in DOMAIN ey /\ ey[y] = ex[y]
    PROVE  TaughtBy(res, x, t, ey, q)
BY DEF TaughtBy

(* A delivery with pictures is of one execution.                            *)
LEMMA OneExecution ==
    ASSUME NEW res, NEW r, SameDelivery(r, res), NEW t, NEW q, RequestOK(q), NEW ex,
           NEW x, TaughtBy(res, x, t, ex, q), NEW y, TaughtBy(r, y, t, ex, q),
           res.assets # <<>>
    PROVE  x = y
<1>1. DeliveredBy(res, x, q) /\ DeliveredBy(r, y, q) /\ r.assets = res.assets
  BY DEF TaughtBy, SameDelivery
<1>2. res.assets[1][1] = x
  BY <1>1, FirstPicture
<1>3. r.assets[1][1] = y
  BY <1>1, FirstPicture
<1> QED BY <1>1, <1>2, <1>3

LEMMA FreshAgrees ==
    ASSUME NEW fl, NEW x, Fresh(fl, x), NEW sums
    PROVE  Agrees(fl, x, sums)
BY DEF Fresh, Agrees

-----------------------------------------------------------------------------
(* The parts of the invariant under a step.                                 *)

LEMMA FileStays ==
    ASSUME FileLessons, UNCHANGED <<file, executed, requests, redone>>
    PROVE  FileLessons'
BY DEF FileLessons

LEMMA BatchStays ==
    ASSUME BatchLessons, pc'["worker"] = "batch" => pc["worker"] = "batch",
           pc'["worker"] = "batch" =>
             UNCHANGED <<execution, request, formatResults>> /\ task'["worker"] = task["worker"],
           UNCHANGED <<file, redone>>
    PROVE  BatchLessons'
BY DEF BatchLessons

LEMMA HandLessonStays ==
    ASSUME NEW q \in Processes, HandLesson(q), UNCHANGED <<file, executed, requests, redone>>,
           pc'[q] = pc[q], task'[q] = task[q], result'[q] = result[q], lessons'[q] = lessons[q]
    PROVE  HandLesson(q)'
BY DEF HandLesson, Learning

LEMMA OthersStay ==
    ASSUME HandLessons, NEW p \in Processes, UNCHANGED <<file, executed, requests, redone>>,
           \A q \in Processes \ {p} :
             /\ pc'[q] = pc[q] /\ task'[q] = task[q]
             /\ result'[q] = result[q] /\ lessons'[q] = lessons[q],
           pc'[p] \in ToSave => HandLesson(p)'
    PROVE  HandLessons'
<1> SUFFICES ASSUME NEW q \in Processes, pc'[q] \in ToSave
             PROVE  HandLesson(q)'
  BY DEF HandLessons
<1>1. CASE q = p
  BY <1>1
<1>2. CASE q # p
  <2>1. HandLesson(q)
    BY <1>2 DEF HandLessons
  <2> QED BY <1>2, <2>1, HandLessonStays
<1> QED BY <1>1, <1>2

LEMMA SavedStays ==
    ASSUME SavedLessons, UNCHANGED <<file, executed, requests, saved, redone>>,
           \A t \in Tasks \ redone : saved[t] # None /\ Undecided(t)' => Undecided(t)
    PROVE  SavedLessons'
<1> SUFFICES ASSUME NEW t \in Tasks, saved'[t] # None PROVE SavedLesson(t)'
  BY DEF SavedLessons
<1>1. PICK x \in DOMAIN executed :
        /\ TaughtBy(saved[t], x, t, executed, requests[t])
        /\ t \notin redone =>
             /\ Agrees(file, x, saved[t].summaries)
             /\ Undecided(t) => Fresh(file, x)
  BY DEF SavedLessons, SavedLesson
<1> QED BY <1>1 DEF SavedLesson

(* Where neither statuses nor the API's place change.                       *)
LEMMA StillUndecided ==
    ASSUME UNCHANGED <<saved, status>>,
           pc'["api"] = "load" => pc["api"] = "load" /\ task'["api"] = task["api"]
    PROVE  \A t \in Tasks \ redone : saved[t] # None /\ Undecided(t)' => Undecided(t)
BY DEF Undecided

LEMMA InitLessons == Init => LessonInv
<1> SUFFICES ASSUME Init PROVE LessonInv
  OBVIOUS
<1>0. file = <<>> /\ pc = [p \in Processes |-> "idle"] /\ saved = [t \in Tasks |-> None]
  BY DEF Init, ExperienceInit
<1>1. DOMAIN file = {} /\ ToSet(file) = {}
  BY <1>0, EmptyIsSeq
<1>2. FileLessons
  BY <1>1 DEF FileLessons, LearnedOnce
<1>3. BatchLessons
  BY <1>0, DeliveryAssumption DEF BatchLessons
<1>4. HandLessons
  BY <1>0 DEF HandLessons, ToSave
<1>5. SavedLessons
  BY <1>0 DEF SavedLessons
<1> QED BY <1>2, <1>3, <1>4, <1>5 DEF LessonInv
-----------------------------------------------------------------------------
(* Steps of the batch.                                                      *)

LEMMA EndFormatTells ==
    ASSUME IInv, BatchLessons, Batch, EndFormat
    PROVE  BatchLessons'
<1>0. /\ pc["worker"] = "batch" /\ BatchOK /\ Types
      /\ UNCHANGED <<request, execution, requests, task, executed, redone, pc, file>>
  BY DEF Batch, EndFormat, At, IInv, taskVars, historyVars, localVars, experienceVars
<1>1. /\ request = requests[task["worker"]]
      /\ IsSeq(formatResults) /\ Len(formatResults) <= request.formats
      /\ \A c \in Indices : candidates[c] \in CandidateStates(request)
      /\ Len(formatResults) < request.formats /\ Indices = 1..request.candidates
  BY <1>0 DEF BatchOK, EndFormat
<1>2. task["worker"] \in Tasks /\ RequestOK(request)
  <2>1. task["worker"] \in Tasks
    BY <1>0, DeliveryAssumption DEF IInv, Control, Types
  <2> QED BY <1>0, <1>1, <2>1 DEF Types
<1>3. PICK n \in 1..8 : n = request.candidates
  BY <1>2 DEF RequestOK
<1>4. PICK f \in 1..4 : f = Len(formatResults) + 1
  <2>1. Len(formatResults) \in Nat /\ request.formats \in 1..4
    BY <1>1, <1>2, LenProperties DEF RequestOK, IsSeq
  <2>2. Len(formatResults) + 1 \in 1..4
    BY <1>1, <2>1
  <2> QED BY <2>2
<1>5. ASSUME NEW c \in 1..n
      PROVE  /\ FormatResult(Results(f)[c], execution, f, request)
             /\ DOMAIN Results(f)[c] = ResultFields
             /\ RunTrace(Results(f)[c], execution, f, request)
  <2>1. candidates[c].state = "done" /\ candidates[c] \in CandidateStates(request)
    BY <1>1, <1>3 DEF EndFormat, In
  <2>2. PICK r \in RunsFor(request) : candidates[c] = Done(r)
    BY <2>1 DEF CandidateStates, Waiting, Running, Raised
  <2>3. Results(f)[c] = RunResult(r, f, c)
    BY <1>1, <1>3, <2>2 DEF Results, Done
  <2>4. r \in Runs /\ c \in 1..8
    BY DEF RunsFor
  <2>5. PICK res : IsResultOf(res, r, f, c)
    BY DEF IsResultOf
  <2>6. RunFields(res, r, f, c)
    BY <2>4, <2>5, RunResultFields
  <2>7. DOMAIN RunResult(r, f, c) = ResultFields
    BY <2>5, <2>6 DEF RunFields, IsResultOf, ResultFields
  <2>8. PICK req : req = request
    OBVIOUS
  <2>9. FormatResult(RunResult(r, f, c), execution, f, req)
    BY <1>2, <2>4, <2>8, RunIsFormatResult
  <2>10. RequestOK(req) /\ r \in RunsFor(req) /\ c \in 1..8
    BY <1>2, <2>4, <2>8
  <2>11. RunTrace(RunResult(r, f, c), execution, f, req)
    BY <2>10, RunTells
  <2> QED BY <2>3, <2>7, <2>8, <2>9, <2>11
<1>6. Listed(Results(f), n)
  BY <1>1, <1>3 DEF Results, Listed
<1>7. PICK rs, x : rs = Results(f) /\ x = execution
  OBVIOUS
<1>8. FormatTrace(SelectCandidate(rs), x, f, request)
  BY <1>2, <1>3, <1>5, <1>6, <1>7, SelectedTells
<1>9. PICK sel : sel = SelectCandidate(Results(f))
  OBVIOUS
<1>10. FormatTrace(sel, execution, f, request)
  BY <1>7, <1>8, <1>9
<1>11. formatResults' = Append(formatResults, sel)
  BY <1>4, <1>9 DEF EndFormat
<1>12. PICK fr : fr = formatResults
  OBVIOUS
<1>13. /\ IsSeq(Append(fr, sel)) /\ Len(Append(fr, sel)) = Len(fr) + 1
       /\ Append(fr, sel)[Len(fr) + 1] = sel
       /\ \A i \in 1..Len(fr) : Append(fr, sel)[i] = fr[i]
  BY <1>1, <1>12, AppendedElements
<1>14. /\ Len(formatResults') = f /\ formatResults'[f] = sel
       /\ \A i \in 1..Len(formatResults) : formatResults'[i] = formatResults[i]
  BY <1>4, <1>11, <1>12, <1>13
<1>15. \A i \in 1..f : FormatTrace(formatResults'[i], execution, i, request)
  <2> SUFFICES ASSUME NEW i \in 1..f
               PROVE  FormatTrace(formatResults'[i], execution, i, request)
    OBVIOUS
  <2>1. CASE i = f
    BY <1>10, <1>14, <2>1
  <2>2. CASE i # f
    <3>1. i \in 1..Len(formatResults)
      BY <1>1, <1>4, <2>2, LenProperties DEF IsSeq
    <3> QED BY <1>0, <1>14, <3>1 DEF BatchLessons
  <2> QED BY <2>1, <2>2
<1> QED BY <1>0, <1>14, <1>15 DEF BatchLessons

LEMMA BatchTells ==
    ASSUME IInv, LessonInv, Batch
    PROVE  LessonInv'
<1>0. UNCHANGED <<experienceVars, taskVars, recordVars, historyVars, localVars, restarts,
                  execution>>
  BY DEF Batch, At, StartCandidate, EndCandidate, EndFormat
<1> USE DEF experienceVars, taskVars, localVars, historyVars, LessonInv
<1>1. FileLessons'
  BY <1>0, FileStays
<1>2. SavedLessons'
  BY <1>0, StillUndecided, SavedStays
<1>3. HandLessons'
  BY <1>0, HandLessonStays DEF HandLessons
<1>4. BatchLessons'
  <2>1. CASE EndFormat
    BY <2>1, EndFormatTells
  <2>2. CASE ~EndFormat
    <3>1. UNCHANGED <<execution, request, formatResults, file, pc, task, redone>>
      BY <1>0, <2>2 DEF Batch, StartCandidate, EndCandidate
    <3> QED BY <3>1, BatchStays
  <2> QED BY <2>1, <2>2
<1> QED BY <1>1, <1>2, <1>3, <1>4

LEMMA BeginTells ==
    ASSUME IInv, LessonInv, NEW t \in Tasks, Begin(t)
    PROVE  LessonInv'
<1>0. /\ pc["worker"] = "idle"
      /\ status' = [status EXCEPT ![t] = "running"]
      /\ execution' = execution + 1 /\ formatResults' = <<>>
      /\ executed' = Append(executed, t)
      /\ redone' = IF saved[t] # None THEN redone \cup {t} ELSE redone
      /\ task' = [task EXCEPT !["worker"] = t]
      /\ pc' = [pc EXCEPT !["worker"] = "batch"]
      /\ UNCHANGED <<file, requests, saved, result, lessons>>
  BY DEF Begin, BeginBatch, At, Goto, experienceVars
<1> USE DEF LessonInv
<1>a. /\ "worker" \in Processes /\ "api" \in Processes /\ "api" # "worker"
      /\ redone \subseteq redone' /\ (t \notin redone' => saved[t] = None)
      /\ pc'["worker"] = "batch" /\ task'["worker"] = t
      /\ \A q \in Processes \ {"worker"} : pc'[q] = pc[q] /\ task'[q] = task[q]
      /\ \A u \in Tasks \ {t} : status'[u] = status[u]
  BY <1>0, DeliveryAssumption DEF IInv, Types
<1>1. PICK ex, n : /\ ex = executed /\ n = Len(ex) /\ n \in Nat /\ ex \in Seq(Tasks)
                   /\ DOMAIN ex = 1..n /\ execution = n
  BY LenProperties DEF IInv, Types
<1>2. PICK ey : /\ ey = Append(ex, t) /\ DOMAIN ey = 1..(n + 1)
                /\ \A x \in 1..n : ey[x] = ex[x]
  <2>1. /\ Append(ex, t) \in Seq(Tasks) /\ Len(Append(ex, t)) = Len(ex) + 1
        /\ \A x \in 1..Len(ex) : Append(ex, t)[x] = ex[x]
    BY <1>1, AppendProperties
  <2>2. DOMAIN Append(ex, t) = 1..Len(Append(ex, t))
    BY <2>1, LenProperties
  <2> QED BY <1>1, <2>1, <2>2
<1>3. /\ executed' = ey /\ n + 1 \notin DOMAIN executed /\ execution' = n + 1
      /\ \A x \in DOMAIN executed : x \in DOMAIN ey /\ ey[x] = executed[x]
  BY <1>0, <1>1, <1>2
<1>4. FileLessons'
  <2>1. \A l \in ToSet(file) : l.from[1] \in DOMAIN executed
    BY DEF FileLessons
  <2>2. \A i \in DOMAIN file : file[i] \in ToSet(file)
    BY DEF ToSet
  <2>3. \A i \in DOMAIN file : ey[file[i].from[1]] = executed[file[i].from[1]]
    BY <1>3, <2>1, <2>2
  <2>4. LearnedOnce(file, executed, redone)
    BY DEF FileLessons
  <2>5. LearnedOnce(file, ey, redone')
    BY <1>a, <2>3, <2>4 DEF LearnedOnce
  <2>6. \A l \in ToSet(file) :
          /\ l.from[1] \in DOMAIN ey
          /\ Follows(l.from, l.to, requests[ey[l.from[1]]])
    BY <1>3 DEF FileLessons
  <2> QED BY <1>0, <1>3, <2>5, <2>6 DEF FileLessons
<1>5. BatchLessons'
  <2>1. Fresh(file, n + 1)
    BY <1>3 DEF FileLessons, Fresh
  <2>2. Len(formatResults') = 0
    BY <1>0
  <2> QED BY <1>0, <1>3, <2>1, <2>2 DEF BatchLessons
<1>6. HandLessons'
  <2> SUFFICES ASSUME NEW q \in Processes, pc'[q] \in ToSave
               PROVE  HandLesson(q)'
    BY DEF HandLessons
  <2>1. q # "worker" /\ pc'[q] = pc[q] /\ task'[q] = task[q]
    BY <1>a DEF ToSave
  <2>2. PICK x \in DOMAIN executed :
          /\ TaughtBy(result[q], x, task[q], executed, requests[task[q]])
          /\ pc[q] = "learn" =>
               LessonsRight(lessons[q], result[q].summaries, x, requests[task[q]])
          /\ task[q] \notin redone => Learning(q, x)
    BY <2>1 DEF HandLessons, HandLesson
  <2>3. x \in DOMAIN ey /\ TaughtBy(result[q], x, task[q], ey, requests[task[q]])
    BY <1>3, <2>2, TaughtGrows
  <2>4. task'[q] \notin redone' => Learning(q, x)'
    BY <1>0, <1>a, <2>1, <2>2 DEF Learning
  <2> QED BY <1>0, <1>3, <2>1, <2>2, <2>3, <2>4 DEF HandLesson
<1>7. SavedLessons'
  <2> SUFFICES ASSUME NEW u \in Tasks, saved'[u] # None
               PROVE  SavedLesson(u)'
    BY DEF SavedLessons
  <2>1. PICK x \in DOMAIN executed :
          /\ TaughtBy(saved[u], x, u, executed, requests[u])
          /\ u \notin redone =>
               /\ Agrees(file, x, saved[u].summaries)
               /\ Undecided(u) => Fresh(file, x)
    BY <1>0 DEF SavedLessons, SavedLesson
  <2>2. x \in DOMAIN ey /\ TaughtBy(saved[u], x, u, ey, requests[u])
    BY <1>3, <2>1, TaughtGrows
  <2>3. u \notin redone' => u \notin redone /\ (Undecided(u)' => Undecided(u))
    BY <1>0, <1>a DEF Undecided
  <2> QED BY <1>0, <1>3, <2>1, <2>2, <2>3 DEF SavedLesson
<1> QED BY <1>4, <1>5, <1>6, <1>7

LEMMA MaterializeTells ==
    ASSUME IInv, LessonInv, Materialize
    PROVE  LessonInv'
<1> DEFINE joined == JoinFormats(formatResults)
           review == request.review /\ joined.assets # <<>>
           status2 == IF review THEN "waiting_for_review" ELSE joined.status
           res == [joined EXCEPT !.status = status2]
<1>0. /\ pc["worker"] = "batch" /\ Len(formatResults) = request.formats
      /\ result' = [result EXCEPT !["worker"] = res]
      /\ pc' = [pc EXCEPT !["worker"] = IF review THEN "save" ELSE "sign"]
      /\ UNCHANGED <<file, requests, status, saved, executed, redone, task, lessons>>
  BY DEF Materialize, At, Goto, experienceVars, historyVars
<1> USE DEF LessonInv
<1>1. "worker" \in Processes /\ "api" \in Processes /\ "api" # "worker"
  BY DeliveryAssumption
<1>2. PICK t, req, x, fr : /\ t = task["worker"] /\ req = request /\ x = execution
                           /\ fr = formatResults
  OBVIOUS
<1>3. t \in Tasks /\ RequestOK(requests[t])
  BY <1>0, <1>1, <1>2, OwnTask
<1>4. /\ req = requests[t] /\ RequestOK(req) /\ x > 0 /\ executed[x] = t
      /\ IsSeq(fr) /\ Len(fr) = req.formats
      /\ \A f \in 1..Len(fr) : FormatResult(fr[f], x, f, req) /\ FormatTrace(fr[f], x, f, req)
      /\ t \notin redone => Fresh(file, x)
  BY <1>0, <1>2, <1>3 DEF IInv, BatchOK, BatchLessons
<1>5. x \in DOMAIN executed
  BY <1>2, <1>4, LenProperties DEF IInv, Types
<1>6. FormatsListed(fr, x, req) /\ FormatTraces(fr, x, req)
  <2>1. PICK n \in 1..4 : n = req.formats
    BY <1>4 DEF RequestOK
  <2>2. fr = [i \in 1..n |-> fr[i]]
    BY <1>4, <2>1, LenProperties DEF IsSeq
  <2> QED BY <1>4, <2>1, <2>2 DEF FormatsListed, FormatTraces, Listed
<1>7. PICK old : old = JoinFormats(fr)
  OBVIOUS
<1>8. DeliveredBy(old, x, req) /\ Teaches(old, x, req) /\ DOMAIN old = FinalFields
  <2>1. DeliveredBy(old, x, req)
    BY <1>4, <1>6, <1>7, JoinedIsDelivered
  <2>2. Teaches(old, x, req)
    BY <1>4, <1>6, <1>7, JoinedTeaches
  <2> QED BY <2>1, <2>2 DEF DeliveredBy
<1>9. PICK new, s : new = res /\ s = status2
  OBVIOUS
<1>10. new = [old EXCEPT !.status = s]
  BY <1>2, <1>7, <1>9
<1> HIDE DEF joined, status2, res
<1>11. SameDelivery(new, old)
  BY <1>8, <1>10, StatusReplaced
<1>12. TaughtBy(new, x, t, executed, req)
  <2>1. TaughtBy(old, x, t, executed, req)
    BY <1>4, <1>5, <1>8 DEF TaughtBy
  <2>2. PICK ex : ex = executed
    OBVIOUS
  <2>3. TaughtBy(new, x, t, ex, req)
    BY <1>11, <2>1, <2>2, SameTaught
  <2> QED BY <2>2, <2>3
<1>13. /\ result'["worker"] = new /\ pc'["worker"] \in {"save", "sign"}
       /\ \A q \in Processes \ {"worker"} : result'[q] = result[q] /\ pc'[q] = pc[q]
  BY <1>0, <1>1, <1>9 DEF IInv, Types
<1>14. HandLesson("worker")'
  <2>1. t \notin redone => Agrees(file, x, new.summaries)
    BY <1>4, FreshAgrees
  <2>2. task'["worker"] \notin redone' => Learning("worker", x)'
    BY <1>0, <1>2, <1>4, <1>13, <2>1 DEF Learning
  <2> QED BY <1>0, <1>2, <1>4, <1>5, <1>12, <1>13, <2>2 DEF HandLesson
<1>15. HandLessons'
  BY <1>0, <1>1, <1>13, <1>14, OthersStay
<1>16. FileLessons'
  BY <1>0, FileStays
<1>17. BatchLessons'
  BY <1>13 DEF BatchLessons
<1>18. SavedLessons'
  BY <1>0, <1>1, <1>13, StillUndecided, SavedStays
<1> QED BY <1>15, <1>16, <1>17, <1>18

LEMMA ApproveTells ==
    ASSUME IInv, LessonInv, NEW t \in Tasks, Approve(t)
    PROVE  LessonInv'
<1>0. /\ pc["api"] = "idle" /\ status[t] = "waiting_for_review"
      /\ status' = [status EXCEPT ![t] = "review_processing"]
      /\ task' = [task EXCEPT !["api"] = t]
      /\ pc' = [pc EXCEPT !["api"] = "load"]
      /\ UNCHANGED <<file, execution, request, formatResults, requests, saved, executed,
                     redone, result, lessons>>
  BY DEF Approve, At, Goto, experienceVars, batchVars, historyVars
<1> USE DEF LessonInv
<1>1. "api" \in Processes /\ "worker" \in Processes /\ "api" # "worker"
  BY DeliveryAssumption
<1>2. /\ pc'["api"] = "load" /\ task'["api"] = t
      /\ \A p \in Processes \ {"api"} :
           result'[p] = result[p] /\ pc'[p] = pc[p] /\ task'[p] = task[p]
      /\ status'[t] = "review_processing"
      /\ \A u \in Tasks \ {t} : status'[u] = status[u]
  BY <1>0, <1>1 DEF IInv, Types
<1>3. HandLessons'
  BY <1>0, <1>1, <1>2, OthersStay DEF ToSave
<1>4. FileLessons'
  BY <1>0, FileStays
<1>5. BatchLessons'
  BY <1>0, <1>1, <1>2, BatchStays
<1>6. \A u \in Tasks \ redone : saved[u] # None /\ Undecided(u)' => Undecided(u)
  BY <1>0, <1>2 DEF Undecided
<1>7. SavedLessons'
  BY <1>0, <1>6, SavedStays
<1> QED BY <1>3, <1>4, <1>5, <1>7

LEMMA LoadTells ==
    ASSUME IInv, LessonInv, LoadResult
    PROVE  LessonInv'
<1>0. /\ pc["api"] = "load"
      /\ result' = [result EXCEPT !["api"] = [saved[task["api"]] EXCEPT !.status = "completed"]]
      /\ pc' = [pc EXCEPT !["api"] = "sign"]
      /\ UNCHANGED <<file, execution, request, formatResults, requests, status, saved,
                     executed, redone, task, lessons>>
  BY DEF LoadResult, At, Goto, experienceVars, batchVars, taskVars, historyVars
<1> USE DEF LessonInv
<1>1. "api" \in Processes /\ "worker" \in Processes /\ "api" # "worker"
  BY DeliveryAssumption
<1>2. PICK t, old, q, ex, new : /\ t = task["api"] /\ old = saved[t] /\ q = requests[t]
                                /\ ex = executed
                                /\ new = [old EXCEPT !.status = "completed"]
  OBVIOUS
<1>3. /\ t \in Tasks /\ saved[t] # None
      /\ t \notin redone => saved[t].status = "waiting_for_review"
  <2>1. t \in Tasks
    BY <1>0, <1>1, <1>2, OwnTask
  <2> QED BY <1>0, <1>1, <1>2, <2>1 DEF IInv, Control, Intact
<1>4. PICK x \in DOMAIN executed :
        /\ TaughtBy(saved[t], x, t, executed, requests[t])
        /\ t \notin redone =>
             /\ Agrees(file, x, saved[t].summaries)
             /\ Undecided(t) => Fresh(file, x)
  BY <1>3 DEF SavedLessons, SavedLesson
<1>5. t \notin redone => Fresh(file, x)
  BY <1>0, <1>2, <1>3, <1>4 DEF Undecided
<1>6. SameDelivery(new, old)
  <2>1. DOMAIN old = FinalFields
    BY <1>2, <1>4 DEF TaughtBy, DeliveredBy
  <2> QED BY <1>2, <2>1, StatusReplaced
<1>7. TaughtBy(new, x, t, ex, q)
  BY <1>2, <1>4, <1>6, SameTaught
<1>8. /\ result'["api"] = new /\ pc'["api"] = "sign"
      /\ \A p \in Processes \ {"api"} : result'[p] = result[p] /\ pc'[p] = pc[p]
  BY <1>0, <1>1, <1>2 DEF IInv, Types
<1>9. HandLesson("api")'
  <2>1. t \notin redone => Agrees(file, x, new.summaries)
    BY <1>5, FreshAgrees
  <2>2. task'["api"] \notin redone' => Learning("api", x)'
    BY <1>0, <1>2, <1>5, <1>8, <2>1 DEF Learning
  <2> QED BY <1>0, <1>2, <1>4, <1>7, <1>8, <2>2 DEF HandLesson
<1>10. HandLessons'
  BY <1>0, <1>1, <1>8, <1>9, OthersStay
<1>11. FileLessons'
  BY <1>0, FileStays
<1>12. BatchLessons'
  BY <1>0, <1>1, <1>8, BatchStays
<1>13. SavedLessons'
  BY <1>0, <1>8, StillUndecided, SavedStays
<1> QED BY <1>10, <1>11, <1>12, <1>13
-----------------------------------------------------------------------------
(* Steps with a result.                                                     *)

LEMMA HeldLesson ==
    ASSUME LessonInv, NEW p \in Processes, pc[p] \in ToSave
    PROVE  \E x \in DOMAIN executed :
             /\ TaughtBy(result[p], x, task[p], executed, requests[task[p]])
             /\ pc[p] = "learn" =>
                  LessonsRight(lessons[p], result[p].summaries, x, requests[task[p]])
             /\ task[p] \notin redone => Learning(p, x)
BY DEF LessonInv, HandLessons, HandLesson

(* A step that rewrites the result it has in hand.                          *)
LEMMA RewriteTells ==
    ASSUME IInv, LessonInv, NEW p \in Processes, pc[p] = "sign",
           NEW r, SameDelivery(r, result[p]),
           result' = [result EXCEPT ![p] = r],
           NEW l \in {"sign", "remember"}, pc' = [pc EXCEPT ![p] = l],
           UNCHANGED <<experienceVars, batchVars, requests, status, saved, historyVars, task,
                       lessons>>
    PROVE  LessonInv'
<1> USE DEF LessonInv, experienceVars, batchVars, historyVars
<1>1. PICK x \in DOMAIN executed :
        /\ TaughtBy(result[p], x, task[p], executed, requests[task[p]])
        /\ task[p] \notin redone => Learning(p, x)
  BY HeldLesson DEF ToSave
<1>2. PICK old, t, ex, q : /\ old = result[p] /\ t = task[p] /\ ex = executed
                           /\ q = requests[task[p]]
  OBVIOUS
<1>3. TaughtBy(r, x, t, ex, q) /\ r.summaries = old.summaries
  BY <1>1, <1>2, SameTaught
<1>4. /\ result'[p] = r /\ pc'[p] = l
      /\ \A o \in Processes \ {p} : result'[o] = result[o] /\ pc'[o] = pc[o]
  BY DEF IInv, Types
<1>5. HandLesson(p)'
  <2>1. task'[p] \notin redone' => Learning(p, x)'
    BY <1>1, <1>2, <1>3, <1>4 DEF Learning
  <2> QED BY <1>1, <1>2, <1>3, <1>4, <2>1 DEF HandLesson
<1>6. HandLessons'
  BY <1>4, <1>5, OthersStay
<1>7. FileLessons'
  BY FileStays
<1>8. BatchLessons'
  <2>1. pc'["worker"] = "batch" => pc["worker"] = "batch"
    BY <1>4, DeliveryAssumption
  <2> QED BY <2>1, BatchStays
<1>9. SavedLessons'
  <2>1. pc'["api"] = "load" => pc["api"] = "load"
    BY <1>4, DeliveryAssumption
  <2> QED BY <2>1, StillUndecided, SavedStays
<1> QED BY <1>6, <1>7, <1>8, <1>9

LEMMA SignTells ==
    ASSUME IInv, LessonInv, NEW p \in Processes, SignAsset(p)
    PROVE  LessonInv'
<1> DEFINE left == {i \in DOMAIN result[p].assets :
                      result[p].assets[i] \in Chosen(result[p]) \ result[p].signed}
           next == result[p].assets[Min(left)]
<1>1. /\ pc[p] = "sign"
      /\ result' = [result EXCEPT ![p] = [result[p] EXCEPT !.signed = @ \cup {next}]]
      /\ UNCHANGED <<experienceVars, batchVars, requests, status, saved, historyVars, pc,
                     task, lessons>>
  BY DEF SignAsset, At, taskVars
<1>2. PICK old, s : old = result[p] /\ s = result[p].signed \cup {next}
  OBVIOUS
<1> HIDE DEF next
<1>3. DOMAIN old = FinalFields
  BY <1>1, <1>2, InHand DEF HasResult
<1>4. PICK r : r = [old EXCEPT !.signed = s]
  OBVIOUS
<1>5. SameDelivery(r, result[p]) /\ result' = [result EXCEPT ![p] = r]
  BY <1>1, <1>2, <1>3, <1>4, SignatureAdded
<1>6. pc' = [pc EXCEPT ![p] = "sign"]
  BY <1>1 DEF IInv, Types
<1> QED BY <1>1, <1>5, <1>6, RewriteTells

LEMMA UpdateTells ==
    ASSUME IInv, LessonInv, NEW p \in Processes, UpdateFinal(p)
    PROVE  LessonInv'
<1>1. /\ pc[p] = "sign" /\ pc' = [pc EXCEPT ![p] = "remember"]
      /\ result' = [result EXCEPT ![p] =
                      [result[p] EXCEPT !.credentials = Credentials(result[p])]]
      /\ UNCHANGED <<experienceVars, batchVars, requests, status, saved, historyVars, task,
                     lessons>>
  BY DEF UpdateFinal, At, Goto
<1>2. PICK old, s : old = result[p] /\ s = Credentials(result[p])
  OBVIOUS
<1>3. DOMAIN old = FinalFields
  BY <1>1, <1>2, InHand DEF HasResult
<1>4. PICK r : r = [old EXCEPT !.credentials = s]
  OBVIOUS
<1>5. SameDelivery(r, result[p]) /\ result' = [result EXCEPT ![p] = r]
  BY <1>1, <1>2, <1>3, <1>4, CredentialsSet
<1> QED BY <1>1, <1>5, RewriteTells
LEMMA RememberTells ==
    ASSUME IInv, LessonInv, NEW p \in Processes, Remember(p)
    PROVE  LessonInv'
<1> DEFINE learned == IF result[p].taught THEN <<>> ELSE Lessons(result[p].trace)
<1>0. /\ pc[p] = "remember" /\ pc' = [pc EXCEPT ![p] = "learn"]
      /\ lessons' = [lessons EXCEPT ![p] = learned]
      /\ result' = [result EXCEPT ![p].recorded = (result[p].assets # <<>>),
                                  ![p].taught = (result[p].taught \/ learned # <<>>)]
      /\ UNCHANGED <<file, execution, request, formatResults, requests, status, saved,
                     executed, redone, task>>
  BY DEF Remember, At, Goto, experienceVars, batchVars, taskVars, historyVars
<1> USE DEF LessonInv
<1>1. PICK x \in DOMAIN executed :
        /\ TaughtBy(result[p], x, task[p], executed, requests[task[p]])
        /\ task[p] \notin redone => Learning(p, x)
  BY <1>0, HeldLesson DEF ToSave
<1>2. PICK ls, t, old, q, ex :
        ls = learned /\ t = task[p] /\ old = result[p] /\ q = requests[t] /\ ex = executed
  OBVIOUS
<1>3. LessonsRight(ls, old.summaries, x, q)
  <2>1. LessonsRight(Lessons(old.trace), old.summaries, x, q)
    BY <1>1, <1>2 DEF TaughtBy, Teaches
  <2>2. LessonsRight(<<>>, old.summaries, x, q)
    BY EmptyIsSeq DEF LessonsRight, KeysDistinct
  <2> QED BY <1>2, <2>1, <2>2
<1>4. PICK u, v : u = (old.assets # <<>>) /\ v = (old.taught \/ ls # <<>>)
  OBVIOUS
<1>5. PICK r : r = WithRecords(old, u, v)
  OBVIOUS
<1> HIDE DEF learned
<1>6. result' = [result EXCEPT ![p] = r]
  BY <1>0, <1>2, <1>4, <1>5 DEF WithRecords
<1>7. SameDelivery(r, old)
  <2>1. DOMAIN old = FinalFields
    BY <1>1, <1>2 DEF TaughtBy, DeliveredBy
  <2> QED BY <1>5, <2>1, RecordsSet
<1>8. TaughtBy(r, x, t, ex, q) /\ r.summaries = old.summaries
  BY <1>1, <1>2, <1>7, SameTaught
<1>9. /\ pc'[p] = "learn" /\ lessons'[p] = ls /\ result'[p] = r
      /\ \A o \in Processes \ {p} :
           pc'[o] = pc[o] /\ lessons'[o] = lessons[o] /\ result'[o] = result[o]
  BY <1>0, <1>2, <1>6 DEF IInv, Types, LessonsTyped
<1>10. ASSUME task[p] \notin redone
       PROVE  KeysApart(ls, file) /\ Agrees(file, x, r.summaries)
  <2>1. Fresh(file, x)
    BY <1>0, <1>1, <1>10 DEF Learning
  <2>2. KeysApart(ls, file)
    BY <1>3, <2>1 DEF KeysApart, Key, LessonsRight, LessonFits, Fresh
  <2> QED BY <2>1, <2>2, FreshAgrees
<1>11. HandLesson(p)'
  <2>1. task'[p] \notin redone' => Learning(p, x)'
    BY <1>0, <1>9, <1>10 DEF Learning
  <2> QED BY <1>0, <1>1, <1>2, <1>3, <1>8, <1>9, <2>1 DEF HandLesson
<1>12. HandLessons'
  BY <1>0, <1>9, <1>11, OthersStay
<1>13. FileLessons'
  BY <1>0, FileStays
<1>14. BatchLessons'
  <2>1. pc'["worker"] = "batch" => pc["worker"] = "batch"
    BY <1>9, DeliveryAssumption
  <2> QED BY <1>0, <2>1, BatchStays
<1>15. SavedLessons'
  <2>1. pc'["api"] = "load" => pc["api"] = "load"
    BY <1>9, DeliveryAssumption
  <2> QED BY <1>0, <2>1, StillUndecided, SavedStays
<1> QED BY <1>12, <1>13, <1>14, <1>15

(* The first of several lessons, and the others.                            *)
LEMMA TailKeys ==
    ASSUME NEW s, IsSeq(s), s # <<>>, KeysDistinct(s)
    PROVE  /\ Head(s) \in ToSet(s) /\ ToSet(Tail(s)) \subseteq ToSet(s)
           /\ KeysDistinct(Tail(s))
           /\ \A e \in ToSet(Tail(s)) : Key(e) # Key(Head(s))
<1> PICK u : u = Tail(s)
  OBVIOUS
<1>1. PICK n \in Nat : n = Len(s) /\ DOMAIN s = 1..n /\ n # 0
  BY Positions, EmptySeq DEF IsSeq
<1>2. /\ Head(s) = s[1] /\ u \in Seq(ToSet(s)) /\ Len(u) = n - 1
      /\ \A i \in 1..Len(u) : u[i] = s[i + 1]
  BY <1>1, HeadTailProperties DEF IsSeq
<1>3. DOMAIN u = 1..(n - 1) /\ \A i \in 1..(n - 1) : u[i] = s[i + 1]
  BY <1>2, LenProperties
<1>4. \A i \in 1..(n - 1) : i + 1 \in 1..n /\ i + 1 # 1
  BY <1>1
<1>5. 1 \in 1..n
  BY <1>1
<1>6. \A e \in ToSet(u) : \E i \in 1..(n - 1) : e = s[i + 1]
  BY <1>3 DEF ToSet
<1>7. \A i \in 1..n : s[i] \in ToSet(s)
  BY <1>1 DEF ToSet
<1>8. Head(s) \in ToSet(s)
  BY <1>2, <1>5, <1>7
<1>9. ToSet(u) \subseteq ToSet(s)
  BY <1>4, <1>6, <1>7
<1>10. \A e \in ToSet(u) : Key(e) # Key(s[1])
  BY <1>1, <1>4, <1>5, <1>6 DEF KeysDistinct
<1>11. ASSUME NEW i \in 1..(n - 1), NEW j \in 1..(n - 1), Key(u[i]) = Key(u[j]) PROVE i = j
  <2>1. i + 1 = j + 1
    BY <1>1, <1>3, <1>4, <1>11 DEF KeysDistinct
  <2> QED BY <2>1
<1>12. KeysDistinct(u)
  BY <1>3, <1>11 DEF KeysDistinct
<1> QED BY <1>2, <1>8, <1>9, <1>10, <1>12

(* One more lesson, of an execution of a task that is executed again, or on *)
(* an asset and issue of which there is none.                               *)
LEMMA AppendedOnce ==
    ASSUME NEW s, IsSeq(s), NEW ex, NEW again, LearnedOnce(s, ex, again), NEW e,
           ex[e.from[1]] \notin again => \A d \in ToSet(s) : Key(d) # Key(e)
    PROVE  LearnedOnce(Append(s, e), ex, again)
<1>1. PICK n \in Nat : /\ n = Len(s) /\ DOMAIN s = 1..n
                       /\ \A i \in 1..n : s[i] \in ToSet(s)
  BY Positions
<1>2. PICK w : w = Append(s, e)
  OBVIOUS
<1>3. /\ IsSeq(w) /\ Len(w) = n + 1 /\ w[n + 1] = e /\ \A i \in 1..n : w[i] = s[i]
  BY <1>1, <1>2, AppendedElements
<1>4. DOMAIN w = 1..(n + 1)
  BY <1>3, Positions
<1>5. \A i \in 1..(n + 1) : i \in 1..n \/ i = n + 1
  OBVIOUS
<1>6. ASSUME NEW i \in 1..(n + 1), NEW j \in 1..(n + 1), Key(w[i]) = Key(w[j]),
             ex[w[i].from[1]] \notin again
      PROVE  i = j
  <2>0. ex[w[j].from[1]] \notin again
    BY <1>6 DEF Key
  <2>1. CASE i \in 1..n /\ j \in 1..n
    BY <1>1, <1>3, <1>6, <2>1 DEF LearnedOnce
  <2>2. CASE i \in 1..n /\ j = n + 1
    BY <1>1, <1>3, <1>6, <2>0, <2>2
  <2>3. CASE i = n + 1 /\ j \in 1..n
    BY <1>1, <1>3, <1>6, <2>3
  <2> QED BY <1>5, <2>1, <2>2, <2>3
<1> QED BY <1>2, <1>4, <1>6 DEF LearnedOnce

(* A lesson of execution x says nothing of the other executions.            *)
LEMMA FreshLonger ==
    ASSUME NEW fl, NEW fm, NEW l, ToSet(fm) = ToSet(fl) \cup {l}, NEW y, l.from[1] # y
    PROVE  /\ Fresh(fl, y) => Fresh(fm, y)
           /\ \A sums : Agrees(fl, y, sums) => Agrees(fm, y, sums)
           /\ \A ls : KeysApart(ls, fl) /\ (\A a \in ToSet(ls) : a.from[1] = y) =>
                      KeysApart(ls, fm)
<1>1. Fresh(fl, y) => Fresh(fm, y)
  BY DEF Fresh
<1>2. \A sums : Agrees(fl, y, sums) => Agrees(fm, y, sums)
  BY DEF Agrees
<1>3. ASSUME NEW ls, KeysApart(ls, fl), \A a \in ToSet(ls) : a.from[1] = y
      PROVE  KeysApart(ls, fm)
  BY <1>3 DEF KeysApart, Key
<1> QED BY <1>1, <1>2, <1>3

LEMMA LearnTells ==
    ASSUME IInv, LessonInv, NEW p \in Processes, Learn(p)
    PROVE  LessonInv'
<1>0. /\ pc[p] = "learn" /\ lessons[p] # <<>> /\ file' = Append(file, Head(lessons[p]))
      /\ lessons' = [lessons EXCEPT ![p] = Tail(lessons[p])]
      /\ UNCHANGED <<execution, request, formatResults, requests, status, saved, executed,
                     redone, pc, task, result>>
  BY DEF Learn, At, AddLesson, batchVars, taskVars, historyVars
<1> USE DEF LessonInv
<1>1. PICK x \in DOMAIN executed :
        /\ TaughtBy(result[p], x, task[p], executed, requests[task[p]])
        /\ LessonsRight(lessons[p], result[p].summaries, x, requests[task[p]])
        /\ task[p] \notin redone => Learning(p, x)
  BY <1>0, HeldLesson DEF ToSave
<1>2. PICK ls, l, t, q, res : /\ ls = lessons[p] /\ l = Head(ls) /\ t = task[p]
                              /\ q = requests[t] /\ res = result[p]
  OBVIOUS
<1>3. /\ executed[x] = t /\ ls # <<>> /\ KeysDistinct(ls)
      /\ \A a \in ToSet(ls) : LessonFits(a, res.summaries, x, q)
      /\ t \notin redone => KeysApart(ls, file) /\ Agrees(file, x, res.summaries)
  BY <1>0, <1>1, <1>2 DEF TaughtBy, Learning, LessonsRight
<1>4. /\ l \in ToSet(ls) /\ ToSet(Tail(ls)) \subseteq ToSet(ls) /\ KeysDistinct(Tail(ls))
      /\ \A e \in ToSet(Tail(ls)) : Key(e) # Key(l)
  <2>1. IsSeq(ls)
    BY <1>2 DEF IInv, LessonsTyped
  <2> QED BY <1>2, <1>3, <2>1, TailKeys
<1>5. PICK fl, fm : fl = file /\ fm = Append(fl, l)
  OBVIOUS
<1>6. IsSeq(fl) /\ ToSet(fm) = ToSet(fl) \cup {l} /\ file' = fm
  <2>1. IsSeq(fl)
    BY <1>5 DEF IInv, LessonsTyped
  <2> QED BY <1>0, <1>2, <1>5, <2>1, AppendedElements
<1>7. /\ l.from[1] = x /\ Follows(l.from, l.to, q)
      /\ res.summaries[l.from[2]].best[3] = l.from[3]
      /\ \A a \in ToSet(ls) : a.from[1] = x
  BY <1>3, <1>4 DEF LessonFits
<1>8. /\ t \in Tasks /\ RequestOK(q)
      /\ \A o \in Processes \ {p} :
           pc[o] \notin {"idle", "finish"} /\ task[o] \notin redone => task[o] # t
  BY <1>0, <1>2, OwnTask, TasksApart
<1>9. FileLessons'
  <2>1. LearnedOnce(fm, executed, redone)
    <3>1. LearnedOnce(fl, executed, redone)
      BY <1>5 DEF FileLessons
    <3>2. executed[l.from[1]] \notin redone => \A d \in ToSet(fl) : Key(d) # Key(l)
      BY <1>3, <1>4, <1>5, <1>7 DEF KeysApart
    <3>3. PICK ex, again : ex = executed /\ again = redone
      OBVIOUS
    <3>4. LearnedOnce(Append(fl, l), ex, again)
      BY <1>6, <3>1, <3>2, <3>3, AppendedOnce
    <3> QED BY <1>5, <3>3, <3>4
  <2>2. ASSUME NEW e \in ToSet(fm)
        PROVE  /\ e.from[1] \in DOMAIN executed
               /\ Follows(e.from, e.to, requests[executed[e.from[1]]])
    <3>1. CASE e = l
      BY <1>2, <1>3, <1>7, <3>1
    <3>2. CASE e \in ToSet(fl)
      BY <1>5, <3>2 DEF FileLessons
    <3> QED BY <1>6, <3>1, <3>2
  <2> QED BY <1>0, <1>6, <2>1, <2>2 DEF FileLessons
<1>10. \A y : y # x =>
         /\ Fresh(fl, y) => Fresh(fm, y)
         /\ \A sums : Agrees(fl, y, sums) => Agrees(fm, y, sums)
         /\ \A k : KeysApart(k, fl) /\ (\A a \in ToSet(k) : a.from[1] = y) =>
                   KeysApart(k, fm)
  BY <1>6, <1>7, FreshLonger
<1>11. t \notin redone => Agrees(fm, x, res.summaries)
  BY <1>3, <1>5, <1>6, <1>7 DEF Agrees
<1>12. BatchLessons'
  <2>1. ASSUME pc["worker"] = "batch", task["worker"] \notin redone PROVE Fresh(fm, execution)
    <3>1. "worker" \in Processes /\ p # "worker"
      BY <1>0, <2>1, DeliveryAssumption
    <3>2. executed[execution] = task["worker"]
      BY <2>1 DEF IInv, BatchOK
    <3>3. execution # x
      BY <1>3, <1>8, <2>1, <3>1, <3>2
    <3> QED BY <1>5, <1>10, <2>1, <3>3 DEF BatchLessons
  <2> QED BY <1>0, <1>6, <2>1 DEF BatchLessons
<1>13. HandLessons'
  <2>0. /\ lessons'[p] = Tail(ls)
        /\ \A o \in Processes \ {p} : lessons'[o] = lessons[o]
    BY <1>0, <1>2 DEF IInv, LessonsTyped
  <2> SUFFICES ASSUME NEW o \in Processes, pc'[o] \in ToSave
               PROVE  HandLesson(o)'
    BY DEF HandLessons
  <2>1. CASE o = p
    <3>1. LessonsRight(Tail(ls), res.summaries, x, q)
      BY <1>3, <1>4 DEF LessonsRight
    <3>2. t \notin redone => KeysApart(Tail(ls), fm)
      BY <1>3, <1>4, <1>5, <1>6 DEF KeysApart
    <3>3. task'[p] \notin redone' => Learning(p, x)'
      BY <1>0, <1>2, <1>6, <1>11, <2>0, <3>2 DEF Learning
    <3> QED BY <1>0, <1>1, <1>2, <2>0, <2>1, <3>1, <3>3 DEF HandLesson
  <2>2. CASE o # p
    <3>1. PICK y \in DOMAIN executed :
            /\ TaughtBy(result[o], y, task[o], executed, requests[task[o]])
            /\ pc[o] = "learn" =>
                 LessonsRight(lessons[o], result[o].summaries, y, requests[task[o]])
            /\ task[o] \notin redone => Learning(o, y)
      BY <1>0, HeldLesson
    <3>2. ASSUME task[o] \notin redone PROVE Learning(o, y)'
      <4>1. y # x
        BY <1>0, <1>3, <1>8, <2>2, <3>1, <3>2 DEF TaughtBy, ToSave
      <4>2. pc[o] = "learn" => \A a \in ToSet(lessons[o]) : a.from[1] = y
        BY <3>1 DEF LessonsRight, LessonFits
      <4>3. /\ Agrees(fm, y, result[o].summaries)
            /\ pc[o] # "learn" => Fresh(fm, y)
            /\ pc[o] = "learn" => KeysApart(lessons[o], fm)
        BY <1>5, <1>10, <3>1, <3>2, <4>1, <4>2 DEF Learning
      <4> QED BY <1>0, <1>6, <2>0, <2>2, <4>3 DEF Learning
    <3> QED BY <1>0, <2>0, <2>2, <3>1, <3>2 DEF HandLesson
  <2> QED BY <2>1, <2>2
<1>14. SavedLessons'
  <2> SUFFICES ASSUME NEW u \in Tasks, saved[u] # None PROVE SavedLesson(u)'
    BY <1>0 DEF SavedLessons
  <2>1. PICK y \in DOMAIN executed :
          /\ TaughtBy(saved[u], y, u, executed, requests[u])
          /\ u \notin redone => /\ Agrees(fl, y, saved[u].summaries)
                                /\ Undecided(u) => Fresh(fl, y)
    BY <1>5 DEF SavedLessons, SavedLesson
  <2>2. ASSUME u \notin redone
        PROVE  Agrees(fm, y, saved[u].summaries) /\ (Undecided(u) => Fresh(fm, y))
    <3>1. CASE u # t
      <4>1. y # x
        BY <1>3, <2>1, <3>1 DEF TaughtBy
      <4> QED BY <1>10, <2>1, <2>2, <4>1
    <3>2. CASE u = t
      <4>1. p = "api" /\ status[t] = "review_processing" /\ SameDelivery(res, saved[t])
            /\ saved[t].status = "waiting_for_review"
        <5>1. pc[p] \in HasResult /\ pc[p] \notin {"idle", "finish", "status"}
              /\ task[p] \notin redone
          BY <1>0, <1>2, <2>2, <3>2 DEF HasResult
        <5>2. /\ p = "worker" => saved[t] = None
              /\ p = "api" => status[t] = "review_processing"
                              /\ saved[t].status = "waiting_for_review"
          BY <1>2, <5>1 DEF IInv, Intact
        <5>3. p = "api" => SameDelivery(res, saved[t])
          BY <1>2, <5>1, InHand DEF HandFits
        <5> QED BY <3>2, <5>2, <5>3, TwoProcesses
      <4>2. saved[t].assets # <<>> /\ ~Undecided(t)
        <5>1. UnderReview(requests[t])
          BY <1>0, <1>2, <4>1 DEF IInv, Control
        <5>2. saved[t].assets # <<>>
          BY <1>8, <3>2, <5>1, SavedFields DEF UnderReview
        <5> QED BY <1>0, <4>1, <5>2 DEF Undecided
      <4>3. PICK old, ex : old = saved[t] /\ ex = executed
        OBVIOUS
      <4>4. SameDelivery(res, old) /\ TaughtBy(old, y, t, ex, q) /\ TaughtBy(res, x, t, ex, q)
            /\ old.assets # <<>> /\ RequestOK(q)
        BY <1>1, <1>2, <1>8, <2>1, <3>2, <4>1, <4>2, <4>3
      <4>5. y = x
        BY <4>4, OneExecution
      <4>6. saved[u].summaries = res.summaries
        BY <3>2, <4>1 DEF SameDelivery
      <4> QED BY <1>11, <2>2, <3>2, <4>2, <4>5, <4>6
    <3> QED BY <3>1, <3>2
  <2>3. Undecided(u)' => Undecided(u)
    BY <1>0 DEF Undecided
  <2> QED BY <1>0, <1>6, <2>1, <2>2, <2>3 DEF SavedLesson
<1> QED BY <1>9, <1>12, <1>13, <1>14

LEMMA SaveResultTells ==
    ASSUME IInv, LessonInv, NEW p \in Processes, SaveResult(p)
    PROVE  LessonInv'
<1> USE DEF LessonInv
<1>0. /\ pc[p] \in {"save", "learn"} /\ pc' = [pc EXCEPT ![p] = "status"]
      /\ saved' = [saved EXCEPT ![task[p]] = result[p]]
      /\ UNCHANGED <<file, execution, request, formatResults, requests, status, executed,
                     redone, task, result, lessons>>
  BY DEF SaveResult, At, Goto, experienceVars, batchVars, historyVars
<1>1. task[p] \in Tasks
  BY <1>0, OwnTask
<1>2. /\ saved'[task[p]] = result[p] /\ pc'[p] = "status"
      /\ \A u \in Tasks : u # task[p] => saved'[u] = saved[u]
      /\ \A q \in Processes \ {p} : pc'[q] = pc[q]
  BY <1>0, <1>1 DEF IInv, Types
<1>3. FileLessons'
  BY <1>0, FileStays
<1>4. BatchLessons'
  <2>1. pc'["worker"] = "batch" => pc["worker"] = "batch"
    BY <1>2, DeliveryAssumption
  <2> QED BY <1>0, <2>1, BatchStays
<1>5. HandLessons'
  BY <1>0, <1>2, OthersStay DEF ToSave
<1>6. PICK x \in DOMAIN executed :
        /\ TaughtBy(result[p], x, task[p], executed, requests[task[p]])
        /\ task[p] \notin redone => Learning(p, x)
  BY <1>0, HeldLesson DEF ToSave
<1>7. result[p].status = "waiting_for_review" => pc[p] = "save"
  <2>1. /\ p = "api" => result[p].status = "completed"
        /\ p = "worker" => result[p].status = WorkerStatus(result[p], requests[task[p]])
    BY <1>0 DEF IInv, ResultOK, HandOK, HasResult
  <2>2. p = "worker" /\ pc[p] = "learn" => ~UnderReview(requests[task[p]])
    BY DEF IInv, Control
  <2>3. p = "worker" /\ pc[p] = "learn" => result[p].status # "waiting_for_review"
    BY <2>1, <2>2 DEF WorkerStatus, StatusOf
  <2> QED BY <1>0, <2>1, <2>3, TwoProcesses
<1>8. SavedLessons'
  <2> SUFFICES ASSUME NEW u \in Tasks, saved'[u] # None PROVE SavedLesson(u)'
    BY DEF SavedLessons
  <2>1. CASE u = task[p]
    <3>1. u \notin redone => /\ Agrees(file, x, result[p].summaries)
                             /\ Undecided(u)' => Fresh(file, x)
      BY <1>2, <1>6, <1>7, <2>1 DEF Learning, Undecided
    <3> QED BY <1>0, <1>2, <1>6, <2>1, <3>1 DEF SavedLesson
  <2>2. CASE u # task[p]
    <3>1. saved'[u] = saved[u] /\ SavedLesson(u)
      BY <1>2, <2>2 DEF SavedLessons
    <3>2. Undecided(u)' => Undecided(u)
      BY <1>0, <1>2, <3>1, DeliveryAssumption DEF Undecided
    <3> QED BY <1>0, <3>1, <3>2 DEF SavedLesson
  <2> QED BY <2>1, <2>2
<1> QED BY <1>3, <1>4, <1>5, <1>8

-----------------------------------------------------------------------------
(* Steps with which a process is done with its result.                      *)

LEMMA LeaveTells ==
    ASSUME IInv, LessonInv, NEW p \in Processes, Leaves(p),
           UNCHANGED <<file, executed, redone, requests, saved>>,
           p = "worker" \/ UNCHANGED batchVars,
           \A t \in Tasks \ redone :
             saved[t] # None /\ saved[t].status = "waiting_for_review"
               /\ status'[t] \in {"running", "waiting_for_review"} => Undecided(t)
    PROVE  LessonInv'
<1> USE DEF LessonInv
<1>1. /\ pc'[p] \in {"idle", "finish"}
      /\ \A q \in Processes \ {p} : /\ pc'[q] = pc[q] /\ task'[q] = task[q]
                                    /\ result'[q] = result[q] /\ lessons'[q] = lessons[q]
  <2>1. \A q \in Processes \ {p} : result'[q] = result[q] /\ lessons'[q] = lessons[q]
    BY DEF Leaves, IInv, Types, LessonsTyped
  <2>2. CASE pc' = [pc EXCEPT ![p] = "idle"] /\ task' = [task EXCEPT ![p] = NoTask]
    BY <2>1, <2>2 DEF IInv, Types
  <2>3. CASE pc' = [pc EXCEPT ![p] = "finish"] /\ UNCHANGED task
    BY <2>1, <2>3 DEF IInv, Types
  <2> QED BY <2>2, <2>3 DEF Leaves
<1>2. FileLessons'
  BY FileStays
<1>3. HandLessons'
  BY <1>1, OthersStay DEF ToSave
<1>4. BatchLessons'
  <2>1. pc'["worker"] = "batch" => p # "worker" /\ pc["worker"] = "batch"
                                    /\ task'["worker"] = task["worker"]
    BY <1>1, DeliveryAssumption
  <2>2. pc'["worker"] = "batch" => UNCHANGED <<execution, request, formatResults>>
    BY <2>1 DEF batchVars
  <2> QED BY <2>1, <2>2, BatchStays
<1>5. pc'["api"] = "load" => pc["api"] = "load" /\ task'["api"] = task["api"]
  BY <1>1, DeliveryAssumption
<1>6. \A t \in Tasks \ redone : saved[t] # None /\ Undecided(t)' => Undecided(t)
  BY <1>5 DEF Undecided
<1>7. SavedLessons'
  BY <1>6, SavedStays
<1> QED BY <1>2, <1>3, <1>4, <1>7

LEMMA SaveStatusTells ==
    ASSUME IInv, LessonInv, NEW p \in Processes, SaveStatus(p)
    PROVE  LessonInv'
<1>0. /\ pc[p] = "status" /\ Leave(p)
      /\ status' = [status EXCEPT ![task[p]] = result[p].status]
      /\ UNCHANGED <<file, executed, redone, requests, saved, batchVars>>
  BY DEF SaveStatus, At, experienceVars, historyVars
<1>1. Leaves(p)
  BY <1>0, TwoProcesses DEF Leave, Leaves, Return, Goto
<1>2. task[p] \in Tasks
  BY <1>0, OwnTask
<1>3. ASSUME NEW t \in Tasks \ redone, saved[t].status = "waiting_for_review",
             status'[t] \in {"running", "waiting_for_review"}
      PROVE  Undecided(t)
  <2>1. CASE t # task[p]
    <3>1. status'[t] = status[t]
      BY <1>0, <1>2, <2>1 DEF IInv, Types
    <3> QED BY <1>3, <3>1 DEF Undecided
  <2>2. CASE t = task[p]
    <3>1. saved[t] = result[p]
      BY <1>0, <2>2, InHand DEF HandFits, HasResult
    <3>2. p # "api"
      BY <1>0, <1>3, <3>1 DEF IInv, ResultOK, HandOK, HasResult
    <3>3. status[t] = "running"
      BY <1>0, <2>2, <3>2, OwnTask, TwoProcesses
    <3> QED BY <1>3, <3>3 DEF Undecided
  <2> QED BY <2>1, <2>2
<1> QED BY <1>0, <1>1, <1>3, LeaveTells

LEMMA FinishTells ==
    ASSUME IInv, LessonInv, FinishJob
    PROVE  LessonInv'
<1>1. /\ Return("worker")
      /\ UNCHANGED <<file, executed, redone, requests, saved, status, batchVars>>
  BY DEF FinishJob, experienceVars, historyVars
<1>2. "worker" \in Processes /\ Leaves("worker")
  BY <1>1, DeliveryAssumption DEF Return, Goto, Leaves
<1>3. \A t \in Tasks \ redone :
        saved[t].status = "waiting_for_review"
          /\ status'[t] \in {"running", "waiting_for_review"} => Undecided(t)
  BY <1>1 DEF Undecided
<1> QED BY <1>1, <1>2, <1>3, LeaveTells

LEMMA RestartTells ==
    ASSUME IInv, LessonInv, NEW p \in Processes, Restart(p)
    PROVE  LessonInv'
<1>1. /\ Return(p)
      /\ p = "worker" \/ UNCHANGED batchVars
      /\ UNCHANGED <<file, executed, redone, requests, saved, status>>
  BY DEF Restart, LoadLessons, historyVars
<1>2. Leaves(p)
  BY <1>1 DEF Return, Goto, Leaves
<1>3. \A t \in Tasks \ redone :
        saved[t].status = "waiting_for_review"
          /\ status'[t] \in {"running", "waiting_for_review"} => Undecided(t)
  BY <1>1 DEF Undecided
<1> QED BY <1>1, <1>2, <1>3, LeaveTells

LEMMA RaiseTells ==
    ASSUME IInv, LessonInv, NEW p \in Processes, Raise(p)
    PROVE  LessonInv'
<1>1. /\ pc[p] # "idle" /\ Leave(p)
      /\ status' = IF p = "worker" THEN [status EXCEPT ![task[p]] = "failed"] ELSE status
      /\ p = "worker" \/ UNCHANGED batchVars
      /\ UNCHANGED <<file, executed, redone, requests, saved>>
  BY DEF Raise, At, experienceVars, historyVars
<1>2. Leaves(p)
  BY <1>1, TwoProcesses DEF Leave, Leaves, Return, Goto
<1>3. \A t \in Tasks : status'[t] = status[t] \/ status'[t] = "failed"
  <2>1. task[p] \in Tasks
    BY <1>1, OwnTask
  <2> QED BY <1>1, <2>1 DEF IInv, Types
<1>4. \A t \in Tasks \ redone :
        saved[t].status = "waiting_for_review"
          /\ status'[t] \in {"running", "waiting_for_review"} => Undecided(t)
  BY <1>3 DEF Undecided
<1> QED BY <1>1, <1>2, <1>4, LeaveTells

LEMMA LessonsNext ==
    ASSUME IInv, LessonInv, [Next]_vars
    PROVE  LessonInv'
<1>1. ASSUME UNCHANGED vars PROVE LessonInv'
  <2>1. UNCHANGED <<file, executed, redone, requests, saved, status, pc, task, result, lessons,
                    execution, request, formatResults>>
    BY <1>1 DEF vars, experienceVars, batchVars, taskVars, historyVars, localVars
  <2> USE DEF LessonInv
  <2>2. FileLessons' /\ BatchLessons'
    BY <2>1, FileStays, BatchStays
  <2>3. HandLessons'
    BY <2>1, HandLessonStays DEF HandLessons
  <2>4. SavedLessons'
    BY <2>1, StillUndecided, SavedStays
  <2> QED BY <2>2, <2>3, <2>4
<1>2. ASSUME NEW t \in Tasks, Begin(t) \/ Approve(t) PROVE LessonInv'
  BY <1>2, BeginTells, ApproveTells
<1>3. CASE Batch \/ Materialize \/ LoadResult \/ FinishJob
  BY <1>3, BatchTells, MaterializeTells, LoadTells, FinishTells
<1>4. ASSUME NEW p \in Processes,
             \/ SignAsset(p) \/ UpdateFinal(p) \/ Remember(p) \/ Learn(p)
             \/ SaveResult(p) \/ SaveStatus(p) \/ Raise(p) \/ Restart(p)
      PROVE  LessonInv'
  BY <1>4, SignTells, UpdateTells, RememberTells, LearnTells, SaveResultTells,
     SaveStatusTells, RaiseTells, RestartTells
<1> QED BY <1>1, <1>2, <1>3, <1>4 DEF Next

(* Whatever the traces, the interleaving of worker and API, the failures    *)
(* and the restarts: each lesson in experience.jsonl is drawn from          *)
(* consecutive evaluations of one candidate (without a choice of candidates *)
(* also of the last asset of a format and the first of the next); and but   *)
(* for tasks executed again over a saved result that candidate is the       *)
(* selected one of the delivery that is saved, and on the same asset and    *)
(* issue there is one lesson only (learn_from_trace, the trace of           *)
(* run_candidate_batch).                                                    *)
THEOREM LessonsStayWithinRun == Spec => []LessonsWithinRun
<1>1. Init => LessonInv
  BY InitLessons
<1>2. IInv /\ LessonInv /\ [Next]_vars => LessonInv'
  BY LessonsNext
<1>3. ASSUME IInv, LessonInv PROVE LessonsWithinRun
  <2> USE <1>3 DEF LessonInv
  <2> SUFFICES ASSUME NEW i \in DOMAIN file
               PROVE  LET l == file[i]
                          t == executed[l.from[1]]
                      IN
                      /\ Consecutive(l.from, l.to)
                      /\ t \notin redone =>
                           /\ t \in Saved /\ l.from \in ToSet(saved[t].assets) =>
                                saved[t].summaries[l.from[2]].best[3] = l.from[3]
                           /\ \A j \in DOMAIN file \ {i} :
                                <<file[j].from, file[j].issue>> # <<l.from, l.issue>>
    BY DEF LessonsWithinRun
  <2>1. PICK l, t : l = file[i] /\ t = executed[l.from[1]]
    OBVIOUS
  <2>2. l \in ToSet(file)
    BY <2>1 DEF ToSet
  <2>3. l.from[1] \in DOMAIN executed /\ Follows(l.from, l.to, requests[t])
    BY <2>1, <2>2 DEF FileLessons
  <2>4. Consecutive(l.from, l.to)
    BY <2>1, <2>3 DEF Follows, Consecutive
  <2>5. ASSUME t \notin redone, t \in Saved, l.from \in ToSet(saved[t].assets)
        PROVE  saved[t].summaries[l.from[2]].best[3] = l.from[3]
    <3>1. t \in Tasks /\ SavedLesson(t) /\ RequestOK(requests[t])
      BY <2>5 DEF Saved, SavedLessons, IInv, Types
    <3>2. PICK x \in DOMAIN executed :
            DeliveredBy(saved[t], x, requests[t]) /\ Agrees(file, x, saved[t].summaries)
      BY <2>5, <3>1 DEF SavedLesson, TaughtBy
    <3>3. PICK res, q : res = saved[t] /\ q = requests[t]
      OBVIOUS
    <3>4. RequestOK(q) /\ DeliveredBy(res, x, q) /\ l.from \in ToSet(res.assets)
      BY <2>5, <3>1, <3>2, <3>3
    <3>5. \A a \in ToSet(res.assets) : a[1] = x
      BY <3>4, PicturesOf
    <3>6. l.from[1] = x
      BY <3>4, <3>5
    <3> QED BY <2>2, <3>2, <3>6 DEF Agrees
  <2>6. ASSUME t \notin redone, NEW j \in DOMAIN file \ {i}
        PROVE  <<file[j].from, file[j].issue>> # <<l.from, l.issue>>
    BY <2>1, <2>6 DEF FileLessons, LearnedOnce, Key
  <2> QED BY <2>1, <2>4, <2>5, <2>6
<1>4. Spec => []IInv
  BY Invariance
<1> QED BY <1>1, <1>2, <1>3, <1>4, PTL DEF Spec
=============================================================================
