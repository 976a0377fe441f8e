--------------------------- MODULE DecisionProofs ---------------------------
(***************************************************************************)
(* Proofs about the browser's pure decisions (DecisionCases): for every    *)
(* size, limit and history of a plan, every policy, answer, file, package, *)
(* signature, text and report.                                             *)
(***************************************************************************)
EXTENDS DecisionCases, SequenceTheorems, FiniteSetTheorems, WellFoundedInduction, TLAPS

----------------------------------------------------------------------------
(* Every case is one of the inputs.                                        *)

AnyCase ==
  \/ case = [kind |-> "plan"]
  \/ case \in [kind : {"media"}, hit : M!Hits, policy : Policies]
  \/ case \in [kind : {"scan"}, answer : W!AnswersUpTo(Latest)]
  \/ case \in [kind : {"digest"}, size : Sizes, chunk : Chunks]
  \/ case \in [kind : {"package"}, package : Packages]
  \/ case \in [kind : {"signature"}, payload : Payloads, seal : Seals]
  \/ case \in [kind : {"text"}, bytes : Texts]
  \/ case \in [kind : {"health"}, report : Reports]

\* No case is ever another than one of the inputs.
LEMMA CasesAreInputs == CaseSpec => []AnyCase
<1>1. CaseInit => AnyCase
  BY DEF CaseInit, AnyCase
<1>2. AnyCase /\ [CaseNext]_<<vars, case>> => AnyCase'
  BY DEF AnyCase, CaseNext
<1> QED BY <1>1, <1>2, PTL DEF CaseSpec

----------------------------------------------------------------------------
(* Wardveil's finding.                                                     *)

\* A file is released only by a current clean finding about this very file.
LEMMA ReleaseIsCurrent ==
  ASSUME NEW latest \in Nat, NEW a \in W!AnswersUpTo(latest), NEW now \in Nat
  PROVE  W!ReleaseNeedsCurrentClean(a, now)
<1>1. a.observed \in Nat /\ a.validUntil \in Nat /\ a.evidence \in BOOLEAN
  BY DEF W!AnswersUpTo
<1>2. ASSUME W!Evaluate(a, now).release
      PROVE  W!Acceptable(a, now) /\ ~(a.validUntil <= now) /\ a.result = "clean" /\ a.evidence
  BY <1>2, Zenon DEF W!Evaluate, W!Unverified
<1> QED BY <1>1, <1>2 DEF W!ReleaseNeedsCurrentClean, W!Acceptable

\* Time makes no finding milder.
LEMMA TimeIsNotMild ==
  ASSUME NEW latest \in Nat, NEW a \in W!AnswersUpTo(latest), NEW until \in Nat
  PROVE  W!NeverMilder(a, until)
<1>1. a.observed \in Nat /\ a.validUntil \in Nat
  BY DEF W!AnswersUpTo
<1>2. \A t : W!Evaluate(a, t).quarantine => W!Acceptable(a, t) /\ a.result = "malicious"
  BY DEF W!Evaluate, W!Unverified
<1>3. \A t : W!Acceptable(a, t) /\ a.result = "malicious" => W!Evaluate(a, t).quarantine
  BY DEF W!Evaluate, W!Unverified
<1>4. \A t : W!Evaluate(a, t).release =>
        W!Acceptable(a, t) /\ ~(a.validUntil <= t) /\ a.result = "clean" /\ a.evidence
  BY DEF W!Evaluate, W!Unverified
<1>5. \A t : W!Acceptable(a, t) /\ ~(a.validUntil <= t) /\ a.result = "clean" /\ a.evidence =>
        W!Evaluate(a, t).release
  BY DEF W!Evaluate
<1>6. ASSUME NEW now \in 1..until, NEW later \in 1..until, now <= later, a.observed <= now
      PROVE  /\ W!Evaluate(a, now).quarantine => W!Evaluate(a, later).quarantine
             /\ W!Evaluate(a, later).release => W!Evaluate(a, now).release
  <2>1. W!Acceptable(a, now) <=> W!Acceptable(a, later)
    BY <1>1, <1>6 DEF W!Acceptable
  <2>2. ~(a.validUntil <= later) => ~(a.validUntil <= now)
    BY <1>1, <1>6
  <2> QED BY <1>2, <1>3, <1>4, <1>5, <2>1, <2>2
<1> QED BY <1>6 DEF W!NeverMilder

\* Whatever Wardveil answers, and whenever it is looked at: only a current clean
\* finding about this very file releases it, and time alone makes no finding
\* milder.
THEOREM FindingsStand == CaseSpec => []FindingStands
<1>1. AnyCase => FindingStands
  <2> SUFFICES ASSUME AnyCase, case.kind = "scan"
               PROVE  /\ \A now \in 1..(Latest + 1) : W!ReleaseNeedsCurrentClean(case.answer, now)
                      /\ W!NeverMilder(case.answer, Latest + 1)
    BY DEF FindingStands
  <2>1. case.answer \in W!AnswersUpTo(Latest)
    BY DEF AnyCase
  <2>2. Latest \in Nat /\ Latest + 1 \in Nat
    BY InputAssumption
  <2>3. \A now \in 1..(Latest + 1) : now \in Nat
    BY <2>2
  <2> QED BY <2>1, <2>2, <2>3, ReleaseIsCurrent, TimeIsNotMild
<1> QED BY <1>1, CasesAreInputs, PTL

----------------------------------------------------------------------------
(* The signature of a package.                                             *)

\* A signature is of one set of files.
LEMMA SignatureBindsFiles ==
  ASSUME NEW files, NEW others,
         \A f \in files \cup others : f = [path |-> f.path, contents |-> f.contents]
  PROVE  X!SignatureIsOfOnePackage(files, others)
<1> DEFINE Seal(s) == {f \in s : f.path \in {X!KeyPath, X!SignaturePath}}
           At_(s, p) == {f \in s : f.path = p}
           Chosen(s, p) == (CHOOSE f \in At_(s, p) : TRUE).contents
<1> SUFFICES ASSUME X!Verified(files) = "signed", X!Verified(others) = "signed",
                    Seal(files) = Seal(others)
             PROVE  files = others
  BY Zenon DEF X!SignatureIsOfOnePackage
<1>1. ASSUME NEW s, X!Verified(s) = "signed"
      PROVE  /\ \A f \in s : X!InNamespace(f.path) => f \in Seal(s)
             /\ Chosen(s, X!SignaturePath) =
                  [name |-> Chosen(s, X!KeyPath).name, signs |-> X!Covered(s)]
  BY <1>1 DEF X!Verified
<1>2. \A p \in {X!KeyPath, X!SignaturePath} : At_(files, p) = At_(others, p)
  <2>1. \A s : \A p \in {X!KeyPath, X!SignaturePath} : At_(s, p) = {f \in Seal(s) : f.path = p}
    OBVIOUS
  <2> HIDE DEF Seal, At_
  <2> QED BY <2>1
<1>3. \A p \in {X!KeyPath, X!SignaturePath} : Chosen(files, p) = Chosen(others, p)
  <2> HIDE DEF At_
  <2> QED BY <1>2
<1>4. X!Covered(files) = X!Covered(others)
  <2> HIDE DEF Chosen
  <2>1. [name |-> Chosen(files, X!KeyPath).name, signs |-> X!Covered(files)]
        = [name |-> Chosen(others, X!KeyPath).name, signs |-> X!Covered(others)]
    BY <1>1, <1>3
  <2> QED BY <2>1
<1>5. ASSUME NEW s, NEW r, X!Covered(s) = X!Covered(r), Seal(s) = Seal(r),
             \A f \in s \cup r : f = [path |-> f.path, contents |-> f.contents],
             \A f \in s : X!InNamespace(f.path) => f \in Seal(s)
      PROVE  s \subseteq r
  <2> SUFFICES ASSUME NEW f \in s PROVE f \in r
    OBVIOUS
  <2>1. CASE X!InNamespace(f.path)
    BY <1>5, <2>1
  <2>2. CASE ~X!InNamespace(f.path)
    <3>1. <<f.path, f.contents>> \in X!Covered(r)
      BY <1>5, <2>2 DEF X!Covered
    <3>2. PICK g \in r : <<g.path, g.contents>> = <<f.path, f.contents>>
      BY <3>1 DEF X!Covered
    <3> QED BY <1>5, <3>2
  <2> QED BY <2>1, <2>2
<1> HIDE DEF Seal, Chosen
<1> QED BY <1>1, <1>4, <1>5

\* No two packages bear the same key and signature: with any other file,
\* contents or name, also with a file moved into the namespace of the signatures
\* or out of it, a package that is signed no longer is.
THEOREM SignaturesAreOfOnePackage == CaseSpec => []SignatureIsOfOnePackage
<1>1. AnyCase => SignatureIsOfOnePackage
  <2> SUFFICES ASSUME AnyCase, case.kind = "signature", NEW p \in Payloads
               PROVE  X!SignatureIsOfOnePackage(case.payload \cup case.seal, p \cup case.seal)
    BY DEF SignatureIsOfOnePackage
  <2>1. case.payload \in Payloads /\ case.seal \in Seals
    BY DEF AnyCase
  <2>2. \A f \in (case.payload \cup case.seal) \cup (p \cup case.seal) :
          f = [path |-> f.path, contents |-> f.contents]
    BY <2>1, InputAssumption, Zenon
  <2> QED BY <2>2, SignatureBindsFiles, Zenon
<1> QED BY <1>1, CasesAreInputs, PTL

----------------------------------------------------------------------------
(* Media actions.                                                          *)

\* What a request asks for and was granted, from the click and the answers.
LEMMA AskedFacts ==
  ASSUME NEW action \in M!MediaActionNames, NEW a \in M!Answers
  PROVE  LET r == M!Asked(action, a)
         IN  /\ r.action \in {action, "more"}
             /\ r.action \in M!SearchActions => r.hosted /\ a.privacy
             /\ r.persistence => a.persistence
<1>1. a.privacy \in BOOLEAN /\ a.persistence \in BOOLEAN
  BY DEF M!Answers
<1>2. "more" \notin M!SearchActions
  BY DEF M!SearchActions
<1>3. /\ M!GivenUp.action = "more" /\ M!GivenUp.persistence = FALSE
      /\ [M!GivenUp EXCEPT !.action = action].action = action
      /\ [M!GivenUp EXCEPT !.action = action].persistence = FALSE
  BY DEF M!GivenUp
<1> DEFINE request == [M!GivenUp EXCEPT !.action = action]
<1>4. request \in [action : {action}, hosted : {FALSE}, privacy : {FALSE}, destination : {"none"},
                   persistence : {FALSE}]
  BY DEF M!GivenUp
<1> HIDE DEF request
<1>5. /\ [request EXCEPT !.hosted = TRUE, !.privacy = TRUE].action = action
      /\ [request EXCEPT !.hosted = TRUE, !.privacy = TRUE].hosted = TRUE
      /\ [request EXCEPT !.hosted = TRUE, !.privacy = TRUE].persistence = FALSE
      /\ [request EXCEPT !.destination = a.destination].action = action
      /\ [request EXCEPT !.destination = a.destination].persistence = FALSE
      /\ [request EXCEPT !.destination = a.destination, !.persistence = TRUE].action = action
      /\ [request EXCEPT !.persistence = TRUE].action = action
  BY <1>4
<1>6. \/ M!Asked(action, a) = M!GivenUp
      \/ /\ action \in M!SearchActions /\ a.privacy
         /\ M!Asked(action, a) = [request EXCEPT !.hosted = TRUE, !.privacy = TRUE]
      \/ /\ action \notin M!SearchActions
         /\ \/ M!Asked(action, a) = [request EXCEPT !.destination = a.destination]
            \/ a.persistence /\
               M!Asked(action, a) = [request EXCEPT !.destination = a.destination, !.persistence = TRUE]
            \/ a.persistence /\ M!Asked(action, a) = [request EXCEPT !.persistence = TRUE]
            \/ M!Asked(action, a) = request
  BY Zenon DEF M!Asked, request
<1>7. request.action = action /\ request.persistence = FALSE
  BY <1>4
<1> QED BY <1>1, <1>2, <1>3, <1>5, <1>6, <1>7

\* What an effect says of its request.
LEMMA EffectFacts ==
  ASSUME NEW request, NEW t, NEW policy
  PROVE  LET effect == M!Effect(request, t, policy)
         IN  /\ effect # "none" => ~M!Denied(request, t, policy)
             /\ effect = "search" => request.action \in M!SearchActions
             /\ effect = "store" => request.persistence
             /\ effect = "enqueue" => ~t.protected
             /\ request.action = "more" => effect = "none"
<1> DEFINE effect == M!Effect(request, t, policy)
<1>1. M!Denied(request, t, policy) => effect = "none"
  BY DEF M!Effect
<1>2. effect = "search" => request.action \in M!SearchActions
  BY DEF M!Effect, M!Saved, M!Serviced, M!Copied, M!Opened
<1>3. effect = "store" =>
        \/ M!Synchronized(request)
        \/ request.action \in M!ServiceActions
  BY DEF M!Effect, M!Saved, M!Serviced, M!Copied, M!Opened
<1>4. effect = "enqueue" => ~t.protected
  BY DEF M!Effect, M!Saved, M!Serviced, M!Copied, M!Opened
<1>5. ASSUME request.action = "more" PROVE effect = "none"
  <2>1. "more" \notin M!SearchActions /\ "more" \notin M!SaveActions
    BY DEF M!SearchActions, M!SaveActions
  <2>2. "more" \notin M!ServiceActions /\ "more" \notin M!CopyActions
    BY DEF M!ServiceActions, M!CopyActions
  <2>3. "more" \notin M!OpenActions /\ "more" # "preview"
    BY DEF M!OpenActions
  <2> QED BY <1>5, <2>1, <2>2, <2>3, Zenon DEF M!Effect
<1>6. effect = "store" => ~M!Denied(request, t, policy)
  BY <1>1
<1>7. effect = "store" => request.persistence
  BY <1>3, <1>6, Zenon DEF M!Denied
<1> QED BY <1>1, <1>2, <1>4, <1>5, <1>7

\* Whatever is clicked and answered, on any medium and under any policy: nothing
\* leaves the browser unasked, protected media stays, and what the site forbids
\* is not done.
LEMMA MediaFacts ==
  ASSUME NEW hit, NEW policy
  PROVE  /\ M!NothingLeavesUnasked(hit, policy)
         /\ M!ProtectedStays(hit, policy)
         /\ M!PolicyBinds(hit, policy)
<1>1. ASSUME NEW action \in M!MediaActionNames, NEW a \in M!Answers
      PROVE  /\ M!Effect(M!Asked(action, a), M!Target(hit), policy) = "search" => a.privacy
             /\ M!Effect(M!Asked(action, a), M!Target(hit), policy) = "store" => a.persistence
  BY AskedFacts, EffectFacts, Zenon
<1>2. ASSUME NEW action \in M!MediaActionNames
      PROVE  M!Effect([M!GivenUp EXCEPT !.action = action, !.hosted = TRUE,
                                        !.destination = "goreecloud_drive"],
                      M!Target(hit), policy) \notin {"search", "store"}
  <2> DEFINE r0 == [M!GivenUp EXCEPT !.action = action]
             r1 == [r0 EXCEPT !.hosted = TRUE]
             r == [r1 EXCEPT !.destination = "goreecloud_drive"]
  <2>1. r0 \in [action : {action}, hosted : {FALSE}, privacy : {FALSE}, destination : {"none"},
                persistence : {FALSE}]
    BY DEF M!GivenUp
  <2> HIDE DEF r0
  <2>2. r1 \in [action : {action}, hosted : {TRUE}, privacy : {FALSE}, destination : {"none"},
                persistence : {FALSE}]
    BY <2>1
  <2> HIDE DEF r1
  <2>3. r.persistence = FALSE /\ r.destination = "goreecloud_drive"
    BY <2>2
  <2> HIDE DEF r
  <2>4. M!Denied(r, M!Target(hit), policy)
    BY <2>3 DEF M!Denied, M!Synchronized
  <2>5. M!Effect(r, M!Target(hit), policy) = "none"
    BY <2>4 DEF M!Effect
  <2> QED BY <2>5 DEF r, r1, r0
<1>3. M!NothingLeavesUnasked(hit, policy)
  BY <1>1, <1>2, Zenon DEF M!NothingLeavesUnasked
<1>4. ASSUME hit.protected \/ hit.drm, NEW action \in M!MediaActionNames, NEW a \in M!Answers
      PROVE  /\ M!Effect(M!Asked(action, a), M!Target(hit), policy) # "enqueue"
             /\ M!Effect(M!Asked(action, a), M!Target(hit), policy) # "none"
                  => action \notin M!Extraction
  <2>1. M!Target(hit).protected
    BY <1>4, Zenon DEF M!Target
  <2> DEFINE r == M!Asked(action, a)
  <2>2. r.action \in {action, "more"}
    BY AskedFacts, Zenon
  <2>3. r.action \in M!Extraction => M!Denied(r, M!Target(hit), policy)
    BY <2>1, Zenon DEF M!Denied
  <2> QED BY <2>1, <2>2, <2>3, EffectFacts, Zenon
<1>5. M!ProtectedStays(hit, policy)
  BY <1>4, Zenon DEF M!ProtectedStays
<1>6. ASSUME NEW action \in M!MediaActionNames, NEW a \in M!Answers,
             M!Effect(M!Asked(action, a), M!Target(hit), policy) = "search"
      PROVE  policy.visual_search /\ policy.remote
  <2> DEFINE r == M!Asked(action, a)
  <2>1. ~M!Denied(r, M!Target(hit), policy)
    <3>1. "search" # "none"
      OBVIOUS
    <3> QED BY <1>6, <3>1, EffectFacts, Zenon
  <2>2. r.action \in M!SearchActions
    BY <1>6, EffectFacts, Zenon
  <2>3. r.hosted
    BY <2>2, AskedFacts, Zenon
  <2>4. M!Decide(r.action, r.hosted, policy)
    BY <2>1, <2>2, Zenon DEF M!Denied, M!RemoteProcessing
  <2> QED BY <2>2, <2>3, <2>4, Zenon DEF M!Decide
<1>7. M!Clickable(M!Target(hit), policy) \subseteq M!MediaActionNames
  <2>1. M!ActionsFor(M!Target(hit), policy) \subseteq M!MediaActionNames
    BY DEF M!ActionsFor, M!Given, M!MediaActionNames, M!SearchActions, M!SaveActions, M!AiActions,
           M!OcrActions, M!ServiceActions, M!CopyActions, M!OpenActions, M!OtherActions
  <2> QED BY <2>1 DEF M!Clickable, M!Given
<1>8. M!PolicyBinds(hit, policy)
  BY <1>6, <1>7, Zenon DEF M!PolicyBinds
<1> QED BY <1>3, <1>5, <1>8

\* Whatever is clicked in the popover, over any medium and under any policy of
\* the site: nothing leaves the browser unasked, protected media is neither
\* downloaded nor its frames taken, and what the policy forbids is not done.
THEOREM MediaStaysGuarded == CaseSpec => []MediaIsGuarded
<1>1. MediaIsGuarded
  BY MediaFacts DEF MediaIsGuarded
<1> QED BY <1>1, PTL

----------------------------------------------------------------------------
(* Induction along 0..n: a property is the set of the numbers that have it.*)

\* What 0 has and each turn hands on, every number up to n has.
LEMMA InductionUpTo ==
  ASSUME NEW n \in Nat, NEW P, 0 \in P, \A i \in 1..n : i - 1 \in P => i \in P
  PROVE  \A i \in 0..n : i \in P
<1> DEFINE U == {i \in 0..n : i \notin P}
           R == {ss \in Nat \X Nat : ss[1] < ss[2]}
<1>1. IsWellFoundedOn(R, Nat)
  BY NatLessThanWellFounded DEF OpToRel
<1>2. U = {}
  <2> SUFFICES ASSUME U # {} PROVE FALSE
    OBVIOUS
  <2>1. U \subseteq Nat
    OBVIOUS
  <2>2. PICK m \in U : \A k \in U : ~(<<k, m>> \in R)
    <3> HIDE DEF R, U
    <3> QED BY <1>1, <2>1, WFMin
  <2>3. m \in 0..n /\ m \notin P /\ m # 0
    OBVIOUS
  <2>4. m \in 1..n /\ m - 1 \in 0..n /\ m - 1 < m /\ m - 1 \in Nat /\ m \in Nat
    BY <2>3
  <2>5. m - 1 \notin U
    <3>1. <<m - 1, m>> \in R
      BY <2>4
    <3> HIDE DEF R, U
    <3> QED BY <2>2, <3>1
  <2> QED BY <2>3, <2>4, <2>5
<1> QED BY <1>2

\* g are the values of a loop over n turns that begins with first, the i-th turn
\* of which takes v to F[<<i, v>>].
LoopValues(g, n, S, first, F) ==
  /\ g \in [0..n -> S]
  /\ g[0] = first
  /\ \A i \in 1..n : g[i] = F[<<i, g[i - 1]>>]

\* A loop over n turns that each take a value to a value can be run.
LEMMA LoopExists ==
  ASSUME NEW n \in Nat, NEW S, NEW first \in S, NEW F,
         \A i \in 1..n : \A v \in S : F[<<i, v>>] \in S
  PROVE  \E g : LoopValues(g, n, S, first, F)
<1> DEFINE Runs(k) == {g \in [0..k -> S] : g[0] = first /\ \A i \in 1..k : g[i] = F[<<i, g[i - 1]>>]}
           P == {k \in 0..n : Runs(k) # {}}
<1>1. 0 \in P
  <2> DEFINE g == [i \in 0..0 |-> first]
  <2>1. g \in [0..0 -> S] /\ g[0] = first
    OBVIOUS
  <2>2. \A i \in 1..0 : g[i] = F[<<i, g[i - 1]>>]
    OBVIOUS
  <2>3. g \in Runs(0)
    BY <2>1, <2>2
  <2> QED BY <2>3
<1>2. ASSUME NEW m \in 1..n, m - 1 \in P PROVE m \in P
  <2>1. PICK g \in Runs(m - 1) : TRUE
    BY <1>2
  <2>2. /\ g \in [0..(m - 1) -> S] /\ g[0] = first
        /\ \A i \in 1..(m - 1) : g[i] = F[<<i, g[i - 1]>>]
    BY <2>1
  <2>3. m \in Nat /\ m - 1 \in 0..(m - 1) /\ 0 \in 0..(m - 1) /\ m # 0 /\ m \in 0..n
    OBVIOUS
  <2> DEFINE last == F[<<m, g[m - 1]>>]
             h == [i \in 0..m |-> IF i = m THEN last ELSE g[i]]
  <2>4. last \in S
    <3>1. g[m - 1] \in S
      BY <2>2, <2>3
    <3> QED BY <3>1
  <2>5. h \in [0..m -> S] /\ h[0] = first
    <3> HIDE DEF last
    <3>1. \A i \in 0..m : i # m => i \in 0..(m - 1)
      BY <2>3
    <3> QED BY <2>2, <2>3, <2>4, <3>1
  <2>6. ASSUME NEW i \in 1..m PROVE h[i] = F[<<i, h[i - 1]>>]
    <3>1. i \in 0..m /\ i - 1 \in 0..m /\ i - 1 # m /\ (i # m => i \in 1..(m - 1))
      BY <2>3
    <3>2. h[i - 1] = g[i - 1]
      BY <3>1
    <3>3. CASE i = m
      BY <3>1, <3>2, <3>3
    <3>4. CASE i # m
      <4>1. h[i] = g[i]
        BY <3>1, <3>4
      <4> HIDE DEF h
      <4> QED BY <2>2, <3>1, <3>2, <3>4, <4>1
    <3> QED BY <3>3, <3>4
  <2>7. h \in Runs(m)
    <3> HIDE DEF h
    <3> QED BY <2>5, <2>6
  <2> QED BY <2>3, <2>7
<1>3. n \in P
  <2>1. n \in 0..n
    OBVIOUS
  <2>2. \A i \in 1..n : i - 1 \in P => i \in P
    BY <1>2
  <2> HIDE DEF P
  <2>3. \A i \in 0..n : i \in P
    BY <1>1, <2>2, InductionUpTo
  <2> QED BY <2>1, <2>3
<1>4. PICK g \in Runs(n) : TRUE
  BY <1>3
<1> QED BY <1>4 DEF LoopValues

----------------------------------------------------------------------------
(* The health of the browser.                                              *)

WellSaid(s) == s.condition = "healthy" /\ s.freshness = "current"
SureSaid(s) == s.condition \in {"healthy", "degraded"} /\ s.freshness = "current"

AnyVerdict ==
  [readiness : {"ready", "degraded", "blocked"},
   reason : {"none", "dependency", "evidence"} \X (H!Conditions \cup H!Freshnesses \cup {"none"})]

\* One turn of the loop makes the verdict as bad as what is said.
LEMMA ConsideredFacts ==
  ASSUME NEW v \in AnyVerdict, NEW s \in H!Signals
  PROVE  /\ H!Considered(v, s) \in AnyVerdict
         /\ H!Considered(v, s).readiness =
              IF v.readiness = "blocked" \/ (s.required /\ ~SureSaid(s)) THEN "blocked"
              ELSE IF v.readiness = "ready" /\ WellSaid(s) THEN "ready" ELSE "degraded"
<1>1. /\ s.condition \in {"healthy", "degraded", "unavailable", "unknown"}
      /\ s.freshness \in {"current", "stale", "unknown"} /\ s.required \in BOOLEAN
  BY DEF H!Signals, H!Conditions, H!Freshnesses
<1>2. v.readiness \in {"ready", "degraded", "blocked"}
  BY DEF AnyVerdict
<1>3. /\ H!BlockingReason(s) = <<"none", "none">> <=> SureSaid(s)
      /\ H!BlockingReason(s) \in
           {"none", "dependency", "evidence"} \X (H!Conditions \cup H!Freshnesses \cup {"none"})
  BY <1>1 DEF H!BlockingReason, SureSaid, H!Conditions, H!Freshnesses
<1>4. H!DegradingReason(s) \in
        {"none", "dependency", "evidence"} \X (H!Conditions \cup H!Freshnesses \cup {"none"})
  BY <1>1 DEF H!DegradingReason, H!Conditions, H!Freshnesses
<1>5. ~(s.required /\ ~SureSaid(s)) => (H!Degrades(s) <=> ~WellSaid(s))
  BY <1>1 DEF H!Degrades, SureSaid, WellSaid
<1> DEFINE rs == {"none", "dependency", "evidence"} \X (H!Conditions \cup H!Freshnesses \cup {"none"})
<1>6. v.reason \in rs
  BY DEF AnyVerdict
<1> HIDE DEF rs
<1>7. \A w \in {"ready", "degraded", "blocked"}, r \in rs :
        H!Verdict(w, r) \in AnyVerdict /\ H!Verdict(w, r).readiness = w
  BY DEF AnyVerdict, H!Verdict, rs
<1>8. H!BlockingReason(s) \in rs /\ H!DegradingReason(s) \in rs
  BY <1>3, <1>4 DEF rs
<1>9. CASE v.readiness = "blocked"
  BY <1>9 DEF H!Considered
<1>10. CASE v.readiness # "blocked" /\ s.required /\ ~SureSaid(s)
  <2>1. H!Considered(v, s) = H!Verdict("blocked", H!BlockingReason(s))
    BY <1>3, <1>10, Zenon DEF H!Considered
  <2> QED BY <1>7, <1>8, <1>10, <2>1
<1>11. CASE v.readiness # "blocked" /\ ~(s.required /\ ~SureSaid(s)) /\ ~WellSaid(s)
  <2>1. H!Considered(v, s) =
          H!Verdict("degraded", IF v.readiness = "degraded" THEN v.reason ELSE H!DegradingReason(s))
    BY <1>3, <1>5, <1>11, Zenon DEF H!Considered
  <2>2. (IF v.readiness = "degraded" THEN v.reason ELSE H!DegradingReason(s)) \in rs
    BY <1>6, <1>8
  <2> QED BY <1>7, <1>11, <2>1, <2>2
<1>12. CASE v.readiness # "blocked" /\ ~(s.required /\ ~SureSaid(s)) /\ WellSaid(s)
  <2>1. H!Considered(v, s) = v
    BY <1>3, <1>5, <1>12, Zenon DEF H!Considered
  <2> QED BY <1>2, <1>12, <2>1
<1> QED BY <1>9, <1>10, <1>11, <1>12

\* What the loop over the dependencies computes is defined.
LEMMA LoopRuns ==
  ASSUME NEW signals \in Seq(H!Signals)
  PROVE  \E g \in [0..Len(signals) -> AnyVerdict] :
           /\ g[0] = H!Verdict("ready", <<"none", "none">>)
           /\ \A i \in 1..Len(signals) : g[i] = H!Considered(g[i - 1], signals[i])
<1> DEFINE n == Len(signals)
           first == H!Verdict("ready", <<"none", "none">>)
           F == [t \in (1..n) \X AnyVerdict |-> H!Considered(t[2], signals[t[1]])]
<1>1. n \in Nat /\ \A i \in 1..n : signals[i] \in H!Signals
  OBVIOUS
<1>2. first \in AnyVerdict
  BY DEF AnyVerdict, H!Verdict
<1> HIDE DEF first, n
<1>3. \A i \in 1..n : \A v \in AnyVerdict : F[<<i, v>>] = H!Considered(v, signals[i])
  OBVIOUS
<1> HIDE DEF F
<1>4. \A i \in 1..n : \A v \in AnyVerdict : F[<<i, v>>] \in AnyVerdict
  BY <1>1, <1>3, ConsideredFacts, Zenon
<1>5. PICK g : LoopValues(g, n, AnyVerdict, first, F)
  BY <1>1, <1>2, <1>4, LoopExists
<1>6. /\ g \in [0..n -> AnyVerdict] /\ g[0] = first
      /\ \A i \in 1..n : g[i] = F[<<i, g[i - 1]>>]
  BY <1>5, Zenon DEF LoopValues
<1>7. ASSUME NEW i \in 1..n PROVE g[i] = H!Considered(g[i - 1], signals[i])
  <2>1. i - 1 \in 0..n
    BY <1>1
  <2>2. g[i - 1] \in AnyVerdict
    BY <1>6, <2>1
  <2> QED BY <1>3, <1>6, <2>2, Zenon
<1> QED BY <1>6, <1>7, Zenon DEF n, first

\* The loop over the dependencies, and what it knows after each.
LEMMA LoopKnowsTheWorst ==
  ASSUME NEW signals \in Seq(H!Signals)
  PROVE  H!Concluded(signals).readiness =
           IF \E k \in 1..Len(signals) : signals[k].required /\ ~SureSaid(signals[k]) THEN "blocked"
           ELSE IF \A k \in 1..Len(signals) : WellSaid(signals[k]) THEN "ready" ELSE "degraded"
<1> DEFINE n == Len(signals)
           ready == H!Verdict("ready", <<"none", "none">>)
           Def(f) == [i \in 0..Len(signals) |->
                       IF i = 0 THEN H!Verdict("ready", <<"none", "none">>)
                       ELSE H!Considered(f[i - 1], signals[i])]
           verdict == CHOOSE f : f = Def(f)
           Worst(i) == IF \E k \in 1..i : signals[k].required /\ ~SureSaid(signals[k]) THEN "blocked"
                       ELSE IF \A k \in 1..i : WellSaid(signals[k]) THEN "ready" ELSE "degraded"
           P == {i \in 0..n : verdict[i] \in AnyVerdict /\ verdict[i].readiness = Worst(i)}
<1>1. n \in Nat /\ \A i \in 1..n : signals[i] \in H!Signals
  OBVIOUS
<1>2. ready \in AnyVerdict /\ ready.readiness = "ready"
  BY DEF AnyVerdict, H!Verdict
<1>4. PICK g \in [0..n -> AnyVerdict] :
        g[0] = ready /\ \A i \in 1..n : g[i] = H!Considered(g[i - 1], signals[i])
  BY LoopRuns
<1>5. ASSUME NEW i \in 0..n
      PROVE  g[i] = IF i = 0 THEN ready ELSE H!Considered(g[i - 1], signals[i])
  <2>1. CASE i = 0
    BY <1>4, <2>1
  <2>2. CASE i # 0
    <3>1. i \in 1..n /\ i - 1 \in 0..n
      BY <1>1, <2>2
    <3> QED BY <1>4, <2>2, <3>1
  <2> QED BY <2>1, <2>2
<1>6. g = Def(g)
  <2> HIDE DEF ready
  <2>1. g = [i \in 0..n |-> g[i]]
    BY <1>4
  <2>2. [i \in 0..n |-> g[i]] = [i \in 0..n |-> IF i = 0 THEN ready ELSE H!Considered(g[i - 1], signals[i])]
    BY <1>5
  <2> QED BY <2>1, <2>2 DEF ready
<1>7. verdict = Def(verdict)
  <2> HIDE DEF Def
  <2> QED BY <1>6, Zenon
<1>8. H!Concluded(signals) = verdict[n]
  BY Zenon DEF H!Concluded
<1> HIDE DEF verdict
<1>9. \A i \in 0..n : verdict[i] = IF i = 0 THEN ready ELSE H!Considered(verdict[i - 1], signals[i])
  <2> HIDE DEF ready
  <2> QED BY <1>7 DEF ready
<1>10. 0 \in P
  <2>1. verdict[0] = ready /\ 0 \in 0..n
    BY <1>1, <1>9
  <2>2. Worst(0) = "ready"
    OBVIOUS
  <2> QED BY <1>2, <2>1, <2>2
<1>11. ASSUME NEW i \in 1..n, i - 1 \in P PROVE i \in P
  <2>1. i \in 0..n /\ i # 0 /\ i - 1 \in 0..n /\ signals[i] \in H!Signals
    BY <1>1
  <2>2. verdict[i] = H!Considered(verdict[i - 1], signals[i])
    BY <1>9, <2>1
  <2>3. verdict[i - 1] \in AnyVerdict /\ verdict[i - 1].readiness = Worst(i - 1)
    BY <1>11
  <2>4. \A k : k \in 1..i <=> (k \in 1..(i - 1) \/ k = i)
    BY <1>1
  <2>5. Worst(i) = IF Worst(i - 1) = "blocked" \/ (signals[i].required /\ ~SureSaid(signals[i]))
                     THEN "blocked"
                   ELSE IF Worst(i - 1) = "ready" /\ WellSaid(signals[i]) THEN "ready" ELSE "degraded"
    BY <2>4
  <2> HIDE DEF Worst
  <2>6. verdict[i] \in AnyVerdict /\ verdict[i].readiness = Worst(i)
    <3>1. /\ H!Considered(verdict[i - 1], signals[i]) \in AnyVerdict
          /\ H!Considered(verdict[i - 1], signals[i]).readiness =
               IF verdict[i - 1].readiness = "blocked"
                    \/ (signals[i].required /\ ~SureSaid(signals[i])) THEN "blocked"
               ELSE IF verdict[i - 1].readiness = "ready" /\ WellSaid(signals[i]) THEN "ready"
               ELSE "degraded"
      BY <2>1, <2>3, ConsideredFacts, Zenon
    <3> QED BY <2>2, <2>3, <2>5, <3>1, Zenon
  <2> QED BY <2>1, <2>6
<1>12. n \in P
  <2>1. n \in 0..n
    BY <1>1
  <2>2. \A i \in 1..n : i - 1 \in P => i \in P
    BY <1>11
  <2> HIDE DEF P
  <2> QED BY <1>1, <1>10, <2>1, <2>2, InductionUpTo
<1> QED BY <1>8, <1>12

\* Whatever the parts and the dependencies of the browser report, in whatever
\* order, its readiness is that of the worst of it.
THEOREM ReadinessStaysTheWorst == CaseSpec => []ReadinessIsTheWorst
<1>1. ASSUME NEW failed, NEW signals \in Seq(H!Signals)
      PROVE  H!ReadinessIsTheWorst(failed, signals)
  <2> DEFINE Twice == \E i, j \in DOMAIN signals :
                        i # j /\ signals[i].subsystem = signals[j].subsystem
  <2>1. DOMAIN signals = 1..Len(signals)
    OBVIOUS
  <2>2. H!IsInjective([i \in DOMAIN signals |-> signals[i].subsystem]) <=> ~Twice
    BY DEF H!IsInjective
  <2>3. /\ (\E s \in H!Range(signals) : s.required /\ ~SureSaid(s))
             <=> \E k \in 1..Len(signals) : signals[k].required /\ ~SureSaid(signals[k])
        /\ (\A s \in H!Range(signals) : WellSaid(s)) <=> \A k \in 1..Len(signals) : WellSaid(signals[k])
    BY <2>1 DEF H!Range
  <2>4. H!Health(failed, signals).readiness =
          IF Twice \/ failed # {} THEN "blocked" ELSE H!Concluded(signals).readiness
    <3> HIDE DEF Twice
    <3> QED BY <2>2 DEF H!Health, H!Verdict
  <2>5. H!Health(failed, signals).readiness =
          IF failed # {} \/ Twice \/ \E s \in H!Range(signals) : s.required /\ ~SureSaid(s)
            THEN "blocked"
          ELSE IF \A s \in H!Range(signals) : WellSaid(s) THEN "ready" ELSE "degraded"
    <3> HIDE DEF Twice
    <3> QED BY <2>3, <2>4, LoopKnowsTheWorst
  <2> QED BY <2>5, Zenon DEF H!ReadinessIsTheWorst, SureSaid, WellSaid
<1>2. AnyCase => ReadinessIsTheWorst
  <2> SUFFICES ASSUME AnyCase, case.kind = "health"
               PROVE  H!ReadinessIsTheWorst(case.report.failed, case.report.signals)
    BY DEF ReadinessIsTheWorst
  <2>1. case.report \in Reports
    BY DEF AnyCase
  <2>2. case.report.signals \in Seq(H!Signals)
    BY <2>1, InputAssumption, Zenon
  <2> QED BY <1>1, <2>2
<1> QED BY <1>2, CasesAreInputs, PTL

----------------------------------------------------------------------------
(* Plans                                                                   *)

\* Division of a size by a number of segments.
LEMMA Division ==
  ASSUME NEW total \in Nat, NEW n \in Nat \ {0}
  PROVE  /\ total \div n \in Nat
         /\ total % n \in 0..(n - 1)
         /\ total = n * (total \div n) + (total % n)
<1>1. n > 0
  OBVIOUS
<1>2. total \div n \in Nat
  BY <1>1
<1>3. total % n \in 0..(n - 1)
  BY <1>1
<1>4. total = n * (total \div n) + (total % n)
  BY <1>1
<1> QED BY <1>2, <1>3, <1>4

\* How many segments there are.
LEMMA SegmentsAreFew ==
  ASSUME NEW total \in Nat \ {0}, NEW lim \in Nat, NEW ranges \in BOOLEAN
  PROVE  /\ SegmentCount(total, lim, ranges) \in Nat \ {0}
         /\ SegmentCount(total, lim, ranges) <= total
         /\ SegmentCount(total, lim, ranges) <= (IF lim >= 1 THEN lim ELSE 1)
         /\ ~ranges => SegmentCount(total, lim, ranges) = 1
  BY DEF SegmentCount

\* Segments are not empty, the first begins at 0, each begins where the one
\* before it ends, and the last one ends at the last byte.
LEMMA SegmentsMeet ==
  ASSUME NEW total \in Nat \ {0}, NEW n \in Nat \ {0}, n <= total
  PROVE  /\ \A i \in 1..n : SegmentSize(total, n, i) \in Nat \ {0} /\ SegmentBegin(total, n, i) \in Nat
         /\ SegmentBegin(total, n, 1) = 0
         /\ \A i \in 2..n : SegmentBegin(total, n, i) =
                              SegmentBegin(total, n, i - 1) + SegmentSize(total, n, i - 1)
         /\ SegmentBegin(total, n, n) + SegmentSize(total, n, n) = total
<1> DEFINE q == total \div n
           r == total % n
<1>1. q \in Nat /\ r \in 0..(n - 1) /\ total = n * q + r
  BY Division
<1>2. q # 0
  <2>1. ASSUME q = 0 PROVE FALSE
    <3>1. n * q = 0
      BY <2>1
    <3> QED BY <1>1, <3>1
  <2> QED BY <2>1
<1> HIDE DEF q, r
<1>3. /\ \A i : SegmentSize(total, n, i) = q + (IF i <= r THEN 1 ELSE 0)
      /\ \A i : SegmentBegin(total, n, i) = (i - 1) * q + (IF i - 1 <= r THEN i - 1 ELSE r)
  BY DEF SegmentSize, SegmentBegin, q, r
<1>4. \A i \in 1..n : SegmentSize(total, n, i) \in Nat \ {0}
  BY <1>1, <1>2, <1>3
<1>5. \A i \in 1..n : SegmentBegin(total, n, i) \in Nat
  <2> SUFFICES ASSUME NEW i \in 1..n PROVE SegmentBegin(total, n, i) \in Nat
    OBVIOUS
  <2>1. i - 1 \in Nat
    OBVIOUS
  <2>2. (i - 1) * q \in Nat
    BY <1>1, <2>1
  <2> QED BY <1>1, <1>3, <2>1, <2>2
<1>6. SegmentBegin(total, n, 1) = 0
  <2>1. (1 - 1) * q = 0
    BY <1>1
  <2> QED BY <1>1, <1>3, <2>1
<1>7. ASSUME NEW i \in 2..n
      PROVE  SegmentBegin(total, n, i) = SegmentBegin(total, n, i - 1) + SegmentSize(total, n, i - 1)
  <2> DEFINE a == (i - 1) * q
             b == (i - 1 - 1) * q
  <2>1. i - 1 \in Nat /\ i - 1 - 1 \in Nat /\ i \in Nat
    OBVIOUS
  <2>2. a = b + q /\ a \in Nat /\ b \in Nat
    BY <1>1, <2>1
  <2>3. SegmentBegin(total, n, i) = a + (IF i - 1 <= r THEN i - 1 ELSE r)
    BY <1>3
  <2>4. SegmentBegin(total, n, i - 1) = b + (IF i - 1 - 1 <= r THEN i - 1 - 1 ELSE r)
    BY <1>3
  <2>5. SegmentSize(total, n, i - 1) = q + (IF i - 1 <= r THEN 1 ELSE 0)
    BY <1>3
  <2> HIDE DEF a, b
  <2> QED BY <1>1, <2>1, <2>2, <2>3, <2>4, <2>5
<1>8. SegmentBegin(total, n, n) + SegmentSize(total, n, n) = total
  <2> DEFINE a == (n - 1) * q
             b == n * q
  <2>1. b = a + q /\ a \in Nat /\ b \in Nat
    BY <1>1
  <2>2. SegmentBegin(total, n, n) = a + (IF n - 1 <= r THEN n - 1 ELSE r)
    BY <1>3
  <2>3. SegmentSize(total, n, n) = q + (IF n <= r THEN 1 ELSE 0)
    BY <1>3
  <2>4. total = b + r
    BY <1>1
  <2> HIDE DEF a, b
  <2> QED BY <1>1, <2>1, <2>2, <2>3, <2>4
<1> QED BY <1>4, <1>5, <1>6, <1>7, <1>8

\* The cursor of make_plan's loop stands where the closed form says.
LEMMA CursorIsBegin ==
  ASSUME NEW total \in Nat \ {0}, NEW n \in Nat \ {0}, n <= total
  PROVE  \A i \in 1..n : Cursor(total, n)[i] = SegmentBegin(total, n, i)
<1> DEFINE Def(f) == [i \in 1..n |-> IF i = 1 THEN 0 ELSE f[i - 1] + SegmentSize(total, n, i - 1)]
           f_ == CHOOSE f : f = Def(f)
           g == [i \in 1..n |-> SegmentBegin(total, n, i)]
           P == {i \in 0..n : i # 0 => f_[i] = SegmentBegin(total, n, i)}
<1>1. /\ SegmentBegin(total, n, 1) = 0
      /\ \A i \in 2..n : SegmentBegin(total, n, i) =
                           SegmentBegin(total, n, i - 1) + SegmentSize(total, n, i - 1)
  BY SegmentsMeet
<1>2. g = Def(g)
  <2>1. ASSUME NEW i \in 1..n
        PROVE  g[i] = IF i = 1 THEN 0 ELSE g[i - 1] + SegmentSize(total, n, i - 1)
    <3>1. i # 1 => i \in 2..n /\ i - 1 \in 1..n
      OBVIOUS
    <3>2. i # 1 => g[i - 1] = SegmentBegin(total, n, i - 1)
      BY <3>1
    <3> QED BY <1>1, <3>1, <3>2
  <2>2. [i \in 1..n |-> g[i]] =
        [i \in 1..n |-> IF i = 1 THEN 0 ELSE g[i - 1] + SegmentSize(total, n, i - 1)]
    <3> HIDE DEF g
    <3> QED BY <2>1
  <2>3. g = [i \in 1..n |-> g[i]]
    OBVIOUS
  <2> HIDE DEF g
  <2> QED BY <2>2, <2>3
<1>3. f_ = Def(f_)
  <2> HIDE DEF Def, g
  <2> QED BY <1>2, Zenon
<1>4. Cursor(total, n) = f_
  BY Zenon DEF Cursor
<1> HIDE DEF f_
<1>5. \A i \in 1..n : f_[i] = IF i = 1 THEN 0 ELSE f_[i - 1] + SegmentSize(total, n, i - 1)
  BY <1>3
<1>6. 0 \in P
  OBVIOUS
<1>7. ASSUME NEW i \in 1..n, i - 1 \in P PROVE i \in P
  <2>1. i \in 0..n /\ (i # 1 => i \in 2..n /\ i - 1 # 0)
    OBVIOUS
  <2>2. i # 1 => f_[i - 1] = SegmentBegin(total, n, i - 1)
    BY <1>7, <2>1
  <2>3. f_[i] = SegmentBegin(total, n, i)
    BY <1>1, <1>5, <2>1, <2>2
  <2> QED BY <2>1, <2>3
<1>8. \A i \in 0..n : i \in P
  <2>1. n \in Nat /\ \A i \in 1..n : i - 1 \in P => i \in P
    BY <1>7
  <2> HIDE DEF P
  <2> QED BY <1>6, <2>1, InductionUpTo
<1> QED BY <1>4, <1>8

\* A plan cut from a resource, with some progress.
AnySegment ==
  [begin : Nat, size : Nat \ {0}, credit : Nat, retries : Nat, finished : BOOLEAN]

Cut(p, total, lim, ranges) ==
  LET n == SegmentCount(total, lim, ranges)
  IN  /\ p \in [1..n -> AnySegment]
      /\ \A i \in 1..n : /\ p[i].begin = SegmentBegin(total, n, i)
                         /\ p[i].size = SegmentSize(total, n, i)
                         /\ p[i].credit <= p[i].size

\* A checkpoint of some plan, with its progress.
Credible(c) ==
  /\ c.source = "url"
  /\ \A i \in 1..Len(c.plan) :
       /\ c.plan[i].credit \in Nat /\ c.plan[i].retries \in Nat /\ c.plan[i].finished \in BOOLEAN
       /\ c.plan[i].credit <= c.plan[i].size

AdmissionInv ==
  /\ resource.total \in Nat \ {0} /\ resource.ranges \in BOOLEAN
  /\ limit \in Nat
  /\ Cut(plan, resource.total, limit, resource.ranges)
  /\ Credible(saved)

\* A fresh plan is cut, has no progress, and is credible as a checkpoint.
LEMMA FreshIsCut ==
  ASSUME NEW total \in Nat \ {0}, NEW lim \in Nat, NEW ranges \in BOOLEAN
  PROVE  /\ Cut(MakePlan(total, lim, ranges), total, lim, ranges)
         /\ Len(MakePlan(total, lim, ranges)) = SegmentCount(total, lim, ranges)
         /\ \A i \in 1..SegmentCount(total, lim, ranges) : MakePlan(total, lim, ranges)[i].credit = 0
<1> DEFINE n == SegmentCount(total, lim, ranges)
           p == MakePlan(total, lim, ranges)
           seg(i) == [begin |-> SegmentBegin(total, n, i), size |-> SegmentSize(total, n, i),
                      credit |-> 0, retries |-> 0, finished |-> FALSE]
<1>1. n \in Nat \ {0} /\ n <= total
  BY SegmentsAreFew
<1>2. p = [i \in 1..n |-> seg(i)]
  BY DEF MakePlan
<1> HIDE DEF n, p
<1>3. ASSUME NEW i \in 1..n
      PROVE  /\ SegmentSize(total, n, i) \in Nat \ {0} /\ SegmentBegin(total, n, i) \in Nat
             /\ 0 <= SegmentSize(total, n, i)
  <2>1. SegmentSize(total, n, i) \in Nat \ {0} /\ SegmentBegin(total, n, i) \in Nat
    BY <1>1, SegmentsMeet
  <2> QED BY <2>1
<1>4. \A i \in 1..n : seg(i) \in AnySegment
  BY <1>3 DEF AnySegment
<1>5. p \in [1..n -> AnySegment]
  BY <1>2, <1>4
<1>6. \A i \in 1..n : /\ p[i].begin = SegmentBegin(total, n, i)
                      /\ p[i].size = SegmentSize(total, n, i)
                      /\ p[i].credit = 0 /\ p[i].credit <= p[i].size
  BY <1>2, <1>3
<1>7. Len(p) = n
  BY <1>1, <1>2
<1> QED BY <1>5, <1>6, <1>7 DEF Cut, n, p

\* A checkpoint of a plan that is cut right is one that can be resumed.
LEMMA CutIsCredible ==
  ASSUME NEW p, NEW total \in Nat \ {0}, NEW lim \in Nat, NEW ranges \in BOOLEAN, NEW etag,
         Cut(p, total, lim, ranges)
  PROVE  Credible(MakeCheckpoint("url", etag, p))
<1> DEFINE n == SegmentCount(total, lim, ranges)
<1>1. n \in Nat
  BY SegmentsAreFew
<1>2. p \in [1..n -> AnySegment] /\ \A i \in 1..n : p[i].credit <= p[i].size
  BY DEF Cut
<1> HIDE DEF n
<1>3. Len(p) = n /\ \A i \in 1..n : p[i] \in AnySegment
  BY <1>1, <1>2
<1>4. \A s \in AnySegment : s.credit \in Nat /\ s.retries \in Nat /\ s.finished \in BOOLEAN
  BY DEF AnySegment
<1>5. MakeCheckpoint("url", etag, p).source = "url" /\ MakeCheckpoint("url", etag, p).plan = p
  BY DEF MakeCheckpoint
<1> QED BY <1>2, <1>3, <1>4, <1>5 DEF Credible

\* A plan that goes on from a checkpoint is cut as the fresh one; it has the
\* progress of the checkpoint if that has the same version and ranges, and none
\* otherwise.
LEMMA ResumedIsCut ==
  ASSUME NEW total \in Nat \ {0}, NEW lim \in Nat, NEW ranges \in BOOLEAN, NEW etag,
         NEW c, Credible(c)
  PROVE  LET n == SegmentCount(total, lim, ranges)
             p == ApplyCheckpoint(MakePlan(total, lim, ranges), "url", etag, c)
         IN  /\ Cut(p, total, lim, ranges)
             /\ Len(p) = n
             /\ IF c.etag = etag /\ SameRanges(p, c.plan)
                  THEN \A i \in 1..n : p[i].credit = c.plan[i].credit
                  ELSE \A i \in 1..n : p[i].credit = 0
<1> DEFINE n == SegmentCount(total, lim, ranges)
           fresh == MakePlan(total, lim, ranges)
           p == ApplyCheckpoint(fresh, "url", etag, c)
           Same == c.etag = etag /\ SameRanges(fresh, c.plan)
<1>1. n \in Nat \ {0}
  BY SegmentsAreFew
<1>2. Cut(fresh, total, lim, ranges) /\ Len(fresh) = n /\ \A i \in 1..n : fresh[i].credit = 0
  BY FreshIsCut
<1>3. /\ fresh \in [1..n -> AnySegment]
      /\ \A i \in 1..n : /\ fresh[i].begin = SegmentBegin(total, n, i)
                         /\ fresh[i].size = SegmentSize(total, n, i)
                         /\ fresh[i].credit <= fresh[i].size
  BY <1>2 DEF Cut
<1>4. /\ c.source = "url"
      /\ \A i \in 1..Len(c.plan) :
           /\ c.plan[i].credit \in Nat /\ c.plan[i].retries \in Nat /\ c.plan[i].finished \in BOOLEAN
           /\ c.plan[i].credit <= c.plan[i].size
  BY DEF Credible
<1> HIDE DEF n, fresh
<1>5. CASE Same
  <2>1. /\ n = Len(c.plan)
        /\ \A i \in 1..n : c.plan[i].begin = fresh[i].begin /\ c.plan[i].size = fresh[i].size
    BY <1>2, <1>5 DEF SameRanges
  <2>2. p = [i \in 1..n |-> Restored(fresh[i], c.plan[i])]
    <3>1. \A i \in 1..n : c.plan[i].credit <= fresh[i].size
      BY <1>4, <2>1
    <3> QED BY <1>2, <1>4, <1>5, <3>1 DEF ApplyCheckpoint
  <2> HIDE DEF p
  <2>3. ASSUME NEW i \in 1..n
        PROVE  /\ p[i] \in AnySegment
               /\ p[i].begin = fresh[i].begin /\ p[i].size = fresh[i].size
               /\ p[i].credit = c.plan[i].credit /\ p[i].credit <= p[i].size
    <3>1. fresh[i] \in AnySegment /\ i \in 1..Len(c.plan)
      BY <1>3, <2>1
    <3>2. fresh[i].begin \in Nat /\ fresh[i].size \in Nat \ {0}
      BY <3>1 DEF AnySegment
    <3>3. p[i] = Restored(fresh[i], c.plan[i])
      BY <2>2
    <3>4. /\ c.plan[i].credit \in Nat /\ c.plan[i].retries \in Nat /\ c.plan[i].finished \in BOOLEAN
          /\ c.plan[i].credit <= fresh[i].size
      BY <1>4, <2>1, <3>1
    <3>5. (c.plan[i].finished \/ c.plan[i].credit = fresh[i].size) \in BOOLEAN
      BY <3>4
    <3>6. /\ p[i].begin = fresh[i].begin /\ p[i].size = fresh[i].size
          /\ p[i].credit = c.plan[i].credit
      BY <3>3 DEF Restored
    <3>7. p[i] \in AnySegment
      BY <3>2, <3>3, <3>4, <3>5 DEF Restored, AnySegment
    <3> QED BY <3>4, <3>6, <3>7
  <2>4. p \in [1..n -> AnySegment] /\ Len(p) = n
    BY <1>1, <2>2, <2>3
  <2>5. Cut(p, total, lim, ranges)
    BY <1>3, <2>3, <2>4 DEF Cut, n
  <2>6. c.etag = etag /\ SameRanges(p, c.plan)
    BY <1>5, <2>1, <2>3, <2>4 DEF SameRanges
  <2> QED BY <2>3, <2>4, <2>5, <2>6 DEF p, n, fresh
<1>6. CASE ~Same
  <2>1. p = fresh
    BY <1>6 DEF ApplyCheckpoint
  <2> HIDE DEF p
  <2>2. ~(c.etag = etag /\ SameRanges(p, c.plan))
    BY <1>6, <2>1
  <2> QED BY <1>2, <2>1, <2>2 DEF p, n, fresh
<1> QED BY <1>5, <1>6

\* Every case begins with a plan that is cut right.
LEMMA AdmissionInit == CaseInit => AdmissionInv
<1>1. ASSUME Init PROVE AdmissionInv
  <2>1. resource.total \in Nat \ {0} /\ resource.ranges \in BOOLEAN /\ limit \in Nat
    <3>1. resource \in Resources /\ limit \in 0..MaxLimit /\ MaxTotal \in Nat /\ MaxLimit \in Nat
      BY <1>1, AdmissionAssumption DEF Init
    <3> QED BY <3>1 DEF Resources
  <2>2. Cut(plan, resource.total, limit, resource.ranges)
    BY <1>1, <2>1, FreshIsCut DEF Init
  <2>3. Credible(saved)
    BY <1>1, <2>1, <2>2, CutIsCredible DEF Init
  <2> QED BY <2>1, <2>2, <2>3 DEF AdmissionInv
<1>2. ASSUME StillPlan PROVE AdmissionInv
  <2>1. resource.total = 1 /\ resource.ranges = FALSE /\ limit = 0
    BY <1>2 DEF StillPlan
  <2>2. resource.total \in Nat \ {0} /\ resource.ranges \in BOOLEAN /\ limit \in Nat
    <3>1. FALSE \in BOOLEAN /\ 1 \in Nat \ {0} /\ 0 \in Nat
      OBVIOUS
    <3> QED BY <2>1, <3>1, Zenon
  <2>3. plan = MakePlan(resource.total, limit, resource.ranges)
    BY <1>2, <2>1 DEF StillPlan
  <2>4. Cut(plan, resource.total, limit, resource.ranges)
    BY <2>2, <2>3, FreshIsCut
  <2>5. Credible(saved)
    BY <1>2, <2>2, <2>4, CutIsCredible DEF StillPlan
  <2> QED BY <2>2, <2>4, <2>5 DEF AdmissionInv
<1> QED BY <1>1, <1>2 DEF CaseInit

\* Legal progress keeps the ranges.
LEMMA ProgressKeeps == AdmissionInv /\ Progress => AdmissionInv'
<1> SUFFICES ASSUME AdmissionInv, Progress PROVE AdmissionInv'
  OBVIOUS
<1> DEFINE n == SegmentCount(resource.total, limit, resource.ranges)
<1>1. /\ resource.total \in Nat \ {0} /\ resource.ranges \in BOOLEAN /\ limit \in Nat
      /\ resource' = resource /\ limit' = limit
  BY DEF AdmissionInv, Progress
<1>2. n \in Nat \ {0}
  BY <1>1, SegmentsAreFew
<1>3. /\ plan \in [1..n -> AnySegment]
      /\ \A k \in 1..n : /\ plan[k].begin = SegmentBegin(resource.total, n, k)
                         /\ plan[k].size = SegmentSize(resource.total, n, k)
                         /\ plan[k].credit <= plan[k].size
  BY DEF AdmissionInv, Cut
<1> HIDE DEF n
<1>4. PICK i \in 1..Len(plan) : \E c \in (plan[i].credit + 1)..plan[i].size :
        plan' = [plan EXCEPT ![i].credit = c, ![i].finished = c = plan[i].size]
  BY DEF Progress
<1>5. PICK c \in (plan[i].credit + 1)..plan[i].size :
      plan' = [plan EXCEPT ![i].credit = c, ![i].finished = c = plan[i].size]
  BY <1>4
<1>6. i \in 1..n /\ plan[i] \in AnySegment
  <2>1. Len(plan) = n
    BY <1>2, <1>3
  <2> QED BY <1>3, <1>4, <2>1
<1>7. /\ plan[i].begin \in Nat /\ plan[i].size \in Nat \ {0} /\ plan[i].credit \in Nat
      /\ plan[i].retries \in Nat
  BY <1>6 DEF AnySegment
<1>8. c \in Nat /\ c <= plan[i].size
  BY <1>5, <1>7
<1> DEFINE seg == [begin |-> plan[i].begin, size |-> plan[i].size, credit |-> c,
                   retries |-> plan[i].retries, finished |-> c = plan[i].size]
           old == plan[i]
<1>9. plan' = [plan EXCEPT ![i] = seg]
  <2>1. old = [begin |-> old.begin, size |-> old.size, credit |-> old.credit,
               retries |-> old.retries, finished |-> old.finished]
    BY <1>6 DEF AnySegment
  <2> DEFINE g == [plan EXCEPT ![i].credit = c]
             s1 == [begin |-> old.begin, size |-> old.size, credit |-> c,
                    retries |-> old.retries, finished |-> old.finished]
             last == c = plan[i].size
  <2>2. g = [plan EXCEPT ![i] = s1]
    <3>1. [old EXCEPT !.credit = c] = s1
      <4> HIDE DEF old
      <4> QED BY <2>1
    <3> HIDE DEF s1
    <3> QED BY <1>3, <1>6, <3>1
  <2>3. g[i] = s1 /\ DOMAIN g = 1..n
    <3> HIDE DEF s1, g
    <3> QED BY <1>3, <1>6, <2>2
  <2>4. plan' = [g EXCEPT ![i].finished = last]
    BY <1>5
  <2>5. [s1 EXCEPT !.finished = last] = seg
    <3> HIDE DEF old, last
    <3>1. [s1 EXCEPT !.finished = last] = [begin |-> old.begin, size |-> old.size, credit |-> c,
                                           retries |-> old.retries, finished |-> last]
      OBVIOUS
    <3> QED BY <3>1 DEF old, last
  <2>6. plan' = [g EXCEPT ![i] = seg]
    <3> HIDE DEF s1, g, seg, last
    <3> QED BY <2>3, <2>4, <2>5
  <2> HIDE DEF s1, g, seg, last
  <2> QED BY <1>3, <1>6, <2>2, <2>6
<1>10. seg \in AnySegment /\ seg.begin = plan[i].begin /\ seg.size = plan[i].size /\ seg.credit <= seg.size
  BY <1>7, <1>8 DEF AnySegment
<1> HIDE DEF seg, old
<1>11. plan' \in [1..n -> AnySegment]
  BY <1>3, <1>6, <1>9, <1>10
<1>12. ASSUME NEW k \in 1..n
       PROVE  /\ plan'[k].begin = SegmentBegin(resource.total, n, k)
              /\ plan'[k].size = SegmentSize(resource.total, n, k)
              /\ plan'[k].credit <= plan'[k].size
  <2>1. CASE k = i
    BY <1>3, <1>6, <1>9, <1>10, <2>1
  <2>2. CASE k # i
    BY <1>3, <1>6, <1>9, <2>2
  <2> QED BY <2>1, <2>2
<1>13. Cut(plan', resource'.total, limit', resource'.ranges)
  BY <1>1, <1>11, <1>12 DEF Cut, n
<1>14. saved' = MakeCheckpoint("url", resource.etag, plan')
  BY DEF Progress
<1>15. Credible(saved')
  BY <1>1, <1>13, <1>14, CutIsCredible
<1> QED BY <1>1, <1>13, <1>15 DEF AdmissionInv

\* What an admission makes of the plan.
LEMMA ReadmitFacts ==
  ASSUME AdmissionInv, Readmit
  PROVE  /\ resource'.total \in Nat \ {0} /\ resource'.ranges \in BOOLEAN /\ limit' = limit
         /\ Cut(plan', resource'.total, limit, resource'.ranges)
         /\ IF saved.etag = resource'.etag /\ SameRanges(plan', saved.plan)
              THEN \A i \in 1..Len(plan') : plan'[i].credit = saved.plan[i].credit
              ELSE \A i \in 1..Len(plan') : plan'[i].credit = 0
         /\ saved' = saved
<1>1. limit \in Nat /\ Credible(saved) /\ limit' = limit /\ saved' = saved
  BY DEF AdmissionInv, Readmit
<1>2. resource'.total \in Nat \ {0} /\ resource'.ranges \in BOOLEAN
  <2>1. resource' \in Resources /\ MaxTotal \in Nat
    BY AdmissionAssumption DEF Readmit
  <2> QED BY <2>1 DEF Resources
<1>3. plan' = ApplyCheckpoint(MakePlan(resource'.total, limit, resource'.ranges),
                              "url", resource'.etag, saved)
  BY DEF Readmit
<1> QED BY <1>1, <1>2, <1>3, ResumedIsCut

\* Whatever happens to a download, its plan stays cut right.
LEMMA AdmissionStep == AdmissionInv /\ [CaseNext]_<<vars, case>> => AdmissionInv'
<1> SUFFICES ASSUME AdmissionInv, [CaseNext]_<<vars, case>> PROVE AdmissionInv'
  OBVIOUS
<1>1. CASE Progress
  BY <1>1, ProgressKeeps
<1>2. CASE Readmit
  <2>1. limit \in Nat /\ Credible(saved)
    BY DEF AdmissionInv
  <2> QED BY <1>2, <2>1, ReadmitFacts DEF AdmissionInv
<1>3. CASE UNCHANGED vars
  BY <1>3 DEF AdmissionInv, vars, Cut, Credible
<1> QED BY <1>1, <1>2, <1>3 DEF CaseNext, Next, vars

\* A plan always has the ranges of a fresh one, with credits inside them.
THEOREM AdmissionInvariant == CaseSpec => []AdmissionInv
  BY AdmissionInit, AdmissionStep, PTL DEF CaseSpec

\* However large a resource, whatever the limit and however often a download is
\* admitted again: the segments of its plan partition the resource, as the loop
\* of make_plan cuts them.
THEOREM PlansPartition == CaseSpec => []PlanPartitions
<1>1. AdmissionInv => PlanPartitions
  <2> SUFFICES ASSUME AdmissionInv PROVE PlanPartitions
    OBVIOUS
  <2> DEFINE n == SegmentCount(resource.total, limit, resource.ranges)
  <2>1. resource.total \in Nat \ {0} /\ resource.ranges \in BOOLEAN /\ limit \in Nat
    BY DEF AdmissionInv
  <2>2. /\ n \in Nat \ {0} /\ n <= resource.total
        /\ n <= (IF limit >= 1 THEN limit ELSE 1)
        /\ ~resource.ranges => n = 1
    BY <2>1, SegmentsAreFew
  <2>3. /\ plan \in [1..n -> AnySegment]
        /\ \A i \in 1..n : /\ plan[i].begin = SegmentBegin(resource.total, n, i)
                           /\ plan[i].size = SegmentSize(resource.total, n, i)
    BY DEF AdmissionInv, Cut
  <2> HIDE DEF n
  <2>4. Len(plan) = n
    BY <2>2, <2>3
  <2>5. \A i \in 1..n : SegmentSize(resource.total, n, i) >= 1
    <3>1. \A i \in 1..n : SegmentSize(resource.total, n, i) \in Nat \ {0}
      BY <2>1, <2>2, SegmentsMeet
    <3> QED BY <3>1
  <2>6. \A i \in 1..n : Cursor(resource.total, n)[i] = SegmentBegin(resource.total, n, i)
    BY <2>1, <2>2, CursorIsBegin
  <2>7. SegmentBegin(resource.total, n, n) + SegmentSize(resource.total, n, n) = resource.total
    BY <2>1, <2>2, SegmentsMeet
  <2>8. n >= 1 /\ n \in 1..n
    BY <2>2
  <2> QED BY <2>2, <2>3, <2>4, <2>5, <2>6, <2>7, <2>8 DEF PlanPartitions
<1> QED BY <1>1, AdmissionInvariant, PTL

\* Admitting a download again keeps its progress if the resource is of the same
\* version and cut the same way, and none of it otherwise.
THEOREM ResumingKeepsProgress == CaseSpec => ResumeKeepsProgress
<1> DEFINE Kept == Readmit =>
                     IF saved.etag = resource'.etag /\ SameRanges(plan', saved.plan)
                     THEN \A i \in 1..Len(plan') : plan'[i].credit = saved.plan[i].credit
                     ELSE \A i \in 1..Len(plan') : plan'[i].credit = 0
<1>1. AdmissionInv /\ [CaseNext]_<<vars, case>> => [Kept]_vars
  BY ReadmitFacts
<1> QED BY <1>1, AdmissionInvariant, PTL DEF CaseSpec, ResumeKeepsProgress

----------------------------------------------------------------------------
(* Text.                                                                   *)

\* The bytes a character may begin and go on with, and the code points there are.
Octets == 0..255
Ascii == 0..127
Follow == 128..191
Two == 194..223
Three == 224..239
Four == 240..244
Unicode(p) == p \notin 55296..57343 /\ p <= 1114111

ListedThree(a, b) ==
  \/ a = 224 /\ b \in 160..191
  \/ a \in (225..236) \cup {238, 239}
  \/ a = 237 /\ b \in 128..159

ListedFour(a, b) ==
  \/ a = 240 /\ b \in 144..191
  \/ a \in 241..243
  \/ a = 244 /\ b \in 128..143

\* What a byte behind the first one of a character adds.
LEMMA ContinuationBytes ==
  ASSUME NEW b \in Octets
  PROVE  /\ b \div 64 = 2 <=> b \in Follow
         /\ b \in Follow => b % 64 = b - 128
<1>1. b = 64 * (b \div 64) + (b % 64) /\ b \div 64 \in Int /\ b % 64 \in 0..63
  BY SMT DEF Octets
<1> QED BY <1>1, SMT DEF Octets, Follow

\* Which bytes begin a character of which width.
LEMMA Widths ==
  ASSUME NEW b \in Octets
  PROVE  /\ X!Width(b) = 1 <=> b \in Ascii
         /\ X!Width(b) = 2 <=> b \in Two
         /\ X!Width(b) = 3 <=> b \in Three
         /\ X!Width(b) = 4 <=> b \in Four
         /\ X!Width(b) \in 0..4
  BY SMT DEF X!Width, Octets, Ascii, Two, Three, Four

\* The code point of a character, byte by byte.
LEMMA CodePointIs ==
  ASSUME NEW c, NEW n \in 1..4, Len(c) = n
  PROVE  X!CodePoint(c) =
           IF n = 1 THEN c[1]
           ELSE IF n = 2 THEN (c[1] % 32) * 64 + (c[2] % 64)
           ELSE IF n = 3 THEN ((c[1] % 16) * 64 + (c[2] % 64)) * 64 + (c[3] % 64)
           ELSE (((c[1] % 8) * 64 + (c[2] % 64)) * 64 + (c[3] % 64)) * 64 + (c[4] % 64)
<1> DEFINE first == IF Len(c) = 1 THEN c[1]
                    ELSE c[1] % (IF Len(c) = 2 THEN 32 ELSE IF Len(c) = 3 THEN 16 ELSE 8)
           Def(f) == [i \in 1..Len(c) |-> IF i = 1 THEN first ELSE f[i - 1] * 64 + (c[i] % 64)]
           point == CHOOSE f : f = Def(f)
           two == first * 64 + (c[2] % 64)
           three == two * 64 + (c[3] % 64)
           four == three * 64 + (c[4] % 64)
           g == [i \in 1..n |-> IF i = 1 THEN first ELSE IF i = 2 THEN two
                                     ELSE IF i = 3 THEN three ELSE four]
<1>1. g = Def(g)
  <2> HIDE DEF first
  <2>1. ASSUME NEW i \in 1..n
        PROVE  g[i] = IF i = 1 THEN first ELSE g[i - 1] * 64 + (c[i] % 64)
    <3>1. i \in 1..4 /\ (i # 1 => i - 1 \in 1..n)
      OBVIOUS
    <3> QED BY <3>1
  <2>2. [i \in 1..n |-> g[i]] = Def(g)
    <3> HIDE DEF g
    <3> QED BY <2>1
  <2>3. g = [i \in 1..n |-> g[i]]
    OBVIOUS
  <2> HIDE DEF g, Def
  <2> QED BY <2>2, <2>3
<1>2. point = Def(point)
  <2> HIDE DEF Def, g
  <2> QED BY <1>1, Zenon
<1>3. X!CodePoint(c) = point[n]
  <2>1. X!CodePoint(c) = point[Len(c)]
    BY Zenon DEF X!CodePoint
  <2> HIDE DEF point
  <2> QED BY <2>1
<1> HIDE DEF point
<1>4. \A i \in 1..n : point[i] = IF i = 1 THEN first ELSE point[i - 1] * 64 + (c[i] % 64)
  <2> HIDE DEF first
  <2> QED BY <1>2
<1>5. point[1] = first
  <2> HIDE DEF first
  <2>1. 1 \in 1..n
    OBVIOUS
  <2> QED BY <1>4, <2>1
<1>6. n >= 2 => point[2] = two
  <2> HIDE DEF first
  <2> QED BY <1>4, <1>5
<1>7. n >= 3 => point[3] = three
  <2> HIDE DEF first
  <2>1. n >= 3 => point[3] = point[2] * 64 + (c[3] % 64)
    BY <1>4
  <2> QED BY <1>6, <2>1
<1>8. n >= 4 => point[4] = four
  <2> HIDE DEF first
  <2>1. n >= 4 => point[4] = point[3] * 64 + (c[4] % 64)
    BY <1>4
  <2> QED BY <1>7, <2>1
<1>9. CASE n = 1
  BY <1>3, <1>5, <1>9
<1>10. CASE n = 2
  BY <1>3, <1>6, <1>10
<1>11. CASE n = 3
  BY <1>3, <1>7, <1>11
<1>12. CASE n = 4
  BY <1>3, <1>8, <1>12
<1> QED BY <1>9, <1>10, <1>11, <1>12

\* The code points of characters of two, three and four bytes.
LEMMA OfTwoBytes ==
  ASSUME NEW a \in Two, NEW b \in Follow
  PROVE  Unicode((a % 32) * 64 + (b % 64))
<1>1. a % 32 \in 0..31
  BY SMT DEF Two
<1>2. b % 64 \in 0..63
  BY SMT DEF Follow
<1> DEFINE p == (a % 32) * 64 + (b % 64)
<1>3. p \in Nat /\ p <= 2047
  BY <1>1, <1>2, SMT
<1> HIDE DEF p
<1>4. Unicode(p)
  BY <1>3, SMT DEF Unicode
<1> QED BY <1>4, Zenon DEF p

\* Of those of three bytes, the ones that could be shorter and the surrogates
\* are not listed.
LEMMA OfThreeBytes ==
  ASSUME NEW a \in Three, NEW b \in Follow, NEW c \in Follow
  PROVE  LET p == ((a % 16) * 64 + (b % 64)) * 64 + (c % 64)
         IN  Unicode(p) /\ p >= 2048 <=> ListedThree(a, b)
<1> DEFINE p == ((a % 16) * 64 + (b % 64)) * 64 + (c % 64)
<1>1. a % 16 = a - 224
  <2>1. a = 16 * (a \div 16) + (a % 16) /\ a \div 16 \in Int /\ a % 16 \in 0..15
    BY SMT DEF Three
  <2> QED BY <2>1, SMT DEF Three
<1>2. b % 64 = b - 128 /\ c % 64 = c - 128
  BY ContinuationBytes, SMT DEF Follow, Octets
<1>3. p = (a - 224) * 4096 + (b - 128) * 64 + (c - 128)
  BY <1>1, <1>2, SMT DEF Three, Follow
<1> HIDE DEF p
<1>4. PICK x \in Nat : x = b - 128 /\ x <= 63
  BY SMT DEF Follow
<1>5. PICK y \in Nat : y = c - 128 /\ y <= 63
  BY SMT DEF Follow
<1>6. p = (a - 224) * 4096 + x * 64 + y /\ x <= 63 /\ y <= 63
  BY <1>3, <1>4, <1>5, SMT DEF Three
<1>7. Unicode(p) /\ p >= 2048 <=> ListedThree(a, b)
  <2>1. b = 128 + x /\ x <= 63
    BY <1>4, SMT DEF Follow
  <2>2. CASE a = 224
    <3>1. p \in Nat /\ p <= 4095
      BY <1>6, <2>2, SMT
    <3>2. p >= 2048 <=> x >= 32
      BY <1>6, <2>2, SMT
    <3>3. Unicode(p)
      BY <3>1, SMT DEF Unicode
    <3>4. ListedThree(a, b) <=> x >= 32
      BY <2>1, <2>2, SMT DEF ListedThree
    <3> QED BY <3>2, <3>3, <3>4, SMT
  <2>3. CASE a \in 225..236
    <3>1. p \in Nat /\ p >= 4096 /\ p <= 53247
      BY <1>6, <2>3, SMT
    <3>2. Unicode(p) /\ p >= 2048
      BY <3>1, SMT DEF Unicode
    <3> QED BY <2>3, <3>2, SMT DEF ListedThree
  <2>4. CASE a = 237
    <3>1. p \in Nat /\ p <= 57343 /\ p >= 53248
      BY <1>6, <2>4, SMT
    <3>2. p < 55296 <=> x < 32
      BY <1>6, <2>4, SMT
    <3>3. Unicode(p) <=> x < 32
      BY <3>1, <3>2, SMT DEF Unicode
    <3>4. ListedThree(a, b) <=> x < 32
      BY <2>1, <2>4, SMT DEF ListedThree
    <3> QED BY <3>1, <3>3, <3>4, SMT
  <2>5. CASE a \in 238..239
    <3>1. p \in Nat /\ p >= 57344 /\ p <= 65535
      BY <1>6, <2>5, SMT
    <3>2. Unicode(p) /\ p >= 2048
      BY <3>1, SMT DEF Unicode
    <3> QED BY <2>5, <3>2, SMT DEF ListedThree
  <2>6. a = 224 \/ a \in 225..236 \/ a = 237 \/ a \in 238..239
    BY SMT DEF Three
  <2> QED BY <2>2, <2>3, <2>4, <2>5, <2>6
<1> QED BY <1>7, SMT DEF p

\* Of those of four bytes, the ones that could be shorter and those beyond the
\* last code point are not listed.
LEMMA OfFourBytes ==
  ASSUME NEW a \in Four, NEW b \in Follow, NEW c \in Follow, NEW d \in Follow
  PROVE  LET p == (((a % 8) * 64 + (b % 64)) * 64 + (c % 64)) * 64 + (d % 64)
         IN  Unicode(p) /\ p >= 65536 <=> ListedFour(a, b)
<1> DEFINE p == (((a % 8) * 64 + (b % 64)) * 64 + (c % 64)) * 64 + (d % 64)
<1>1. a % 8 = a - 240
  <2>1. a = 8 * (a \div 8) + (a % 8) /\ a \div 8 \in Int /\ a % 8 \in 0..7
    BY SMT DEF Four
  <2> QED BY <2>1, SMT DEF Four
<1>2. b % 64 = b - 128 /\ c % 64 = c - 128 /\ d % 64 = d - 128
  BY ContinuationBytes, SMT DEF Follow, Octets
<1>3. p = (a - 240) * 262144 + (b - 128) * 4096 + (c - 128) * 64 + (d - 128)
  BY <1>1, <1>2, SMT DEF Four, Follow
<1> HIDE DEF p
<1>4. PICK x \in Nat : x = b - 128 /\ x <= 63
  BY SMT DEF Follow
<1>5. PICK y \in Nat : y = (c - 128) * 64 + (d - 128) /\ y <= 4095
  BY SMT DEF Follow
<1>6. p = (a - 240) * 262144 + x * 4096 + y /\ x <= 63 /\ y <= 4095
  BY <1>3, <1>4, <1>5, SMT DEF Follow, Four
<1>7. Unicode(p) /\ p >= 65536 <=> ListedFour(a, b)
  <2>1. b = 128 + x /\ x <= 63
    BY <1>4, SMT DEF Follow
  <2>2. CASE a = 240
    <3>1. p \in Nat /\ p <= 262143
      BY <1>6, <2>2, SMT
    <3>2. p >= 65536 <=> x >= 16
      BY <1>6, <2>2, SMT
    <3>3. p >= 65536 => Unicode(p)
      BY <3>1, SMT DEF Unicode
    <3>4. ListedFour(a, b) <=> x >= 16
      BY <2>1, <2>2, SMT DEF ListedFour
    <3> QED BY <3>2, <3>3, <3>4, SMT
  <2>3. CASE a \in 241..243
    <3>1. p \in Nat /\ p >= 262144 /\ p <= 1048575
      BY <1>6, <2>3, SMT
    <3>2. Unicode(p) /\ p >= 65536
      BY <3>1, SMT DEF Unicode
    <3> QED BY <2>3, <3>2, SMT DEF ListedFour
  <2>4. CASE a = 244
    <3>1. p \in Nat /\ p >= 1048576
      BY <1>6, <2>4, SMT
    <3>2. p <= 1114111 <=> x < 16
      BY <1>6, <2>4, SMT
    <3>3. Unicode(p) <=> x < 16
      BY <3>1, <3>2, SMT DEF Unicode
    <3>4. ListedFour(a, b) <=> x < 16
      BY <2>1, <2>4, SMT DEF ListedFour
    <3> QED BY <3>1, <3>3, <3>4, SMT
  <2>5. a = 240 \/ a \in 241..243 \/ a = 244
    BY SMT DEF Four
  <2> QED BY <2>2, <2>3, <2>4, <2>5
<1> QED BY <1>7, SMT DEF p

\* One character is of UTF-8 exactly if RFC 3629 lists it.
LEMMA CharacterIsRfc ==
  ASSUME NEW c, NEW n \in 1..4, Len(c) = n, \A i \in 1..n : c[i] \in Octets
  PROVE  (X!Width(c[1]) = n /\ X!Character(c)) <=> X!RfcCharacter(c)
<1> DEFINE p == X!CodePoint(c)
<1>1. \A i \in 2..n : c[i] \div 64 = 2 <=> c[i] \in Follow
  <2>1. \A i \in 2..n : i \in 1..n
    OBVIOUS
  <2> QED BY <2>1, ContinuationBytes, Zenon
<1>2. X!Character(c) <=> /\ \A i \in 2..n : c[i] \in Follow
                         /\ n = 3 => p >= 2048
                         /\ n = 4 => p >= 65536
                         /\ Unicode(p)
  <2>1. X!Character(c) <=> /\ \A i \in 2..Len(c) : c[i] \div 64 = 2
                           /\ Len(c) = 3 => p >= 2048
                           /\ Len(c) = 4 => p >= 65536
                           /\ Unicode(p)
    <3> HIDE DEF p
    <3> QED BY SMT DEF p, X!Character, Unicode
  <2> HIDE DEF p
  <2> QED BY <1>1, <2>1, SMT
<1>3. 1 \in 1..n /\ c[1] \in Octets
  <2>1. 1 \in 1..n
    OBVIOUS
  <2> QED BY <2>1, Zenon
<1>4. CASE n = 1
  <2>1. p = c[1]
    BY <1>4, CodePointIs
  <2>2. Unicode(c[1])
    <3>1. ASSUME NEW b \in Octets PROVE Unicode(b)
      <4>1. b \in Nat /\ b <= 255
        BY SMT DEF Octets
      <4> QED BY <4>1, SMT DEF Unicode
    <3> QED BY <1>3, <3>1, Zenon
  <2>3. X!RfcCharacter(c) <=> c[1] \in Ascii
    BY <1>4, SMT DEF X!RfcCharacter, Ascii
  <2>4. X!Character(c)
    <3> HIDE DEF p
    <3> QED BY <1>2, <1>4, <2>1, <2>2
  <2> QED BY <1>3, <1>4, <2>3, <2>4, Widths, Zenon
<1>5. CASE n = 2
  <2>1. 2 \in 1..n /\ 2 \in 2..n /\ (\A i \in 2..n : i = 2)
    BY <1>5
  <2>2. p = (c[1] % 32) * 64 + (c[2] % 64)
    BY <1>5, CodePointIs
  <2>3. X!RfcCharacter(c) <=> c[1] \in Two /\ c[2] \in Follow
    BY <1>5, SMT DEF X!RfcCharacter, Two, Follow
  <2>4. X!Character(c) <=> c[2] \in Follow /\ Unicode(p)
    <3> HIDE DEF p
    <3> QED BY <1>2, <1>5, <2>1, SMT
  <2>5. c[1] \in Two /\ c[2] \in Follow => Unicode(p)
    BY <2>2, OfTwoBytes, Zenon
  <2>6. X!Width(c[1]) = 2 <=> c[1] \in Two
    BY <1>3, Widths, Zenon
  <2> HIDE DEF p
  <2> QED BY <1>5, <2>3, <2>4, <2>5, <2>6, Zenon
<1>6. CASE n = 3
  <2>1. 2 \in 2..n /\ 3 \in 2..n /\ (\A i \in 2..n : i \in {2, 3})
    BY <1>6
  <2>2. p = ((c[1] % 16) * 64 + (c[2] % 64)) * 64 + (c[3] % 64)
    BY <1>6, CodePointIs
  <2>3. X!RfcCharacter(c) <=> ListedThree(c[1], c[2]) /\ c[2] \in Follow /\ c[3] \in Follow
    BY <1>6, SMT DEF X!RfcCharacter, ListedThree, Follow
  <2>4. X!Character(c) <=> c[2] \in Follow /\ c[3] \in Follow /\ p >= 2048 /\ Unicode(p)
    <3> HIDE DEF p
    <3> QED BY <1>2, <1>6, <2>1, SMT
  <2>5. c[1] \in Three /\ c[2] \in Follow /\ c[3] \in Follow =>
          (Unicode(p) /\ p >= 2048 <=> ListedThree(c[1], c[2]))
    <3> SUFFICES ASSUME c[1] \in Three, c[2] \in Follow, c[3] \in Follow
                 PROVE  Unicode(p) /\ p >= 2048 <=> ListedThree(c[1], c[2])
      OBVIOUS
    <3>1. LET q == ((c[1] % 16) * 64 + (c[2] % 64)) * 64 + (c[3] % 64)
          IN  Unicode(q) /\ q >= 2048 <=> ListedThree(c[1], c[2])
      BY OfThreeBytes
    <3> HIDE DEF p
    <3> QED BY <2>2, <3>1
  <2>6. X!Width(c[1]) = 3 <=> c[1] \in Three
    BY <1>3, Widths, Zenon
  <2>7. ListedThree(c[1], c[2]) => c[1] \in Three
    BY SMT DEF ListedThree, Three
  <2> HIDE DEF p
  <2> QED BY <1>6, <2>3, <2>4, <2>5, <2>6, <2>7, SMT
<1>7. CASE n = 4
  <2>1. 2 \in 2..n /\ 3 \in 2..n /\ 4 \in 2..n /\ (\A i \in 2..n : i \in {2, 3, 4})
    BY <1>7
  <2>2. p = (((c[1] % 8) * 64 + (c[2] % 64)) * 64 + (c[3] % 64)) * 64 + (c[4] % 64)
    BY <1>7, CodePointIs
  <2>3. X!RfcCharacter(c) <=>
          ListedFour(c[1], c[2]) /\ c[2] \in Follow /\ c[3] \in Follow /\ c[4] \in Follow
    BY <1>7, SMT DEF X!RfcCharacter, ListedFour, Follow
  <2>4. X!Character(c) <=> /\ c[2] \in Follow /\ c[3] \in Follow /\ c[4] \in Follow
                           /\ p >= 65536 /\ Unicode(p)
    <3> HIDE DEF p
    <3> QED BY <1>2, <1>7, <2>1, SMT
  <2>5. c[1] \in Four /\ c[2] \in Follow /\ c[3] \in Follow /\ c[4] \in Follow =>
          (Unicode(p) /\ p >= 65536 <=> ListedFour(c[1], c[2]))
    <3> SUFFICES ASSUME c[1] \in Four, c[2] \in Follow, c[3] \in Follow, c[4] \in Follow
                 PROVE  Unicode(p) /\ p >= 65536 <=> ListedFour(c[1], c[2])
      OBVIOUS
    <3>1. LET q == (((c[1] % 8) * 64 + (c[2] % 64)) * 64 + (c[3] % 64)) * 64 + (c[4] % 64)
          IN  Unicode(q) /\ q >= 65536 <=> ListedFour(c[1], c[2])
      BY OfFourBytes, SMT
    <3> HIDE DEF p
    <3> QED BY <2>2, <3>1, SMT
  <2>6. X!Width(c[1]) = 4 <=> c[1] \in Four
    BY <1>3, Widths, Zenon
  <2>7. ListedFour(c[1], c[2]) => c[1] \in Four
    BY SMT DEF ListedFour, Four
  <2> HIDE DEF p
  <2> QED BY <1>7, <2>3, <2>4, <2>5, <2>6, <2>7, SMT
<1> QED BY <1>4, <1>5, <1>6, <1>7

\* A text is UTF-8 for the browser exactly if RFC 3629 has it so: at every place
\* both ask for the same characters.
LEMMA Utf8IsRfc ==
  ASSUME NEW bytes \in Seq(Octets)
  PROVE  X!Utf8IsRfc3629(bytes)
<1> DEFINE n == Len(bytes)
           At(i, w) == SubSeq(bytes, i, i + w - 1)
           DefV(f) == [i \in 1..(Len(bytes) + 1) |->
                        IF i > Len(bytes) THEN TRUE
                        ELSE LET w == X!Width(bytes[i])
                             IN  /\ w # 0 /\ i + w - 1 <= Len(bytes)
                                 /\ X!Character(SubSeq(bytes, i, i + w - 1))
                                 /\ f[i + w]]
           DefC(f) == [i \in 1..(Len(bytes) + 1) |->
                        i > Len(bytes) \/
                        \E w \in 1..4 : /\ i + w - 1 <= Len(bytes)
                                        /\ X!RfcCharacter(SubSeq(bytes, i, i + w - 1)) /\ f[i + w]]
           valid == CHOOSE f : f = DefV(f)
           cut == CHOOSE f : f = DefC(f)
<1>1. n \in Nat
  OBVIOUS
<1>2. ASSUME NEW i \in 1..n, NEW w \in 1..4, i + w - 1 <= n
      PROVE  (X!Width(bytes[i]) = w /\ X!Character(At(i, w))) <=> X!RfcCharacter(At(i, w))
  <2>1. i + w - 1 \in 0..n /\ i \in 1..(n + 1)
    BY <1>1, <1>2
  <2>2. /\ Len(At(i, w)) = w
        /\ \A k \in 1..w : At(i, w)[k] = bytes[i + k - 1]
    BY <1>1, <2>1, SubSeqProperties
  <2>3. \A k \in 1..w : i + k - 1 \in 1..n
    BY <1>1, <1>2
  <2>4. \A k \in 1..n : bytes[k] \in Octets
    OBVIOUS
  <2>5. \A k \in 1..w : At(i, w)[k] \in Octets
    <3> HIDE DEF At, n
    <3> QED BY <2>2, <2>3, <2>4
  <2>6. At(i, w)[1] = bytes[i]
    <3>1. 1 \in 1..w /\ i + 1 - 1 = i
      BY <1>1
    <3> HIDE DEF At
    <3> QED BY <2>2, <3>1
  <2> HIDE DEF At, n
  <2>7. X!Width(At(i, w)[1]) = w /\ X!Character(At(i, w)) <=> X!RfcCharacter(At(i, w))
    BY <2>2, <2>5, CharacterIsRfc
  <2> QED BY <2>6, <2>7
<1>3. ASSUME NEW f, NEW i \in 1..(n + 1)
      PROVE  (IF i > n THEN TRUE
              ELSE LET w == X!Width(bytes[i])
                   IN  /\ w # 0 /\ i + w - 1 <= n /\ X!Character(SubSeq(bytes, i, i + w - 1))
                       /\ f[i + w])
             = (i > n \/ \E w \in 1..4 : /\ i + w - 1 <= n
                                         /\ X!RfcCharacter(SubSeq(bytes, i, i + w - 1)) /\ f[i + w])
  <2>1. CASE i > n
    BY <2>1, Zenon
  <2>2. CASE ~(i > n)
    <3>1. i \in 1..n
      BY <1>1, <2>2
    <3>2. bytes[i] \in Octets
      BY <3>1
    <3>3. X!Width(bytes[i]) \in 0..4
      BY <3>2, Widths, Zenon
    <3>4. X!Width(bytes[i]) # 0 => X!Width(bytes[i]) \in 1..4
      BY <3>3
    <3> DEFINE Wide == X!Width(bytes[i])
    <3> HIDE DEF Wide, n
    <3>5. Wide # 0 => Wide \in 1..4
      BY <3>4, Zenon DEF Wide
    <3>6. \A w \in 1..4 : i + w - 1 <= n => ((Wide = w /\ X!Character(At(i, w))) <=> X!RfcCharacter(At(i, w)))
      BY <1>2, <3>1, Zenon DEF Wide
    <3>7. 0 \notin 1..4
      OBVIOUS
    <3>8. (Wide # 0 /\ i + Wide - 1 <= n /\ X!Character(At(i, Wide)) /\ f[i + Wide])
          <=> \E w \in 1..4 : i + w - 1 <= n /\ X!RfcCharacter(At(i, w)) /\ f[i + w]
      <4> HIDE DEF At
      <4> QED BY <3>5, <3>6, <3>7, Zenon
    <3> QED BY <2>2, <3>8, Zenon DEF Wide
  <2> QED BY <2>1, <2>2
<1>4. ASSUME NEW f PROVE DefV(f) = DefC(f)
  BY <1>3, Zenon
<1>5. valid = cut
  <2> HIDE DEF DefV, DefC
  <2> QED BY <1>4, Zenon
<1>6. X!Utf8IsRfc3629(bytes) <=> (valid[1] <=> cut[1])
  BY Zenon DEF X!Utf8IsRfc3629, X!ValidUtf8
<1> HIDE DEF valid, cut
<1> QED BY <1>5, <1>6, Zenon

----------------------------------------------------------------------------
(* Packages.                                                               *)

\* What the entries of a package hold together, summed up one by one.
LEMMA SumIs ==
  ASSUME NEW entries \in Seq(X!Entries)
  PROVE  \E sum \in [0..Len(entries) -> Nat] :
           /\ X!Bytes(entries) = sum[Len(entries)]
           /\ sum[0] = 0
           /\ \A i \in 1..Len(entries) : sum[i] = sum[i - 1] + entries[i].length
<1> DEFINE n == Len(entries)
           Def(f) == [i \in 0..Len(entries) |-> IF i = 0 THEN 0 ELSE f[i - 1] + entries[i].length]
           sum == CHOOSE f : f = Def(f)
           F == [q \in (1..n) \X Nat |-> q[2] + entries[q[1]].length]
<1>1. n \in Nat /\ \A i \in 1..n : entries[i].length \in Nat
  <2>1. n \in Nat /\ \A i \in 1..n : entries[i] \in X!Entries
    OBVIOUS
  <2>2. \A e \in X!Entries : e.length \in Nat
    BY DEF X!Entries
  <2> QED BY <2>1, <2>2
<1>2. \A i \in 1..n : \A v \in Nat : F[<<i, v>>] = v + entries[i].length /\ F[<<i, v>>] \in Nat
  BY <1>1
<1> HIDE DEF F
<1>3. PICK g : LoopValues(g, n, Nat, 0, F)
  <2>1. 0 \in Nat /\ \A i \in 1..n : \A v \in Nat : F[<<i, v>>] \in Nat
    BY <1>2
  <2> HIDE DEF n
  <2> QED BY <1>1, <2>1, LoopExists, Zenon
<1>12. g \in [0..n -> Nat] /\ g[0] = 0 /\ \A i \in 1..n : g[i] = F[<<i, g[i - 1]>>]
  BY <1>3 DEF LoopValues
<1>4. \A i \in 0..n : g[i] = IF i = 0 THEN 0 ELSE g[i - 1] + entries[i].length
  <2>1. \A i \in 1..n : g[i - 1] \in Nat /\ i # 0
    BY <1>12
  <2>2. \A i \in 0..n : i # 0 => i \in 1..n
    OBVIOUS
  <2> QED BY <1>2, <1>12, <2>1, <2>2
<1>5. g = Def(g)
  <2>1. g = [i \in 0..n |-> g[i]]
    BY <1>12
  <2>2. [i \in 0..n |-> g[i]] = Def(g)
    BY <1>4
  <2> QED BY <2>1, <2>2
<1>6. sum = Def(sum)
  <2> HIDE DEF Def
  <2> QED BY <1>5, Zenon
<1>7. X!Bytes(entries) = sum[n]
  BY Zenon DEF X!Bytes
<1> HIDE DEF sum
<1>8. \A i \in 0..n : sum[i] = IF i = 0 THEN 0 ELSE sum[i - 1] + entries[i].length
  BY <1>6
<1> DEFINE P == {i \in 0..n : sum[i] \in Nat}
<1>9. \A i \in 0..n : i \in P
  <2>1. 0 \in P
    BY <1>1, <1>8
  <2>2. \A i \in 1..n : i - 1 \in P => i \in P
    BY <1>1, <1>8
  <2> HIDE DEF P
  <2> QED BY <1>1, <2>1, <2>2, InductionUpTo
<1>10. sum \in [0..n -> Nat]
  <2>1. sum = [i \in 0..n |-> sum[i]]
    BY <1>6
  <2> QED BY <1>9, <2>1
<1>11. sum[0] = 0 /\ \A i \in 1..n : sum[i] = sum[i - 1] + entries[i].length
  BY <1>1, <1>8
<1> QED BY <1>7, <1>10, <1>11

\* A set of one element has one.
LEMMA OneOf == ASSUME NEW x, NEW S, S = {x} PROVE X!Cardinality(S) = 1
<1>1. Cardinality(S) = 1
  BY FS_Singleton
<1>2. X!Cardinality(S) = Cardinality(S)
  BY Zenon DEF X!Cardinality, Cardinality
<1> QED BY <1>1, <1>2

\* A path that does not end with a slash.
NamesFile(p) == X!Last(p) # ""

\* A path that is valid and names a file leads where it says.
LEMMA ValidPathsLead ==
  ASSUME NEW S, NEW p \in Seq(S), p # <<>>, X!ValidPath(p), NamesFile(p)
  PROVE  X!Led(p) = p
<1>0. PICK n \in Nat \ {0} : n = Len(p)
  <2>1. Len(p) \in Nat /\ Len(p) # 0
    BY EmptySeq, LenProperties
  <2> QED BY <2>1
<1> DEFINE Def(f) == [i \in 0..Len(p) |-> IF i = 0 THEN <<>> ELSE X!Followed(f[i - 1], p[i])]
           at == CHOOSE f : f = Def(f)
           g == [i \in 0..n |-> SubSeq(p, 1, i)]
           P == {i \in 0..n : at[i] = SubSeq(p, 1, i)}
<1>1. SubSeq(p, 1, 0) = <<>> /\ SubSeq(p, 1, n) = p
  <2>1. SubSeq(p, 1, 0) = <<>>
    BY SubSeqEmpty
  <2>2. SubSeq(p, 1, n) = p
    BY <1>0, SubSeqFull, Zenon
  <2> QED BY <2>1, <2>2
<1>2. \A i \in 1..n : p[i] \notin {"", ".", ".."}
  <2>1. \A i \in DOMAIN p : p[i] \notin {".", ".."} /\ (i < n => p[i] # "")
    BY <1>0, Zenon DEF X!ValidPath
  <2>2. DOMAIN p = 1..n
    BY <1>0, LenProperties
  <2>3. p[n] # ""
    BY <1>0 DEF NamesFile, X!Last
  <2>4. \A i \in 1..n : i < n \/ i = n
    OBVIOUS
  <2> QED BY <2>1, <2>2, <2>3, <2>4
<1>3. ASSUME NEW i \in 1..n PROVE X!Followed(SubSeq(p, 1, i - 1), p[i]) = SubSeq(p, 1, i)
  <2> DEFINE q == SubSeq(p, 1, i - 1)
  <2>0. /\ i \in 1..Len(p) /\ 1 \in 1..Len(p) /\ i \in 1..Len(p) /\ i - 1 \in Int
        /\ i \in Nat /\ \A k \in 1..(i - 1) : k \in 1..n
    BY <1>0
  <2>1. q \in Seq(S) /\ Len(q) = i - 1 /\ \A k \in 1..(i - 1) : q[k] = p[k]
    <3>1. \A k \in 1..(i - 1) : p[k] \in S
      BY <1>0, <2>0, ElementOfSeq
    <3> QED BY <2>0, <3>1, SubSeqProperties
  <2>6. Append(q, p[i]) = SubSeq(p, 1, i)
    <3>1. SubSeq(p, 1, i) = q \o <<p[i]>>
      BY <2>0, SubSeqRecursiveSecond
    <3>2. p[i] \in S
      BY <2>0, ElementOfSeq
    <3>3. Append(q, p[i]) = q \o <<p[i]>>
      <4> HIDE DEF q
      <4> QED BY <2>1, <3>2, AppendIsConcat
    <3> QED BY <3>1, <3>3, Zenon
  <2>2. q # <<"..">>
    <3> SUFFICES ASSUME q = <<"..">> PROVE FALSE
      OBVIOUS
    <3>1. Len(q) = 1 /\ q[1] = ".."
      <4> HIDE DEF q
      <4> QED OBVIOUS
    <3>2. 1 \in 1..(i - 1) /\ 1 \in 1..n
      BY <2>0, <2>1, <3>1
    <3> QED BY <1>2, <2>1, <3>1, <3>2, Zenon
  <2> HIDE DEF q
  <2>3. X!Followed(q, p[i]) = Append(q, p[i])
    BY <1>2, <2>2, Zenon DEF X!Followed
  <2> QED BY <2>3, <2>6, Zenon DEF q
<1>4. g = Def(g)
  <2>1. ASSUME NEW i \in 0..n
        PROVE  g[i] = IF i = 0 THEN <<>> ELSE X!Followed(g[i - 1], p[i])
    <3>1. i # 0 => i \in 1..n /\ i - 1 \in 0..n
      OBVIOUS
    <3>2. g[i] = SubSeq(p, 1, i) /\ (i # 0 => g[i - 1] = SubSeq(p, 1, i - 1))
      BY <3>1
    <3> HIDE DEF g
    <3> QED BY <1>1, <1>3, <3>1, <3>2
  <2>2. [i \in 0..n |-> g[i]] = Def(g)
    <3> HIDE DEF g
    <3> QED BY <1>0, <2>1
  <2>3. g = [i \in 0..n |-> g[i]]
    OBVIOUS
  <2> HIDE DEF g
  <2> QED BY <2>2, <2>3
<1>5. at = Def(at)
  <2> HIDE DEF Def, g
  <2> QED BY <1>4, Zenon
<1>6. X!Led(p) = at[n]
  <2>1. X!Led(p) = at[Len(p)]
    BY Zenon DEF X!Led
  <2> QED BY <1>0, <2>1, Zenon
<1> HIDE DEF at
<1>7. \A i \in 0..n : at[i] = IF i = 0 THEN <<>> ELSE X!Followed(at[i - 1], p[i])
  BY <1>0, <1>5
<1>8. 0 \in P
  <2>1. 0 \in 0..n
    OBVIOUS
  <2> QED BY <1>1, <1>7, <2>1
<1>9. ASSUME NEW i \in 1..n, i - 1 \in P PROVE i \in P
  <2>1. i \in 0..n /\ i # 0
    OBVIOUS
  <2>2. at[i - 1] = SubSeq(p, 1, i - 1)
    BY <1>9
  <2>3. at[i] = X!Followed(SubSeq(p, 1, i - 1), p[i])
    BY <1>7, <2>1, <2>2
  <2>4. at[i] = SubSeq(p, 1, i)
    BY <1>3, <2>3
  <2> QED BY <2>1, <2>4
<1>10. n \in P
  <2>1. n \in 0..n /\ n \in Nat
    OBVIOUS
  <2>2. \A i \in 1..n : i - 1 \in P => i \in P
    BY <1>9
  <2> HIDE DEF P
  <2> QED BY <1>8, <2>1, <2>2, InductionUpTo
<1> QED BY <1>1, <1>6, <1>10

\* What decode_native_extension_archive has seen of an archive.
ScanStates == [ok : BOOLEAN, seen : SUBSET {e.path : e \in X!Entries}, total : Nat]

\* One turn of the loop over the entries: it goes on only from where it went on,
\* and only with an entry that is accepted.
LEMMA ScanEntryFacts ==
  ASSUME NEW s \in ScanStates, NEW e \in X!Entries
  PROVE  /\ X!ScanEntry(s, e) \in ScanStates
         /\ X!ScanEntry(s, e).ok =>
              /\ s.ok /\ X!ValidPath(e.path) /\ NamesFile(e.path) /\ e.path \notin s.seen
              /\ X!ScanEntry(s, e).seen = s.seen \cup {e.path}
              /\ X!ScanEntry(s, e).total = s.total + e.length
              /\ s.total + e.length <= MaxTotalBytes
<1>1. /\ s.ok \in BOOLEAN /\ s.seen \in SUBSET {d.path : d \in X!Entries} /\ s.total \in Nat
      /\ s = [ok |-> s.ok, seen |-> s.seen, total |-> s.total]
  BY DEF ScanStates
<1>2. e.length \in Nat /\ e.path \in {d.path : d \in X!Entries}
  BY DEF X!Entries
<1> DEFINE on == [ok |-> TRUE, seen |-> s.seen \cup {e.path}, total |-> s.total + e.length]
           off == [s EXCEPT !.ok = FALSE]
<1>3. on \in ScanStates /\ on.ok /\ on.seen = s.seen \cup {e.path} /\ on.total = s.total + e.length
  <2>1. s.seen \cup {e.path} \in SUBSET {d.path : d \in X!Entries}
    BY <1>1, <1>2, Zenon
  <2>2. s.total + e.length \in Nat
    BY <1>1, <1>2
  <2> QED BY <2>1, <2>2 DEF ScanStates
<1>4. off \in ScanStates /\ ~off.ok
  BY <1>1 DEF ScanStates
<1>5. X!ScanEntry(s, e) = IF s.ok /\ X!EntryOk(s.seen, s.total, e) THEN on ELSE off
  BY Zenon DEF X!ScanEntry
<1>6. X!EntryOk(s.seen, s.total, e) =>
        /\ X!ValidPath(e.path) /\ NamesFile(e.path) /\ e.path \notin s.seen
        /\ s.total + e.length <= MaxTotalBytes
  BY Zenon DEF X!EntryOk, NamesFile
<1> HIDE DEF on, off
<1>7. CASE s.ok /\ X!EntryOk(s.seen, s.total, e)
  <2>1. X!ScanEntry(s, e) = on
    BY <1>5, <1>7, Zenon
  <2> QED BY <1>3, <1>6, <1>7, <2>1, Zenon
<1>8. CASE ~(s.ok /\ X!EntryOk(s.seen, s.total, e))
  <2>1. X!ScanEntry(s, e) = off
    BY <1>5, <1>8, Zenon
  <2> QED BY <1>4, <2>1, Zenon
<1> QED BY <1>7, <1>8

\* Scan runs its loop.
LEMMA ScanIs ==
  ASSUME NEW entries \in Seq(X!Entries)
  PROVE  \E s : /\ X!Scan(entries) = s[Len(entries)]
                /\ s[0] = [ok |-> TRUE, seen |-> {}, total |-> 0]
                /\ \A i \in 1..Len(entries) : s[i] = X!ScanEntry(s[i - 1], entries[i])
<1> DEFINE n == Len(entries)
           first == [ok |-> TRUE, seen |-> {}, total |-> 0]
           Def(f) == [i \in 0..Len(entries) |->
                        IF i = 0 THEN [ok |-> TRUE, seen |-> {}, total |-> 0]
                        ELSE X!ScanEntry(f[i - 1], entries[i])]
           s == CHOOSE f : f = Def(f)
           F == [q \in (1..n) \X ScanStates |-> X!ScanEntry(q[2], entries[q[1]])]
<1>1. n \in Nat /\ \A i \in 1..n : entries[i] \in X!Entries
  OBVIOUS
<1>2. first \in ScanStates
  BY DEF ScanStates
<1>3. \A i \in 1..n : \A v \in ScanStates :
        F[<<i, v>>] = X!ScanEntry(v, entries[i]) /\ F[<<i, v>>] \in ScanStates
  <2>1. \A i \in 1..n : \A v \in ScanStates : F[<<i, v>>] = X!ScanEntry(v, entries[i])
    OBVIOUS
  <2>2. \A i \in 1..n : \A v \in ScanStates : X!ScanEntry(v, entries[i]) \in ScanStates
    BY <1>1, ScanEntryFacts
  <2> HIDE DEF F
  <2> QED BY <2>1, <2>2
<1> HIDE DEF F, first
<1>4. PICK g : LoopValues(g, n, ScanStates, first, F)
  <2>1. \A i \in 1..n : \A v \in ScanStates : F[<<i, v>>] \in ScanStates
    BY <1>3
  <2> HIDE DEF n
  <2> QED BY <1>1, <1>2, <2>1, LoopExists, Zenon
<1>5. /\ g \in [0..n -> ScanStates] /\ g[0] = first
      /\ \A i \in 1..n : g[i] = F[<<i, g[i - 1]>>]
  BY <1>4 DEF LoopValues
<1>6. \A i \in 0..n : g[i] = IF i = 0 THEN first ELSE X!ScanEntry(g[i - 1], entries[i])
  <2>1. \A i \in 1..n : g[i - 1] \in ScanStates /\ i # 0
    BY <1>1, <1>5
  <2>2. \A i \in 0..n : i # 0 => i \in 1..n
    BY <1>1
  <2> QED BY <1>3, <1>5, <2>1, <2>2
<1>7. g = Def(g)
  <2>1. g = [i \in 0..n |-> g[i]]
    BY <1>5
  <2>2. [i \in 0..n |-> g[i]] = Def(g)
    BY <1>6 DEF first
  <2> QED BY <2>1, <2>2
<1>8. s = Def(s)
  <2> HIDE DEF Def
  <2> QED BY <1>7, Zenon
<1>9. X!Scan(entries) = s[n]
  BY Zenon DEF X!Scan
<1> HIDE DEF s
<1>10. \A i \in 0..n : s[i] = IF i = 0 THEN first ELSE X!ScanEntry(s[i - 1], entries[i])
  BY <1>8 DEF first
<1>11. s[0] = first /\ \A i \in 1..n : s[i] = X!ScanEntry(s[i - 1], entries[i])
  <2>1. 0 \in 0..n /\ \A i \in 1..n : i \in 0..n /\ i # 0
    BY <1>1
  <2> QED BY <1>10, <2>1
<1> QED BY <1>9, <1>11 DEF first

\* An archive that was read to its end holds files with valid paths, each once,
\* and no more bytes than are allowed.
LEMMA ScannedIsSound ==
  ASSUME NEW entries \in Seq(X!Entries), X!Scan(entries).ok, MaxTotalBytes \in Nat
  PROVE  /\ \A i \in 1..Len(entries) : X!ValidPath(entries[i].path) /\ NamesFile(entries[i].path)
         /\ \A i, j \in 1..Len(entries) : i # j => entries[i].path # entries[j].path
         /\ X!Bytes(entries) <= MaxTotalBytes
         /\ X!Scan(entries).seen = {entries[i].path : i \in 1..Len(entries)}
<1>1. PICK n \in Nat : n = Len(entries)
  OBVIOUS
<1>2. PICK s : /\ X!Scan(entries) = s[n]
               /\ s[0] = [ok |-> TRUE, seen |-> {}, total |-> 0]
               /\ \A i \in 1..n : s[i] = X!ScanEntry(s[i - 1], entries[i])
  BY <1>1, ScanIs
<1>3. PICK sum \in [0..Len(entries) -> Nat] :
               /\ X!Bytes(entries) = sum[Len(entries)]
               /\ sum[0] = 0
               /\ \A i \in 1..Len(entries) : sum[i] = sum[i - 1] + entries[i].length
  BY SumIs
<1>4. /\ X!Bytes(entries) = sum[n] /\ sum[0] = 0
      /\ \A i \in 1..n : sum[i] = sum[i - 1] + entries[i].length
      /\ \A i \in 1..n : entries[i] \in X!Entries
  BY <1>1, <1>3
<1> DEFINE Good(k) == /\ X!ValidPath(entries[k].path) /\ NamesFile(entries[k].path)
           Known(i) == /\ s[i].total = sum[i] /\ sum[i] <= MaxTotalBytes
                       /\ s[i].seen = {entries[k].path : k \in 1..i}
                       /\ \A k \in 1..i : Good(k)
                       /\ \A j, k \in 1..i : j # k => entries[j].path # entries[k].path
           P == {i \in 0..n : s[i] \in ScanStates /\ (s[i].ok => Known(i))}
<1> HIDE DEF Good
<1>5. 0 \in P
  <2>1. s[0] \in ScanStates /\ s[0].total = 0 /\ s[0].seen = {} /\ 0 \in 0..n
    BY <1>2 DEF ScanStates
  <2> QED BY <1>4, <2>1
<1>6. ASSUME NEW i \in 1..n, i - 1 \in P PROVE i \in P
  <2>1. /\ s[i - 1] \in ScanStates /\ (s[i - 1].ok => Known(i - 1))
        /\ i \in 0..n /\ entries[i] \in X!Entries /\ s[i] = X!ScanEntry(s[i - 1], entries[i])
    BY <1>2, <1>4, <1>6
  <2>2. /\ s[i] \in ScanStates
        /\ s[i].ok =>
             /\ s[i - 1].ok /\ X!ValidPath(entries[i].path) /\ NamesFile(entries[i].path)
             /\ entries[i].path \notin s[i - 1].seen
             /\ s[i].seen = s[i - 1].seen \cup {entries[i].path}
             /\ s[i].total = s[i - 1].total + entries[i].length
             /\ s[i - 1].total + entries[i].length <= MaxTotalBytes
    <3> HIDE DEF Known
    <3> QED BY <2>1, ScanEntryFacts
  <2>3. \A k : k \in 1..i <=> (k \in 1..(i - 1) \/ k = i)
    OBVIOUS
  <2>4. ASSUME s[i].ok PROVE Known(i)
    <3>1. /\ s[i - 1].total = sum[i - 1]
          /\ s[i - 1].seen = {entries[k].path : k \in 1..(i - 1)}
          /\ \A k \in 1..(i - 1) : Good(k)
          /\ \A j, k \in 1..(i - 1) : j # k => entries[j].path # entries[k].path
      BY <2>1, <2>2, <2>4
    <3>2. s[i].total = sum[i] /\ sum[i] <= MaxTotalBytes
      BY <1>4, <2>2, <2>4, <3>1
    <3>3. s[i].seen = {entries[k].path : k \in 1..i}
      BY <2>2, <2>3, <2>4, <3>1
    <3>4. \A k \in 1..i : Good(k)
      BY <2>2, <2>3, <2>4, <3>1, Zenon DEF Good
    <3>5. \A k \in 1..(i - 1) : entries[k].path # entries[i].path
      BY <2>2, <2>4, <3>1
    <3>6. \A j, k \in 1..i : j # k => entries[j].path # entries[k].path
      BY <2>3, <3>1, <3>5, Zenon
    <3> QED BY <3>2, <3>3, <3>4, <3>6
  <2> HIDE DEF Known
  <2> QED BY <2>1, <2>2, <2>4
<1>7. n \in P
  <2>1. n \in 0..n
    OBVIOUS
  <2>2. \A i \in 1..n : i - 1 \in P => i \in P
    BY <1>6
  <2> HIDE DEF P
  <2> QED BY <1>5, <2>1, <2>2, InductionUpTo
<1>8. Known(n)
  <2> HIDE DEF Known
  <2> QED BY <1>2, <1>7
<1> QED BY <1>1, <1>2, <1>4, <1>8 DEF Good

\* What is loaded has different paths inside the package and what it starts.
LEMMA LoadedFacts ==
  ASSUME NEW f, f.entries \in Seq(X!Entries), NEW lines
  PROVE  X!LoadedIsSound(f, lines)
<1> SUFFICES ASSUME X!Loaded(f, lines) PROVE X!LoadedIsSound(f, lines)
  BY Zenon DEF X!LoadedIsSound
<1> DEFINE entries == f.entries
           n == Len(entries)
<1>1. /\ f.count = n /\ X!Scan(SubSeq(entries, 1, f.count)).ok
      /\ X!ManifestPath \in X!Scan(SubSeq(entries, 1, f.count)).seen
      /\ X!PackageValid(f, lines)
  BY Zenon DEF X!Loaded, X!Decoded
<1>2. SubSeq(entries, 1, n) = entries
  BY SubSeqFull, Zenon
<1>3. X!Scan(entries).ok /\ X!ManifestPath \in X!Scan(entries).seen
  BY <1>1, <1>2, Zenon
<1>4. /\ \A i \in 1..n : X!ValidPath(entries[i].path) /\ NamesFile(entries[i].path)
      /\ \A i, j \in 1..n : i # j => entries[i].path # entries[j].path
      /\ X!Bytes(entries) <= MaxTotalBytes
      /\ X!Scan(entries).seen = {entries[i].path : i \in 1..n}
  <2>1. MaxTotalBytes \in Nat
    BY InputAssumption, Zenon
  <2> HIDE DEF entries
  <2>2. entries \in Seq(X!Entries)
    BY DEF entries
  <2> QED BY <1>3, <2>1, <2>2, ScannedIsSound
<1>5. DOMAIN entries = 1..n /\ \A i \in 1..n : entries[i] \in X!Entries
  OBVIOUS
<1>6. X!Range(entries) = {entries[i] : i \in 1..n}
  BY <1>5, Zenon DEF X!Range
<1> HIDE DEF entries, n
<1>7. \A i \in 1..n : X!Led(entries[i].path) = entries[i].path /\ entries[i].path # <<>>
  <2> TAKE i \in 1..n
  <2> DEFINE p == entries[i].path
  <2>1. p \in Seq(STRING) \ {<<>>}
    <3>1. \A e \in X!Entries : e.path \in Seq(STRING) \ {<<>>}
      BY Zenon DEF X!Entries
    <3> QED BY <1>5, <3>1, Zenon
  <2>2. X!ValidPath(p) /\ NamesFile(p)
    BY <1>4
  <2> HIDE DEF p
  <2>3. X!Led(p) = p
    BY <2>1, <2>2, ValidPathsLead, Zenon
  <2> QED BY <2>1, <2>3, Zenon DEF p
<1>8. \A e \in X!Range(entries) : X!Led(e.path) = e.path /\ e.path # <<>>
  BY <1>6, <1>7, Zenon
<1>9. \A i, j \in DOMAIN entries : i # j => X!Led(entries[i].path) # X!Led(entries[j].path)
  BY <1>4, <1>5, <1>7, Zenon
<1>10. X!Cardinality({i \in DOMAIN entries : entries[i].path = X!ManifestPath}) = 1
  <2>1. PICK m \in 1..n : entries[m].path = X!ManifestPath
    BY <1>3, <1>4, Zenon
  <2>2. {i \in DOMAIN entries : entries[i].path = X!ManifestPath} = {m}
    BY <1>4, <1>5, <2>1, Zenon
  <2> QED BY <2>2, OneOf
<1>11. ASSUME NEW l \in X!Range(X!Values(lines, "entry_point"))
       PROVE  X!Cardinality({e \in X!Range(entries) : e.path = l[2]}) = 1
  <2>1. PICK e \in X!Range(entries) : e.path = l[2]
    BY <1>1, <1>11, Zenon DEF X!PackageValid, entries
  <2>2. PICK k \in 1..n : e = entries[k]
    BY <1>6, <2>1, Zenon
  <2>3. {d \in X!Range(entries) : d.path = l[2]} = {e}
    <3>1. ASSUME NEW d \in X!Range(entries), d.path = l[2] PROVE d = e
      <4>1. PICK j \in 1..n : d = entries[j]
        BY <1>6, <3>1, Zenon
      <4>2. j = k
        BY <1>4, <2>1, <2>2, <3>1, <4>1, Zenon
      <4> QED BY <2>2, <4>1, <4>2, Zenon
    <3> QED BY <2>1, <3>1, Zenon
  <2> QED BY <2>3, OneOf
<1> QED BY <1>4, <1>8, <1>9, <1>10, <1>11, Zenon DEF X!LoadedIsSound, entries

\* An archive is read as a whole or not at all.
LEMMA WholeFacts ==
  ASSUME NEW f, f.entries \in Seq(X!Entries),
         f = [suffix |-> f.suffix, header |-> f.header, count |-> f.count,
              entries |-> f.entries, rest |-> f.rest]
  PROVE  X!NoPartIsWhole(f)
<1> SUFFICES ASSUME X!Decoded(f) PROVE X!NoPartIsWhole(f)
  BY Zenon DEF X!NoPartIsWhole
<1> DEFINE entries == f.entries
<1>1. f.count = Len(entries)
  BY Zenon DEF X!Decoded
<1>2. Len(entries) \in Nat
  OBVIOUS
<1>3. ASSUME NEW n \in 0..(Len(entries) - 1)
      PROVE  ~X!Decoded([f EXCEPT !.entries = SubSeq(@, 1, n)])
  <2> DEFINE g == [f EXCEPT !.entries = SubSeq(@, 1, n)]
  <2>1. g.count = f.count /\ g.entries = SubSeq(entries, 1, n)
    OBVIOUS
  <2>2. Len(SubSeq(entries, 1, n)) = n
    BY <1>2
  <2>3. g.count # Len(g.entries)
    <3> HIDE DEF g, entries
    <3> QED BY <1>1, <1>2, <2>1, <2>2
  <2> HIDE DEF g
  <2>4. ~X!Decoded(g)
    BY <2>3, Zenon DEF X!Decoded
  <2> QED BY <2>4, Zenon DEF g
<1>4. ~X!Decoded([f EXCEPT !.rest = TRUE])
  <2> DEFINE g == [f EXCEPT !.rest = TRUE]
  <2>1. g.rest
    OBVIOUS
  <2> HIDE DEF g
  <2>2. ~X!Decoded(g)
    BY <2>1, Zenon DEF X!Decoded
  <2> QED BY <2>2, Zenon DEF g
<1>5. ASSUME NEW n \in 0..(f.count - 1) PROVE ~X!Decoded([f EXCEPT !.count = n])
  <2> DEFINE g == [f EXCEPT !.count = n]
  <2>1. g.count = n /\ g.entries = f.entries
    OBVIOUS
  <2>2. g.count # Len(g.entries)
    <3> HIDE DEF g
    <3> QED BY <1>1, <1>2, <2>1
  <2> HIDE DEF g
  <2>3. ~X!Decoded(g)
    BY <2>2, Zenon DEF X!Decoded
  <2> QED BY <2>3, Zenon DEF g
<1> HIDE DEF entries
<1> QED BY <1>3, <1>4, <1>5, Zenon DEF X!NoPartIsWhole, entries

\* What is loaded from a package has different paths, all of them inside it,
\* keeps the limits, has one manifest and what this starts; a package is read
\* as a whole or not at all, and its text is UTF-8 exactly if RFC 3629 calls it so
\* (native_extension_package.hpp, native_extension.hpp).
THEOREM PackagesAreSound == CaseSpec => []PackageIsSound
<1>1. AnyCase => PackageIsSound
  <2> SUFFICES ASSUME AnyCase PROVE PackageIsSound
    OBVIOUS
  <2>1. ASSUME case.kind = "package"
        PROVE  /\ X!LoadedIsSound(case.package.file, case.package.lines)
               /\ X!NoPartIsWhole(case.package.file)
    <3>1. case.package \in Packages
      BY <2>1 DEF AnyCase, CaseInit
    <3>2. PICK p : p \in Packages /\ p = case.package
      BY <3>1
    <3> QED BY <3>2, InputAssumption, LoadedFacts, WholeFacts, Zenon
  <2>2. ASSUME case.kind = "text" PROVE X!Utf8IsRfc3629(case.bytes)
    <3>1. case.bytes \in Texts
      BY <2>2 DEF AnyCase, CaseInit
    <3>2. Texts \subseteq Seq(Octets)
      BY InputAssumption, Zenon DEF Octets
    <3> QED BY <3>1, <3>2, Utf8IsRfc, Zenon
  <2> QED BY <2>1, <2>2, Zenon DEF PackageIsSound
<1> QED BY <1>1, CasesAreInputs, PTL

----------------------------------------------------------------------------
(* Digests.                                                                *)

\* a is a sequence of m.
IsSequence(a, m) == a = [i \in 1..m |-> a[i]]

\* Its length.
LEMMA LengthIs ==
  ASSUME NEW a, NEW m \in Nat, IsSequence(a, m)
  PROVE  Len(a) = m /\ a \in Seq({a[i] : i \in 1..m})
<1> DEFINE S == {a[i] : i \in 1..m}
<1>1. a \in [1..m -> S]
  BY Zenon DEF IsSequence
<1> HIDE DEF S
<1>2. a \in Seq(S) /\ Len(a) = m
  BY <1>1
<1> QED BY <1>2 DEF S

\* c is the m of a and then the k of b.
IsBoth(c, a, m, b, k) ==
  /\ IsSequence(c, m + k)
  /\ \A i \in 1..m : c[i] = a[i]
  /\ \A i \in 1..k : c[m + i] = b[i]

\* One sequence behind another is both.
LEMMA Joined ==
  ASSUME NEW a, NEW m \in Nat, IsSequence(a, m), NEW b, NEW k \in Nat, IsSequence(b, k)
  PROVE  IsBoth(a \o b, a, m, b, k)
<1> DEFINE S == {a[i] : i \in 1..m}
           R == {b[i] : i \in 1..k}
           T == S \cup R
           c == a \o b
<1>1. Len(a) = m /\ a \in Seq(S) /\ Len(b) = k /\ b \in Seq(R)
  BY LengthIs, Zenon
<1> HIDE DEF S, R
<1>2. a \in Seq(T) /\ b \in Seq(T)
  BY <1>1
<1> HIDE DEF T
<1>3. /\ c \in Seq(T) /\ Len(c) = m + k
      /\ \A i \in 1..m : c[i] = a[i]
      /\ \A i \in 1..k : c[m + i] = b[i]
  BY <1>1, <1>2
<1> HIDE DEF c
<1>4. c = [i \in 1..(m + k) |-> c[i]]
  BY <1>3
<1>5. IsBoth(c, a, m, b, k)
  BY <1>3, <1>4, Zenon DEF IsBoth, IsSequence
<1> QED BY <1>5 DEF c

\* A part of a sequence.
LEMMA PartIs ==
  ASSUME NEW a, NEW m \in Nat, IsSequence(a, m), NEW p \in 1..(m + 1), NEW q \in (p - 1)..m
  PROVE  /\ IsSequence(SubSeq(a, p, q), q - p + 1)
         /\ \A i \in 1..(q - p + 1) : SubSeq(a, p, q)[i] = a[p + i - 1]
<1> DEFINE S == {a[i] : i \in 1..m}
           c == SubSeq(a, p, q)
           len == q - p + 1
<1>1. p \in Int /\ q \in Int /\ len \in Nat /\ (p <= q <=> len # 0)
  OBVIOUS
<1>2. \A i \in p..q : a[i] \in S
  OBVIOUS
<1> HIDE DEF S
<1>3. /\ c \in Seq(S) /\ Len(c) = len
      /\ \A i \in 1..len : c[i] = a[p + i - 1]
  <2>1. /\ c \in Seq(S) /\ Len(c) = IF p <= q THEN q - p + 1 ELSE 0
        /\ \A i \in 1..(q - p + 1) : c[i] = a[p + i - 1]
    BY <1>1, <1>2, SubSeqProperties
  <2> HIDE DEF c
  <2> QED BY <1>1, <2>1
<1> HIDE DEF c
<1>4. c = [i \in 1..len |-> c[i]]
  BY <1>3
<1> HIDE DEF len
<1> QED BY <1>3, <1>4, Zenon DEF IsSequence, c, len

\* Two sequences of the same are the same.
LEMMA SameSequence ==
  ASSUME NEW a, NEW b, NEW m \in Nat, IsSequence(a, m), IsSequence(b, m),
         \A i \in 1..m : a[i] = b[i]
  PROVE  a = b
<1>1. [i \in 1..m |-> a[i]] = [i \in 1..m |-> b[i]]
  OBVIOUS
<1> QED BY <1>1, Zenon DEF IsSequence

\* Division by the length of a block.
LEMMA Blocks64 ==
  ASSUME NEW m \in Nat, NEW q \in Nat, NEW r \in 0..63, m = 64 * q + r
  PROVE  m \div 64 = q /\ m % 64 = r
  BY SMT
\* Every number of bytes is some blocks and less than one more.
LEMMA Cut64 ==
  ASSUME NEW m \in Nat
  PROVE  m \div 64 \in Nat /\ m % 64 \in 0..63 /\ m = 64 * (m \div 64) + (m % 64)
  BY SMT

\* The c bytes of a file behind the first m, a block of it, and what is known of
\* a file of which m bytes are read.
FileBytes(m, c) == [i \in 1..c |-> W!Byte(m + i)]
FileBlock(b) == FileBytes(64 * (b - 1), 64)
FileBlocksTo(q) == [b \in 1..q |-> FileBlock(b)]
Known(q, r) == [data |-> FileBytes(64 * q, r), bits |-> 512 * q, blocks |-> FileBlocksTo(q)]
ReadSoFar(m) == Known(m \div 64, m % 64)

\* s are the c bytes of a file behind the first m.
AreBytes(s, m, c) == IsSequence(s, c) /\ \A i \in 1..c : s[i] = W!Byte(m + i)

\* The bytes of a file that are meant are those.
LEMMA FileBytesAre ==
  ASSUME NEW m \in Nat, NEW c \in Nat
  PROVE  AreBytes(FileBytes(m, c), m, c)
<1> DEFINE f == FileBytes(m, c)
<1>1. f = [i \in 1..c |-> f[i]] /\ \A i \in 1..c : f[i] = W!Byte(m + i)
  BY Zenon DEF FileBytes
<1> HIDE DEF f
<1>2. AreBytes(f, m, c)
  BY <1>1, Zenon DEF IsSequence, AreBytes
<1> QED BY <1>2 DEF f

\* What is cut out of the bytes of a file are bytes of it.
LEMMA CutOut ==
  ASSUME NEW base \in Nat, NEW len \in Nat, NEW data, AreBytes(data, base, len),
         NEW from \in Nat, NEW w \in Nat, from + w <= len
  PROVE  SubSeq(data, from + 1, from + w) = FileBytes(base + from, w)
<1> DEFINE c == SubSeq(data, from + 1, from + w)
           f == FileBytes(base + from, w)
<1>1. /\ from + 1 \in 1..(len + 1) /\ from + w \in ((from + 1) - 1)..len
      /\ (from + w) - (from + 1) + 1 = w /\ base + from \in Nat
  OBVIOUS
<1>0. IsSequence(data, len) /\ \A i \in 1..len : data[i] = W!Byte(base + i)
  BY Zenon DEF AreBytes
<1>2. IsSequence(c, w) /\ \A i \in 1..w : c[i] = data[from + 1 + i - 1]
  <2>1. /\ IsSequence(c, (from + w) - (from + 1) + 1)
        /\ \A i \in 1..((from + w) - (from + 1) + 1) : c[i] = data[from + 1 + i - 1]
    BY <1>0, <1>1, PartIs, Zenon
  <2> HIDE DEF c
  <2> QED BY <1>1, <2>1, Zenon
<1>3. IsSequence(f, w) /\ \A i \in 1..w : f[i] = W!Byte(base + from + i)
  BY <1>1, FileBytesAre, Zenon DEF AreBytes
<1> HIDE DEF c, f
<1>4. ASSUME NEW i \in 1..w PROVE c[i] = f[i]
  <2>1. /\ from + 1 + i - 1 \in 1..len
        /\ base + (from + 1 + i - 1) = base + from + i
    OBVIOUS
  <2> QED BY <1>0, <1>2, <1>3, <2>1, Zenon
<1>5. c = f
  BY <1>2, <1>3, <1>4, SameSequence
<1> QED BY <1>5 DEF c, f

\* However many bytes are read next, what is known is what is known of so many
\* bytes.
LEMMA UpdatedIs ==
  ASSUME NEW m \in Nat, NEW c \in Nat
  PROVE  W!Updated(ReadSoFar(m), FileBytes(m, c)) = ReadSoFar(m + c)
<1>1. PICK q \in Nat : q = m \div 64
  BY Cut64
<1>2. PICK r \in Nat : r = m % 64 /\ r <= 63
  BY Cut64
<1>3. m = 64 * q + r
  BY <1>1, <1>2, Cut64, Zenon
<1>4. PICK full \in Nat : full = (r + c) \div 64
  <2>1. r + c \in Nat
    OBVIOUS
  <2> QED BY <2>1, Cut64
<1>5. PICK rest \in Nat : r + c = 64 * full + rest /\ rest <= 63
  <2>1. r + c \in Nat
    OBVIOUS
  <2> QED BY <1>4, <2>1, Cut64
<1>6. (m + c) \div 64 = q + full /\ (m + c) % 64 = rest
  <2>1. /\ m + c \in Nat /\ q + full \in Nat /\ rest \in 0..63
        /\ m + c = 64 * (q + full) + rest
    BY <1>3, <1>5
  <2> QED BY <2>1, Blocks64
<1> DEFINE old == FileBytes(64 * q, r)
           new == FileBytes(m, c)
           data == old \o new
           before == FileBlocksTo(q)
           cut == [i \in 1..full |-> SubSeq(data, 64 * i - 63, 64 * i)]
<1>7. AreBytes(data, 64 * q, r + c)
  <2>1. PICK base \in Nat : base = 64 * q
    OBVIOUS
  <2>2. AreBytes(old, base, r) /\ AreBytes(new, m, c)
    BY <2>1, FileBytesAre, Zenon
  <2>3. IsBoth(data, old, r, new, c)
    <3>1. IsSequence(old, r) /\ IsSequence(new, c)
      BY <2>2, Zenon DEF AreBytes
    <3> HIDE DEF old, new
    <3> QED BY <3>1, Joined, Zenon
  <2> HIDE DEF data, old, new
  <2>4. /\ IsSequence(data, r + c)
        /\ \A i \in 1..r : data[i] = W!Byte(base + i)
        /\ \A i \in 1..c : data[r + i] = W!Byte(m + i)
    BY <2>2, <2>3, Zenon DEF AreBytes, IsBoth
  <2>5. ASSUME NEW i \in 1..(r + c) PROVE data[i] = W!Byte(base + i)
    <3>1. CASE i \in 1..r
      BY <2>4, <3>1, Zenon
    <3>2. CASE i \notin 1..r
      <4>1. PICK j \in 1..c : i = r + j
        <5>1. i - r \in 1..c /\ i = r + (i - r)
          BY <3>2
        <5> QED BY <5>1
      <4>2. m + j = base + i
        BY <1>3, <2>1, <4>1
      <4> QED BY <2>4, <4>1, <4>2, Zenon
    <3> QED BY <3>1, <3>2
  <2> QED BY <2>1, <2>4, <2>5, Zenon DEF AreBytes
<1>8. Len(data) = r + c
  <2>1. r + c \in Nat
    OBVIOUS
  <2> HIDE DEF data
  <2> QED BY <1>7, <2>1, LengthIs, Zenon DEF AreBytes
<1> HIDE DEF data
<1>9. SubSeq(data, 64 * full + 1, r + c) = FileBytes(64 * (q + full), rest)
  <2>1. PICK from \in Nat : from = 64 * full
    OBVIOUS
  <2>2. PICK base \in Nat : base = 64 * q
    OBVIOUS
  <2>3. /\ r + c \in Nat /\ from + rest <= r + c /\ from + rest = r + c
        /\ base + from = 64 * (q + full)
    BY <1>2, <1>5, <2>1, <2>2
  <2>4. SubSeq(data, from + 1, from + rest) = FileBytes(base + from, rest)
    <3>1. PICK len \in Nat : len = r + c
      BY <2>3
    <3>2. AreBytes(data, base, len)
      BY <1>7, <2>2, <3>1, Zenon
    <3>3. from + rest <= len
      BY <2>3, <3>1, Zenon
    <3> QED BY <3>2, <3>3, CutOut
  <2> QED BY <2>1, <2>3, <2>4, Zenon
<1>10. ASSUME NEW i \in 1..full
       PROVE  SubSeq(data, 64 * i - 63, 64 * i) = FileBlock(q + i)
  <2>1. PICK from \in Nat : from = 64 * (i - 1)
    OBVIOUS
  <2>2. PICK base \in Nat : base = 64 * q
    OBVIOUS
  <2>3. PICK w \in Nat : w = 64
    OBVIOUS
  <2>4. r + c \in Nat /\ from + w <= r + c
    BY <1>2, <1>5, <2>1, <2>3
  <2>5. SubSeq(data, from + 1, from + w) = FileBytes(base + from, w)
    <3>1. PICK len \in Nat : len = r + c
      BY <2>4
    <3>2. AreBytes(data, base, len)
      BY <1>7, <2>2, <3>1, Zenon
    <3>3. from + w <= len
      BY <2>4, <3>1, Zenon
    <3> QED BY <3>2, <3>3, CutOut
  <2>6. from + 1 = 64 * i - 63 /\ from + w = 64 * i /\ base + from = 64 * (q + i - 1)
    BY <2>1, <2>2, <2>3
  <2> QED BY <2>3, <2>5, <2>6 DEF FileBlock
<1>11. before \o cut = FileBlocksTo(q + full)
  <2> DEFINE after == FileBlocksTo(q + full)
  <2>1. q + full \in Nat
    OBVIOUS
  <2>2. /\ IsSequence(before, q) /\ \A b \in 1..q : before[b] = FileBlock(b)
        /\ IsSequence(cut, full) /\ \A b \in 1..full : cut[b] = FileBlock(q + b)
        /\ IsSequence(after, q + full) /\ \A b \in 1..(q + full) : after[b] = FileBlock(b)
    BY <1>10, Zenon DEF IsSequence, FileBlocksTo
  <2> HIDE DEF before, cut, after
  <2>3. /\ IsSequence(before \o cut, q + full)
        /\ \A b \in 1..q : (before \o cut)[b] = before[b]
        /\ \A b \in 1..full : (before \o cut)[q + b] = cut[b]
    <3>1. IsBoth(before \o cut, before, q, cut, full)
      BY <2>2, Joined, Zenon
    <3> QED BY <3>1, Zenon DEF IsBoth
  <2>4. ASSUME NEW b \in 1..(q + full) PROVE (before \o cut)[b] = after[b]
    <3>1. CASE b \in 1..q
      BY <2>2, <2>3, <3>1, Zenon
    <3>2. CASE b \notin 1..q
      <4>1. PICK j \in 1..full : b = q + j
        <5>1. b - q \in 1..full /\ b = q + (b - q)
          BY <3>2
        <5> QED BY <5>1
      <4> QED BY <2>2, <2>3, <4>1, Zenon
    <3> QED BY <3>1, <3>2
  <2>5. before \o cut = after
    BY <2>1, <2>2, <2>3, <2>4, SameSequence, Zenon
  <2> QED BY <2>5 DEF after
<1>12. 512 * q + 512 * full = 512 * (q + full)
  BY SMT
<1> HIDE DEF before, cut
<1>13. ReadSoFar(m) = Known(q, r) /\ ReadSoFar(m + c) = Known(q + full, rest)
  BY <1>1, <1>2, <1>6, Zenon DEF ReadSoFar
<1> DEFINE s == Known(q, r)
<1>14. s.data \o new = data /\ s.bits = 512 * q /\ s.blocks = before
  <2> HIDE DEF new
  <2> QED BY SMT DEF Known, data, before
<1> HIDE DEF s, old, new
<1> DEFINE Blocks(l) == l \div 64
           Pieces(d, f, l) == [data |-> SubSeq(d, 64 * f + 1, l), bits |-> s.bits + 512 * f,
                               blocks |-> s.blocks \o [i \in 1..f |-> SubSeq(d, 64 * i - 63, 64 * i)]]
<1>15. W!Updated(s, new) = Pieces(s.data \o new, Blocks(Len(s.data \o new)), Len(s.data \o new))
  BY Zenon DEF W!Updated
<1>16. full = Blocks(r + c)
  BY <1>4
<1> HIDE DEF Blocks, Pieces
<1>17. W!Updated(s, new) = Pieces(data, full, r + c)
  <2>1. s.data \o new = data
    BY <1>14
  <2> QED BY <1>8, <1>15, <1>16, <2>1, Zenon
<1>18. Pieces(data, full, r + c) = Known(q + full, rest)
  <2>1. Pieces(data, full, r + c) =
          [data |-> SubSeq(data, 64 * full + 1, r + c), bits |-> s.bits + 512 * full,
           blocks |-> s.blocks \o cut]
    BY Zenon DEF Pieces, cut
  <2>2. s.bits + 512 * full = 512 * (q + full)
    BY <1>12, <1>14, SMT
  <2>3. s.blocks \o cut = FileBlocksTo(q + full)
    BY <1>11, <1>14
  <2>4. PICK d, l, k : /\ d = FileBytes(64 * (q + full), rest) /\ l = 512 * (q + full)
                       /\ k = FileBlocksTo(q + full)
    OBVIOUS
  <2>5. Known(q + full, rest) = [data |-> d, bits |-> l, blocks |-> k]
    BY <2>4, Zenon DEF Known
  <2> HIDE DEF cut
  <2>6. /\ SubSeq(data, 64 * full + 1, r + c) = d /\ s.bits + 512 * full = l
        /\ s.blocks \o cut = k
    BY <1>9, <2>2, <2>3, <2>4, SMT
  <2>7. Pieces(data, full, r + c) = [data |-> d, bits |-> l, blocks |-> k]
    BY <2>1, <2>6
  <2> QED BY <2>5, <2>7
<1> QED BY <1>13, <1>17, <1>18, Zenon DEF s, new

\* The beginning of a file of n bytes that k chunks of it are.
ReadWith(n, chunk, k) == IF k * chunk <= n THEN k * chunk ELSE n

\* How many chunks there are, and where each of them begins.
LEMMA ChunksMeet ==
  ASSUME NEW n \in Nat, NEW chunk \in Nat \ {0},
         NEW turns, turns = (n + chunk - 1) \div chunk
  PROVE  /\ turns \in Nat
         /\ ReadWith(n, chunk, 0) = 0
         /\ ReadWith(n, chunk, turns) = n
         /\ \A k \in 1..turns : /\ (k - 1) * chunk \in Nat /\ (k - 1) * chunk < n
                                /\ k * chunk = (k - 1) * chunk + chunk
<1>1. PICK total \in Nat : total = n + chunk - 1
  OBVIOUS
<1>2. PICK rem \in Nat : rem = total % chunk
  BY Division
<1>3. turns \in Nat /\ rem <= chunk - 1 /\ total = chunk * turns + rem
  <2>1. turns = total \div chunk
    BY <1>1, Zenon
  <2>2. /\ turns \in Nat /\ rem \in 0..(chunk - 1) /\ total = chunk * turns + rem
    BY <1>2, <2>1, Division, Zenon
  <2> QED BY <2>2
<1>4. chunk * turns = turns * chunk /\ turns * chunk \in Nat
  BY <1>3
<1>5. turns * chunk >= n /\ turns * chunk <= n + chunk - 1
  BY <1>1, <1>2, <1>3, <1>4
<1>6. ReadWith(n, chunk, 0) = 0
  BY DEF ReadWith
<1>7. ReadWith(n, chunk, turns) = n
  <2>1. CASE turns * chunk = n
    BY <2>1 DEF ReadWith
  <2>2. CASE turns * chunk # n
    BY <1>4, <1>5, <2>2 DEF ReadWith
  <2> QED BY <2>1, <2>2
<1>8. ASSUME NEW k \in 1..turns
      PROVE  /\ (k - 1) * chunk \in Nat /\ (k - 1) * chunk < n
             /\ k * chunk = (k - 1) * chunk + chunk
  <2>1. k \in Nat /\ k - 1 \in Nat /\ turns - k \in Nat
    BY <1>3
  <2>2. k * chunk = (k - 1) * chunk + chunk /\ (k - 1) * chunk \in Nat /\ k * chunk \in Nat
    BY <2>1
  <2>3. turns * chunk = k * chunk + (turns - k) * chunk /\ (turns - k) * chunk \in Nat
    BY <1>3, <2>1
  <2> QED BY <1>4, <1>5, <2>2, <2>3
<1> QED BY <1>3, <1>6, <1>7, <1>8

\* However large the chunks a file is read in, it is read as a whole.
LEMMA FileIsRead ==
  ASSUME NEW n \in Nat, NEW chunk \in Nat \ {0}
  PROVE  W!FileBlocks(n, chunk) = W!Final(ReadSoFar(n))
<1> DEFINE turns == (n + chunk - 1) \div chunk
           fresh == [data |-> <<>>, bits |-> 0, blocks |-> <<>>]
           part(k) == [i \in 1..(IF (k + 1) * chunk <= n THEN chunk ELSE n - k * chunk)
                         |-> W!Byte(k * chunk + i)]
           Def(f) == [k \in 0..((n + chunk - 1) \div chunk) |->
                        IF k = 0 THEN fresh ELSE W!Updated(f[k - 1], part(k - 1))]
           s == CHOOSE f : f = Def(f)
           g == [k \in 0..turns |-> ReadSoFar(ReadWith(n, chunk, k))]
<1>1. W!FileBlocks(n, chunk) = W!Final(s[turns])
  BY Zenon DEF W!FileBlocks
<1>2. /\ turns \in Nat /\ ReadWith(n, chunk, 0) = 0 /\ ReadWith(n, chunk, turns) = n
      /\ \A k \in 1..turns : /\ (k - 1) * chunk \in Nat /\ (k - 1) * chunk < n
                             /\ k * chunk = (k - 1) * chunk + chunk
  BY ChunksMeet
<1>3. ReadSoFar(0) = fresh
  <2>1. 0 \div 64 = 0 /\ 0 % 64 = 0 /\ 64 * 0 = 0 /\ 512 * 0 = 0
    BY SMT
  <2>2. FileBytes(0, 0) = <<>>
    BY DEF FileBytes
  <2>3. FileBlocksTo(0) = <<>>
    BY DEF FileBlocksTo
  <2>4. ReadSoFar(0) = [data |-> FileBytes(0, 0), bits |-> 0, blocks |-> FileBlocksTo(0)]
    BY <2>1, SMT DEF ReadSoFar, Known
  <2> QED BY <2>2, <2>3, <2>4
<1>4. ASSUME NEW k \in 1..turns
      PROVE  W!Updated(ReadSoFar(ReadWith(n, chunk, k - 1)), part(k - 1))
               = ReadSoFar(ReadWith(n, chunk, k))
  <2>1. PICK m \in Nat : m = (k - 1) * chunk
    BY <1>2
  <2>2. /\ m < n /\ k * chunk = m + chunk /\ k - 1 + 1 = k
    BY <1>2, <2>1
  <2>3. PICK c \in Nat : c = IF k * chunk <= n THEN chunk ELSE n - m
    <3> DEFINE c == IF k * chunk <= n THEN chunk ELSE n - m
    <3>1. c \in Nat
      <4>1. n - m \in Nat
        BY <2>2
      <4> QED BY <4>1
    <3> QED BY <3>1
  <2>4. part(k - 1) = FileBytes(m, c)
    <3>1. (k - 1 + 1) * chunk = k * chunk
      BY <2>2, Zenon
    <3> QED BY <2>1, <2>3, <3>1, Zenon DEF FileBytes
  <2>5. ReadWith(n, chunk, k - 1) = m
    BY <2>1, <2>2 DEF ReadWith
  <2>6. ReadWith(n, chunk, k) = m + c
    BY <2>2, <2>3 DEF ReadWith
  <2> HIDE DEF part
  <2> QED BY <2>4, <2>5, <2>6, UpdatedIs, Zenon
<1> HIDE DEF part, fresh
<1>5. g = Def(g)
  <2>1. ASSUME NEW k \in 0..turns
        PROVE  ReadSoFar(ReadWith(n, chunk, k)) = IF k = 0 THEN fresh ELSE W!Updated(g[k - 1], part(k - 1))
    <3>1. CASE k = 0
      BY <1>2, <1>3, <3>1, Zenon
    <3>2. CASE k # 0
      <4>1. k \in 1..turns /\ k - 1 \in 0..turns
        <5> HIDE DEF turns
        <5> QED BY <1>2, <3>2
      <4>2. g[k - 1] = ReadSoFar(ReadWith(n, chunk, k - 1))
        BY <4>1, Zenon
      <4> HIDE DEF g
      <4> QED BY <1>4, <3>2, <4>1, <4>2, Zenon
    <3> QED BY <3>1, <3>2
  <2> QED BY <2>1, Zenon
<1>6. s = Def(s)
  <2> HIDE DEF g
  <2> QED BY <1>5, Zenon
<1> HIDE DEF s
<1>7. \A k \in 0..turns : s[k] = IF k = 0 THEN fresh ELSE W!Updated(s[k - 1], part(k - 1))
  BY <1>6, Zenon
<1> HIDE DEF Def, turns
<1>8. \A k \in 0..turns : s[k] = ReadSoFar(ReadWith(n, chunk, k))
  <2> DEFINE P == {k \in 0..turns : s[k] = ReadSoFar(ReadWith(n, chunk, k))}
  <2>1. 0 \in P
    <3>1. 0 \in 0..turns
      BY <1>2
    <3> QED BY <1>2, <1>3, <1>7, <3>1, Zenon
  <2>2. ASSUME NEW k \in 1..turns, k - 1 \in P PROVE k \in P
    <3>1. k \in 0..turns /\ k # 0
      BY <1>2
    <3> QED BY <1>4, <1>7, <2>2, <3>1, Zenon
  <2> HIDE DEF P
  <2>3. \A k \in 0..turns : k \in P
    BY <1>2, <2>1, <2>2, InductionUpTo
  <2> QED BY <2>3, Zenon DEF P
<1>9. turns \in 0..turns
  BY <1>2
<1>10. s[turns] = ReadSoFar(n)
  BY <1>2, <1>8, <1>9, Zenon
<1> QED BY <1>1, <1>10, Zenon

\* What is compressed for a file of n bytes: its i-th byte of size.
Zero == W!Zeros(1)[1]
Content(n, size, i) ==
  IF i <= n THEN W!Byte(i)
  ELSE IF i = n + 1 THEN W!Pad
  ELSE IF i <= size - 8 THEN Zero
  ELSE W!Length(8 * n)[i - (size - 8)]

\* t is the b-th block of it.
BlockHolds(t, n, size, b) ==
  /\ IsSequence(t, 64)
  /\ \A j \in 1..64 : t[j] = Content(n, size, 64 * (b - 1) + j)

\* A block of the file is one.
LEMMA FileBlockHolds ==
  ASSUME NEW n \in Nat, NEW size, NEW b \in Nat \ {0}, 64 * b <= n
  PROVE  BlockHolds(FileBlock(b), n, size, b)
<1> DEFINE t == FileBlock(b)
<1>1. PICK m \in Nat : m = 64 * (b - 1)
  OBVIOUS
<1>2. PICK w \in Nat : w = 64
  OBVIOUS
<1>3. t = FileBytes(m, w)
  BY <1>1, <1>2, SMT DEF FileBlock
<1> HIDE DEF t
<1>4. IsSequence(t, w) /\ \A j \in 1..w : t[j] = W!Byte(m + j)
  <2>1. AreBytes(t, m, w)
    BY <1>3, FileBytesAre, Zenon
  <2> QED BY <2>1, Zenon DEF AreBytes
<1>5. ASSUME NEW j \in 1..64 PROVE t[j] = Content(n, size, 64 * (b - 1) + j)
  <2>1. j \in 1..w /\ m + j = 64 * (b - 1) + j /\ m + j <= n
    BY <1>1, <1>2
  <2>2. t[j] = W!Byte(m + j)
    BY <1>4, <2>1, Zenon
  <2> QED BY <2>1, <2>2, SMT DEF Content
<1>6. BlockHolds(t, n, size, b)
  BY <1>2, <1>4, <1>5, SMT DEF BlockHolds
<1> QED BY <1>6 DEF t

\* One more behind a sequence.
LEMMA Appended ==
  ASSUME NEW a, NEW m \in Nat, IsSequence(a, m), NEW x
  PROVE  IsBoth(Append(a, x), a, m, <<x>>, 1)
<1>1. a \in Seq({a[i] : i \in 1..m} \cup {x})
  <2> DEFINE S == {a[i] : i \in 1..m}
  <2>1. a \in Seq(S)
    BY LengthIs, Zenon
  <2> HIDE DEF S
  <2>2. a \in Seq(S \cup {x})
    BY <2>1
  <2> QED BY <2>2 DEF S
<1>2. Append(a, x) = a \o <<x>>
  <2> DEFINE T == {a[i] : i \in 1..m} \cup {x}
  <2>1. a \in Seq(T) /\ x \in T
    BY <1>1
  <2> HIDE DEF T
  <2> QED BY <2>1
<1>3. IsSequence(<<x>>, 1)
  BY DEF IsSequence
<1>4. 1 \in Nat
  OBVIOUS
<1>5. IsBoth(a \o <<x>>, a, m, <<x>>, 1)
  BY <1>3, <1>4, Joined, Zenon
<1> QED BY <1>2, <1>5, Zenon

\* Zeros.
LEMMA ZerosAre ==
  ASSUME NEW z \in Nat
  PROVE  IsSequence(W!Zeros(z), z) /\ \A i \in 1..z : W!Zeros(z)[i] = Zero
<1>1. Zero = <<"zero", 0, 0>>
  BY DEF Zero, W!Zeros
<1> QED BY <1>1, Zenon DEF W!Zeros, IsSequence

\* t are the r bytes of a file behind the first m, the padding bit and z zeros.
IsPadded(t, m, r, z) ==
  /\ IsSequence(t, r + 1 + z)
  /\ \A j \in 1..r : t[j] = W!Byte(m + j)
  /\ t[r + 1] = W!Pad
  /\ \A j \in 1..z : t[r + 1 + j] = Zero

\* What the padding makes is that.
LEMMA PaddedIs ==
  ASSUME NEW m \in Nat, NEW r \in Nat, NEW z \in Nat
  PROVE  IsPadded(Append(FileBytes(m, r), W!Pad) \o W!Zeros(z), m, r, z)
<1> DEFINE f == FileBytes(m, r)
           d == Append(f, W!Pad)
           o == W!Zeros(z)
           t == d \o o
           p == <<W!Pad>>
<1>1. IsSequence(f, r) /\ \A j \in 1..r : f[j] = W!Byte(m + j)
  BY FileBytesAre, Zenon DEF AreBytes
<1> HIDE DEF f
<1>2. IsBoth(d, f, r, p, 1) /\ p[1] = W!Pad
  BY <1>1, Appended, Zenon
<1>3. IsSequence(o, z) /\ \A j \in 1..z : o[j] = Zero
  BY ZerosAre, Zenon
<1> HIDE DEF d, o, p
<1>4. IsSequence(d, r + 1)
  BY <1>2, Zenon DEF IsBoth
<1>5. r + 1 \in Nat
  OBVIOUS
<1>6. IsBoth(t, d, r + 1, o, z)
  BY <1>3, <1>4, <1>5, Joined, Zenon
<1> HIDE DEF t
<1>7. IsSequence(t, r + 1 + z)
  BY <1>6, Zenon DEF IsBoth
<1>8. ASSUME NEW j \in 1..r PROVE t[j] = W!Byte(m + j)
  <2>1. j \in 1..(r + 1)
    OBVIOUS
  <2> QED BY <1>1, <1>2, <1>6, <2>1, Zenon DEF IsBoth
<1>9. t[r + 1] = W!Pad
  <2>1. r + 1 \in 1..(r + 1) /\ 1 \in 1..1
    OBVIOUS
  <2>2. t[r + 1] = d[r + 1] /\ d[r + 1] = p[1]
    BY <1>2, <1>6, <2>1, Zenon DEF IsBoth
  <2> QED BY <1>2, <2>2, Zenon
<1>10. \A j \in 1..z : t[r + 1 + j] = Zero
  BY <1>3, <1>6, Zenon DEF IsBoth
<1>11. IsPadded(t, m, r, z)
  BY <1>7, <1>8, <1>9, <1>10, Zenon DEF IsPadded
<1> QED BY <1>11 DEF t, d, f, o

\* The length of a file, as it is compressed.
LEMMA LengthsAre == \A bits : IsSequence(W!Length(bits), 8)
  BY Zenon DEF W!Length, IsSequence

\* The last block when the padding and the length fit into one.
LEMMA LastOfOne ==
  ASSUME NEW n \in Nat, NEW q \in Nat, NEW r \in Nat, n = 64 * q + r, r <= 55
  PROVE  BlockHolds(Append(FileBytes(64 * q, r), W!Pad) \o W!Zeros(56 - (r + 1)) \o W!Length(8 * n),
                    n, 64 * (q + 1), q + 1)
<1> DEFINE t == Append(FileBytes(64 * q, r), W!Pad) \o W!Zeros(56 - (r + 1))
           l == W!Length(8 * n)
           u == t \o l
<1>1. PICK m \in Nat : m = 64 * q
  OBVIOUS
<1>2. PICK z \in Nat : z = 56 - (r + 1)
  OBVIOUS
<1>3. IsPadded(t, m, r, z)
  <2>1. t = Append(FileBytes(m, r), W!Pad) \o W!Zeros(z)
    BY <1>1, <1>2
  <2> HIDE DEF t
  <2> QED BY <2>1, PaddedIs, Zenon
<1> HIDE DEF t
<1>4. PICK e \in Nat : e = 8
  OBVIOUS
<1>5. IsSequence(l, e)
  BY <1>4, LengthsAre, SMT
<1>6. PICK len \in Nat : len = r + 1 + z
  OBVIOUS
<1> HIDE DEF l
<1>7. IsBoth(u, t, len, l, e)
  <2>1. IsSequence(t, len)
    BY <1>3, <1>6, Zenon DEF IsPadded
  <2> QED BY <1>5, <2>1, Joined, Zenon
<1> HIDE DEF u
<1>8. len = 56 /\ len + e = 64
  BY <1>2, <1>4, <1>6
<1>9. /\ IsSequence(u, len + e)
      /\ \A j \in 1..len : u[j] = t[j]
      /\ \A j \in 1..e : u[len + j] = l[j]
  BY <1>7, Zenon DEF IsBoth
<1>10. /\ \A j \in 1..r : t[j] = W!Byte(m + j)
       /\ t[r + 1] = W!Pad
       /\ \A j \in 1..z : t[r + 1 + j] = Zero
  BY <1>3, Zenon DEF IsPadded
<1>11. ASSUME NEW j \in 1..64 PROVE u[j] = Content(n, 64 * (q + 1), m + j)
  <2>1. CASE j \in 1..r
    <3>1. j \in 1..len /\ m + j <= n
      BY <1>1, <1>8, <2>1
    <3> QED BY <1>9, <1>10, <2>1, <3>1, SMT DEF Content
  <2>2. CASE j = r + 1
    <3>1. j \in 1..len /\ m + j = n + 1 /\ ~(m + j <= n)
      BY <1>1, <1>8, <2>2
    <3>2. u[j] = W!Pad
      BY <1>9, <1>10, <2>2, <3>1, Zenon
    <3> QED BY <3>1, <3>2, SMT DEF Content
  <2>3. CASE j \in (r + 2)..56
    <3>1. PICK k \in 1..z : j = r + 1 + k
      <4>1. j - (r + 1) \in 1..z /\ j = r + 1 + (j - (r + 1))
        BY <1>2, <2>3
      <4> QED BY <4>1
    <3>2. j \in 1..len /\ ~(m + j <= n) /\ m + j # n + 1 /\ m + j <= 64 * (q + 1) - 8
      BY <1>1, <1>8, <2>3
    <3>3. u[j] = Zero
      BY <1>9, <1>10, <3>1, <3>2, Zenon
    <3> QED BY <3>2, <3>3, SMT DEF Content
  <2>4. CASE j \in 57..64
    <3>1. PICK k \in 1..e : j = len + k
      <4>1. j - len \in 1..e /\ j = len + (j - len)
        BY <1>4, <1>8, <2>4
      <4> QED BY <4>1
    <3>2. /\ ~(m + j <= n) /\ m + j # n + 1 /\ ~(m + j <= 64 * (q + 1) - 8)
          /\ (m + j) - (64 * (q + 1) - 8) = k
      BY <1>1, <1>4, <1>8, <2>4, <3>1
    <3>3. u[j] = W!Length(8 * n)[k]
      BY <1>9, <3>1, Zenon DEF l
    <3> QED BY <3>2, <3>3, SMT DEF Content
  <2> QED BY <2>1, <2>2, <2>3, <2>4
<1>12. 64 * (q + 1 - 1) = m /\ 64 * ((q + 1) - 1) = m
  BY <1>1
<1>13. BlockHolds(u, n, 64 * (q + 1), q + 1)
  BY <1>8, <1>9, <1>11, <1>12, SMT DEF BlockHolds
<1> QED BY <1>13 DEF u, t, l

\* The first of the last two blocks when they do not.
LEMMA FirstOfTwo ==
  ASSUME NEW n \in Nat, NEW q \in Nat, NEW r \in Nat, n = 64 * q + r, r \in 56..63
  PROVE  BlockHolds(Append(FileBytes(64 * q, r), W!Pad) \o W!Zeros(64 - (r + 1)),
                    n, 64 * (q + 2), q + 1)
<1> DEFINE t == Append(FileBytes(64 * q, r), W!Pad) \o W!Zeros(64 - (r + 1))
<1>1. PICK m \in Nat : m = 64 * q
  OBVIOUS
<1>2. PICK z \in Nat : z = 64 - (r + 1)
  OBVIOUS
<1>3. IsPadded(t, m, r, z)
  <2>1. t = Append(FileBytes(m, r), W!Pad) \o W!Zeros(z)
    BY <1>1, <1>2
  <2> HIDE DEF t
  <2> QED BY <2>1, PaddedIs, Zenon
<1> HIDE DEF t
<1>4. r + 1 + z = 64
  BY <1>2
<1>5. /\ IsSequence(t, 64)
      /\ \A j \in 1..r : t[j] = W!Byte(m + j)
      /\ t[r + 1] = W!Pad
      /\ \A j \in 1..z : t[r + 1 + j] = Zero
  BY <1>3, <1>4, SMT DEF IsPadded
<1>6. ASSUME NEW j \in 1..64 PROVE t[j] = Content(n, 64 * (q + 2), m + j)
  <2>1. CASE j \in 1..r
    <3>1. m + j <= n
      BY <1>1, <2>1
    <3> QED BY <1>5, <2>1, <3>1, SMT DEF Content
  <2>2. CASE j = r + 1
    <3>1. m + j = n + 1 /\ ~(m + j <= n)
      BY <1>1, <2>2
    <3> QED BY <1>5, <2>2, <3>1, SMT DEF Content
  <2>3. CASE j \in (r + 2)..64
    <3>1. PICK k \in 1..z : j = r + 1 + k
      <4>1. j - (r + 1) \in 1..z /\ j = r + 1 + (j - (r + 1))
        BY <1>2, <2>3
      <4> QED BY <4>1
    <3>2. ~(m + j <= n) /\ m + j # n + 1 /\ m + j <= 64 * (q + 2) - 8
      BY <1>1, <2>3
    <3>3. t[j] = Zero
      BY <1>5, <3>1
    <3> QED BY <3>2, <3>3, SMT DEF Content
  <2> QED BY <2>1, <2>2, <2>3
<1>7. 64 * (q + 1 - 1) = m
  BY <1>1
<1>8. BlockHolds(t, n, 64 * (q + 2), q + 1)
  BY <1>5, <1>6, <1>7, SMT DEF BlockHolds
<1> QED BY <1>8 DEF t

\* The second holds the length.
LEMMA SecondOfTwo ==
  ASSUME NEW n \in Nat, NEW q \in Nat, NEW r \in Nat, n = 64 * q + r, r \in 56..63
  PROVE  BlockHolds(W!Zeros(56) \o W!Length(8 * n), n, 64 * (q + 2), q + 2)
<1> DEFINE t == W!Zeros(56)
           l == W!Length(8 * n)
           u == t \o l
<1>1. PICK len \in Nat : len = 56
  OBVIOUS
<1>2. PICK e \in Nat : e = 8
  OBVIOUS
<1>3. /\ IsSequence(t, len) /\ IsSequence(l, e)
      /\ \A j \in 1..len : t[j] = Zero
  <2>1. IsSequence(l, e)
    BY <1>2, LengthsAre, SMT
  <2>2. t = W!Zeros(len)
    BY <1>1, SMT
  <2> HIDE DEF t
  <2> QED BY <2>1, <2>2, ZerosAre, Zenon
<1> HIDE DEF t, l
<1>4. IsBoth(u, t, len, l, e)
  BY <1>3, Joined, Zenon
<1> HIDE DEF u
<1>5. /\ IsSequence(u, len + e)
      /\ \A j \in 1..len : u[j] = Zero
      /\ \A j \in 1..e : u[len + j] = l[j]
  BY <1>3, <1>4, Zenon DEF IsBoth
<1>6. ASSUME NEW j \in 1..64 PROVE u[j] = Content(n, 64 * (q + 2), 64 * (q + 1) + j)
  <2>1. ~(64 * (q + 1) + j <= n) /\ 64 * (q + 1) + j # n + 1
    OBVIOUS
  <2>2. CASE j \in 1..56
    <3>1. j \in 1..len /\ 64 * (q + 1) + j <= 64 * (q + 2) - 8
      BY <1>1, <2>2
    <3> QED BY <1>5, <2>1, <3>1, SMT DEF Content
  <2>3. CASE j \in 57..64
    <3>1. PICK k \in 1..e : j = len + k
      <4>1. j - len \in 1..e /\ j = len + (j - len)
        BY <1>1, <1>2, <2>3
      <4> QED BY <4>1
    <3>2. /\ ~(64 * (q + 1) + j <= 64 * (q + 2) - 8)
          /\ (64 * (q + 1) + j) - (64 * (q + 2) - 8) = k
      BY <1>1, <2>3, <3>1
    <3>3. u[j] = W!Length(8 * n)[k]
      BY <1>5, <3>1, Zenon DEF l
    <3> QED BY <2>1, <3>2, <3>3, SMT DEF Content
  <2> QED BY <2>2, <2>3
<1>7. 64 * (q + 2 - 1) = 64 * (q + 1) /\ len + e = 64
  BY <1>1, <1>2
<1>8. BlockHolds(u, n, 64 * (q + 2), q + 2)
  BY <1>5, <1>6, <1>7, SMT DEF BlockHolds
<1> QED BY <1>8 DEF u, t, l

\* blocks are count blocks, and they are those of a file of n bytes.
FileHolds(blocks, count, n) ==
  /\ IsSequence(blocks, count)
  /\ \A b \in 1..count : BlockHolds(blocks[b], n, 64 * count, b)

\* count blocks hold a file of n bytes, the mark behind it and its length, and
\* no fewer do.
Fewest(count, n) == 64 * count - (n + 9) \in 0..63

\* The padding makes as few blocks of a file as there can be.
LEMMA FinalHolds ==
  ASSUME NEW n \in Nat
  PROVE  \E count \in Nat : Fewest(count, n) /\ FileHolds(W!Final(ReadSoFar(n)), count, n)
<1>1. PICK q \in Nat : q = n \div 64
  BY Cut64
<1>2. PICK r \in Nat : r = n % 64 /\ r <= 63
  BY Cut64
<1>3. n = 64 * q + r
  BY <1>1, <1>2, Cut64, Zenon
<1> DEFINE f == FileBytes(64 * q, r)
           before == FileBlocksTo(q)
           d == Append(f, W!Pad)
           l == W!Length(8 * n)
<1>4. /\ IsSequence(before, q)
      /\ \A size : \A b \in 1..q : BlockHolds(before[b], n, size, b)
  <2>1. IsSequence(before, q) /\ \A b \in 1..q : before[b] = FileBlock(b)
    BY Zenon DEF IsSequence, FileBlocksTo
  <2> HIDE DEF before
  <2>2. \A b \in 1..q : b \in Nat \ {0} /\ 64 * b <= n
    BY <1>3
  <2> QED BY <2>1, <2>2, FileBlockHolds, Zenon
<1>5. Len(f) = r /\ Len(d) = r + 1
  <2>1. PICK m \in Nat : m = 64 * q
    OBVIOUS
  <2>2. f = FileBytes(m, r)
    BY <2>1, Zenon
  <2>3. IsSequence(f, r)
    BY <2>2, FileBytesAre, Zenon DEF AreBytes
  <2> HIDE DEF f
  <2>4. IsSequence(d, r + 1)
    BY <2>3, Appended, Zenon DEF IsBoth
  <2>5. r + 1 \in Nat
    OBVIOUS
  <2> HIDE DEF d
  <2> QED BY <2>3, <2>4, <2>5, LengthIs, Zenon
<1>6. W!Final(ReadSoFar(n)) =
        IF r + 1 > 56 THEN before \o <<d \o W!Zeros(64 - (r + 1)), W!Zeros(56) \o l>>
                      ELSE Append(before, d \o W!Zeros(56 - (r + 1)) \o l)
  <2> DEFINE s == ReadSoFar(n)
  <2>1. s.data = f /\ s.bits = 512 * q /\ s.blocks = before
    BY <1>1, <1>2, SMT DEF ReadSoFar, Known
  <2> HIDE DEF s, before, f
  <2>2. s.bits + 8 * Len(s.data) = 8 * n
    BY <1>3, <1>5, <2>1, SMT
  <2>3. Append(s.data, W!Pad) = d
    BY <2>1
  <2> HIDE DEF d
  <2>4. Len(Append(s.data, W!Pad)) = r + 1
    BY <1>5, <2>3
  <2>5. W!Final(s) =
          IF r + 1 > 56 THEN s.blocks \o <<d \o W!Zeros(64 - (r + 1)), W!Zeros(56) \o l>>
                        ELSE Append(s.blocks, d \o W!Zeros(56 - (r + 1)) \o l)
    BY <2>2, <2>3, <2>4, Zenon DEF W!Final
  <2> QED BY <2>1, <2>5, Zenon DEF s
<1> HIDE DEF before
<1>7. CASE r <= 55
  <2> DEFINE t == d \o W!Zeros(56 - (r + 1)) \o l
             blocks == Append(before, t)
  <2>1. BlockHolds(t, n, 64 * (q + 1), q + 1)
    BY <1>3, <1>7, LastOfOne
  <2>2. W!Final(ReadSoFar(n)) = blocks
    <3> HIDE DEF t, d
    <3>1. ~(r + 1 > 56)
      BY <1>7
    <3> QED BY <1>6, <3>1 DEF t
  <2> HIDE DEF t
  <2>3. /\ IsSequence(blocks, q + 1) /\ \A b \in 1..q : blocks[b] = before[b]
        /\ blocks[q + 1] = t
    <3> DEFINE one == <<t>>
    <3>1. one[1] = t /\ 1 \in 1..1
      OBVIOUS
    <3>2. IsBoth(blocks, before, q, one, 1)
      BY <1>4, Appended, Zenon
    <3> HIDE DEF one, blocks
    <3> QED BY <3>1, <3>2, Zenon DEF IsBoth
  <2> HIDE DEF blocks
  <2>4. ASSUME NEW b \in 1..(q + 1) PROVE BlockHolds(blocks[b], n, 64 * (q + 1), b)
    <3>1. b \in 1..q \/ b = q + 1
      OBVIOUS
    <3> QED BY <1>4, <2>1, <2>3, <3>1, Zenon
  <2>5. FileHolds(blocks, q + 1, n)
    BY <2>3, <2>4, Zenon DEF FileHolds
  <2>6. q + 1 \in Nat /\ Fewest(q + 1, n)
    BY <1>3, <1>7, SMT DEF Fewest
  <2> QED BY <2>2, <2>5, <2>6, Zenon
<1>8. CASE r > 55
  <2> DEFINE t == d \o W!Zeros(64 - (r + 1))
             u == W!Zeros(56) \o l
             two == <<t, u>>
             blocks == before \o two
  <2>0. r \in 56..63
    BY <1>2, <1>8
  <2>1. BlockHolds(t, n, 64 * (q + 2), q + 1)
    BY <1>3, <2>0, FirstOfTwo
  <2>2. BlockHolds(u, n, 64 * (q + 2), q + 2)
    BY <1>3, <2>0, SecondOfTwo
  <2>3. W!Final(ReadSoFar(n)) = blocks
    <3> HIDE DEF t, u, d
    <3>1. r + 1 > 56
      BY <1>8
    <3> QED BY <1>6, <3>1 DEF t, u
  <2> HIDE DEF t, u
  <2>4. /\ IsSequence(blocks, q + 2) /\ \A b \in 1..q : blocks[b] = before[b]
        /\ blocks[q + 1] = t /\ blocks[q + 2] = u
    <3>1. two[1] = t /\ two[2] = u /\ 1 \in 1..2 /\ 2 \in 1..2 /\ 2 \in Nat
      OBVIOUS
    <3>2. IsSequence(two, 2)
      BY DEF IsSequence
    <3> HIDE DEF two
    <3>3. IsBoth(blocks, before, q, two, 2)
      BY <1>4, <3>1, <3>2, Joined, Zenon
    <3> HIDE DEF blocks
    <3> QED BY <3>1, <3>3, Zenon DEF IsBoth
  <2> HIDE DEF blocks
  <2>5. ASSUME NEW b \in 1..(q + 2) PROVE BlockHolds(blocks[b], n, 64 * (q + 2), b)
    <3>1. b \in 1..q \/ b = q + 1 \/ b = q + 2
      OBVIOUS
    <3> QED BY <1>4, <2>1, <2>2, <2>4, <3>1, Zenon
  <2>6. FileHolds(blocks, q + 2, n)
    BY <2>4, <2>5, Zenon DEF FileHolds
  <2>7. q + 2 \in Nat /\ Fewest(q + 2, n)
    BY <1>3, <2>0, SMT DEF Fewest
  <2> QED BY <2>3, <2>6, <2>7, Zenon
<1> QED BY <1>7, <1>8

\* What is compressed for a file, however it is read.
LEMMA DigestIs ==
  ASSUME NEW n \in Nat, NEW chunk \in Nat \ {0}
  PROVE  W!DigestIsStandard(n, chunk)
<1> DEFINE blocks == W!FileBlocks(n, chunk)
           at(i) == blocks[((i - 1) \div 64) + 1][((i - 1) % 64) + 1]
           size == 64 * Len(blocks)
<1>0. PICK count \in Nat : Fewest(count, n) /\ FileHolds(blocks, count, n)
  BY FileIsRead, FinalHolds, Zenon
<1>1. 64 * count - (n + 9) \in 0..63 /\ FileHolds(blocks, count, n)
  BY <1>0, Zenon DEF Fewest
<1> HIDE DEF blocks
<1>2. /\ Len(blocks) = count /\ DOMAIN blocks = 1..count
      /\ \A b \in 1..count : BlockHolds(blocks[b], n, 64 * count, b)
  <2>1. IsSequence(blocks, count) /\ \A b \in 1..count : BlockHolds(blocks[b], n, 64 * count, b)
    BY <1>1, Zenon DEF FileHolds
  <2>2. Len(blocks) = count
    BY <2>1, LengthIs, Zenon
  <2>3. DOMAIN blocks = 1..count
    BY <2>1, Zenon DEF IsSequence
  <2> QED BY <2>1, <2>2, <2>3
<1>3. ASSUME NEW b \in DOMAIN blocks PROVE Len(blocks[b]) = 64
  <2>1. PICK w \in Nat : w = 64
    OBVIOUS
  <2>2. IsSequence(blocks[b], w)
    BY <1>2, <2>1 DEF BlockHolds
  <2> QED BY <2>1, <2>2, LengthIs, Zenon
<1>4. ASSUME NEW i \in 1..(64 * count) PROVE at(i) = Content(n, 64 * count, i)
  <2>1. PICK b \in Nat : b = ((i - 1) \div 64) + 1
    <3>1. i - 1 \in Nat
      OBVIOUS
    <3>2. (i - 1) \div 64 \in Nat
      BY <3>1, Cut64
    <3> QED BY <3>2
  <2>2. PICK j \in Nat : j = ((i - 1) % 64) + 1
    <3>1. i - 1 \in Nat
      OBVIOUS
    <3>2. (i - 1) % 64 \in Nat
      BY <3>1, Cut64
    <3> QED BY <3>2
  <2>3. b \in 1..count /\ j \in 1..64 /\ 64 * (b - 1) + j = i
    BY <2>1, <2>2, Cut64
  <2>4. blocks[b][j] = Content(n, 64 * count, 64 * (b - 1) + j)
    <3>1. PICK t : t = blocks[b]
      OBVIOUS
    <3>2. BlockHolds(t, n, 64 * count, b)
      BY <1>2, <2>3, <3>1
    <3>3. t[j] = Content(n, 64 * count, 64 * (b - 1) + j)
      BY <2>3, <3>2, SMT DEF BlockHolds
    <3> QED BY <3>1, <3>3
  <2>5. at(i) = blocks[b][j]
    BY <2>1, <2>2
  <2> HIDE DEF at
  <2> QED BY <2>3, <2>4, <2>5
<1> HIDE DEF at
<1>5. ASSUME NEW i \in 1..n PROVE at(i) = W!Byte(i)
  <2>1. i \in 1..(64 * count) /\ i <= n
    BY <1>1
  <2> QED BY <1>4, <2>1, SMT DEF Content
<1>6. at(n + 1) = W!Pad
  <2>1. n + 1 \in 1..(64 * count) /\ ~(n + 1 <= n)
    BY <1>1
  <2> QED BY <1>4, <2>1, SMT DEF Content
<1>7. ASSUME NEW i \in (n + 2)..(64 * count - 8) PROVE at(i) = Zero
  <2>1. i \in 1..(64 * count) /\ ~(i <= n) /\ i # n + 1 /\ i <= 64 * count - 8
    BY <1>1
  <2> QED BY <1>4, <2>1, SMT DEF Content
<1>8. ASSUME NEW i \in 1..8 PROVE at(64 * count - 8 + i) = W!Length(8 * n)[i]
  <2>1. PICK p \in Nat : p = 64 * count - 8 + i
    BY <1>1
  <2>2. /\ p \in 1..(64 * count) /\ ~(p <= n) /\ p # n + 1 /\ ~(p <= 64 * count - 8)
        /\ p - (64 * count - 8) = i
    BY <1>1, <2>1
  <2>3. at(p) = W!Length(8 * n)[i]
    BY <1>4, <2>2, SMT DEF Content
  <2> QED BY <2>1, <2>3
<1>9. size = 64 * count
  BY <1>2
<1> HIDE DEF size
<1>10. /\ \A b \in DOMAIN blocks : Len(blocks[b]) = 64
       /\ size - (n + 9) \in 0..63
       /\ \A i \in 1..n : at(i) = W!Byte(i)
       /\ at(n + 1) = W!Pad
       /\ \A i \in (n + 2)..(size - 8) : at(i) = Zero
       /\ \A i \in 1..8 : at(size - 8 + i) = W!Length(8 * n)[i]
  BY <1>1, <1>3, <1>5, <1>6, <1>7, <1>8, <1>9
<1> QED BY <1>10, Zenon DEF W!DigestIsStandard, blocks, size, at, Zero

\* The content of a file is named by its SHA-256, however it is read (sha256_file
\* and its padding in wardveil_download_security.hpp): what is compressed is the
\* message, one padding bit, as few zeros as make whole blocks, and the length.
THEOREM DigestsAreStandard == CaseSpec => []DigestIsStandard
<1>1. AnyCase => DigestIsStandard
  <2> SUFFICES ASSUME AnyCase, case.kind = "digest"
               PROVE  W!DigestIsStandard(case.size, case.chunk)
    BY DEF DigestIsStandard
  <2>1. case.size \in Sizes /\ case.chunk \in Chunks
    BY DEF AnyCase
  <2>2. case.size \in Nat /\ case.chunk \in Nat \ {0}
    BY <2>1, InputAssumption, Zenon
  <2> QED BY <2>2, DigestIs, Zenon
<1> QED BY <1>1, CasesAreInputs, PTL
=============================================================================
