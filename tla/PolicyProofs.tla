---------------------------- MODULE PolicyProofs ----------------------------
(* What the policy decision guarantees whatever the files, the request and  *)
(* the gates are, and what remembering an approval can change.              *)
EXTENDS Policy, TLAPS

Policies == [entries : Entries, broken : BOOLEAN]
Subs == Cats \cup {None}
Forms == {"read", "missing", "level", "sub", "fallback",
          "goal-scope", "account-binding", "package-permission", "package-policy"}
Tags == {"vault-policy-invalid", "voice", "package"}
RuleText == [op : Ops, form : Forms, sub : Keys \cup {None}, level : Levels \cup {"odd"},
             tags : SUBSET Tags]
Evaluations == [level : {0, 3, 4, 5}, asks : BOOLEAN, blocked : BOOLEAN, rule : RuleText]

LEMMA RuleType ==
  ASSUME NEW op \in Ops, NEW form \in Forms, NEW sub \in Keys \cup {None},
         NEW level \in Levels \cup {"odd"}
  PROVE  /\ Rule(op, form, sub, level) \in RuleText
         /\ Rule(op, form, sub, level).op = op /\ Rule(op, form, sub, level).form = form
         /\ Rule(op, form, sub, level).sub = sub /\ Rule(op, form, sub, level).level = level
         /\ Rule(op, form, sub, level).tags = {}
BY DEF Rule, RuleText

LEMMA LoadType ==
  ASSUME NEW home \in Entries, NEW vault \in VaultFile
  PROVE  loadPolicies(home, vault) \in Policies
<1>1. vault.entries \in Entries
  BY DEF VaultFile
<1>2. Merged(home, vault.entries) \in Entries
  BY <1>1 DEF Merged, Entries
<1> QED
  BY <1>2 DEF loadPolicies, Policies

\* The rule an entry gives: its level is the one the entry holds.
LEMMA RuleForType ==
  ASSUME NEW entry \in Entry, NEW op \in Ops, NEW sub \in Subs
  PROVE  RuleFor(entry, op, sub) \in RuleText /\ RuleFor(entry, op, sub).tags = {}
         /\ RuleFor(entry, op, sub).form \in {"level", "sub", "fallback"}
         /\ RuleFor(entry, op, sub).op = op
<1>1. /\ \A k \in Keys : entry.of[k] # "absent" => entry.of[k] \in Levels \cup {"odd"}
      /\ entry.level \in Levels \cup {"odd"}
  BY DEF Entry
<1>2. sub # None => sub \in Keys
  BY DEF Subs, Keys
<1>3. Default \in Keys /\ "confirm" \in Levels
  BY DEF Keys, Levels
<1>4. CASE entry.kind = "level"
  BY <1>1, <1>4, RuleType DEF RuleFor, Forms
<1>5. CASE entry.kind # "level" /\ entry.kind = "map" /\ sub # None /\ entry.of[sub] # "absent"
  BY <1>1, <1>2, <1>5, RuleType DEF RuleFor, Forms
<1>6. CASE entry.kind # "level" /\ entry.kind = "map" /\ sub # None /\ entry.of[sub] = "absent"
           /\ entry.of[Default] # "absent"
  BY <1>1, <1>3, <1>6, RuleType DEF RuleFor, Forms
<1>7. CASE RuleFor(entry, op, sub) = Rule(op, "fallback", None, "confirm")
  BY <1>3, <1>7, RuleType DEF Forms
<1> QED
  BY <1>4, <1>5, <1>6, <1>7 DEF RuleFor

\* The two rules outside an entry.
LEMMA PlainRules ==
  ASSUME NEW op \in Ops
  PROVE  /\ Rule(op, "read", None, "always") \in RuleText
         /\ Rule(op, "missing", None, "confirm") \in RuleText
         /\ \A f \in Forms : Rule(op, f, None, "never") \in RuleText
BY RuleType DEF Levels, Forms

\* A level as a decision.
LEMMA EvaluationFields ==
  ASSUME NEW l, NEW r \in RuleText
  PROVE  /\ Evaluation(l, r) \in Evaluations /\ Evaluation(l, r).rule = r
         /\ Evaluation(l, r).asks <=> l \notin Unasked
         /\ Evaluation(l, r).blocked <=> l = "never"
<1>1. AutonomyLevel(l) \in {0, 3, 4, 5}
  BY DEF AutonomyLevel
<1> QED
  BY <1>1 DEF Evaluation, Evaluations

LEMMA EvaluateType ==
  ASSUME NEW p \in Policies, NEW op \in Ops, NEW sub \in Subs, NEW category
  PROVE  evaluate(p, op, sub, category) \in Evaluations
<1> DEFINE entry == p.entries[op]
           rule == RuleFor(entry, op, sub)
           demoted == p.broken /\ rule.level \in Unasked
           level == IF demoted THEN "confirm" ELSE rule.level
           named == IF demoted THEN [rule EXCEPT !.tags = {"vault-policy-invalid"}] ELSE rule
<1>1. entry \in Entry
  BY DEF Policies, Entries
<1>2. rule \in RuleText
  BY <1>1, RuleForType
<1>3. named \in RuleText
  BY <1>2 DEF RuleText, Tags
<1>4. CASE category = "read"
  BY <1>4, PlainRules, EvaluationFields DEF evaluate
<1>5. CASE category # "read" /\ entry.kind = "missing"
  BY <1>5, PlainRules, EvaluationFields DEF evaluate
<1>6. CASE category # "read" /\ entry.kind # "missing"
  <2>1. evaluate(p, op, sub, category) = Evaluation(level, named)
    BY <1>6 DEF evaluate
  <2> HIDE DEF named, level
  <2> QED
    BY <1>3, <2>1, EvaluationFields
<1> QED
  BY <1>4, <1>5, <1>6

\* A gate's answer is at least as strict as the evaluation it was given, and
\* where it lets the action run unasked it is that very evaluation.
Tightens(e, f) ==
  /\ f \in Evaluations
  /\ e.blocked => f = e
  /\ e.asks => f.asks \/ f.blocked
  /\ ~f.blocked /\ ~f.asks => f = e

\* A gate that blocks, and one that asks.
LEMMA Overlay ==
  ASSUME NEW e \in Evaluations, NEW r \in RuleText, NEW a \in BOOLEAN, NEW l \in {0, 3, 4, 5}
  PROVE  /\ Forbidden(e, r, a) \in Evaluations /\ Forbidden(e, r, a).blocked
         /\ [e EXCEPT !.asks = TRUE, !.rule = r] \in Evaluations
         /\ [e EXCEPT !.asks = TRUE, !.rule = r].asks
         /\ [e EXCEPT !.asks = TRUE, !.level = l, !.rule = r] \in Evaluations
         /\ [e EXCEPT !.asks = TRUE, !.level = l, !.rule = r].asks
BY DEF Evaluations, Forbidden

LEMMA TaggedType ==
  ASSUME NEW e \in Evaluations, NEW tag \in Tags
  PROVE  Tagged(e, tag) \in RuleText /\ tag \in Tagged(e, tag).tags
BY DEF Evaluations, RuleText, Tagged

LEMMA VoiceTightens ==
  ASSUME NEW e \in Evaluations, NEW voice
  PROVE  Tightens(e, applyVoiceAuthorization(e, voice))
<1> DEFINE f == [e EXCEPT !.asks = TRUE, !.rule = Tagged(e, "voice")]
           g == Forbidden(e, Tagged(e, "voice"), TRUE)
<1>1. f \in Evaluations /\ f.asks /\ g \in Evaluations /\ g.blocked
  BY TaggedType, Overlay DEF Tags
<1>2. \/ applyVoiceAuthorization(e, voice) = e
      \/ ~e.blocked /\ applyVoiceAuthorization(e, voice) = g
      \/ ~e.blocked /\ applyVoiceAuthorization(e, voice) = f
  BY DEF applyVoiceAuthorization
<1> HIDE DEF f, g
<1> QED
  BY <1>1, <1>2 DEF Tightens

LEMMA ScopeTightens ==
  ASSUME NEW e \in Evaluations, NEW op \in Ops, NEW goal, NEW category
  PROVE  Tightens(e, scoped(e, op, goal, category))
<1> DEFINE g == Forbidden(e, Rule(op, "goal-scope", None, "never"), FALSE)
<1>1. g \in Evaluations /\ g.blocked
  BY PlainRules, Overlay DEF Forms
<1>2. scoped(e, op, goal, category) = e \/ (~e.blocked /\ scoped(e, op, goal, category) = g)
  BY DEF scoped
<1> HIDE DEF g
<1> QED
  BY <1>1, <1>2 DEF Tightens

LEMMA BindingTightens ==
  ASSUME NEW e \in Evaluations, NEW op \in Ops, NEW bindingError
  PROVE  Tightens(e, bound(e, op, bindingError))
<1> DEFINE g == Forbidden(e, Rule(op, "account-binding", None, "never"), FALSE)
<1>1. g \in Evaluations /\ g.blocked
  BY PlainRules, Overlay DEF Forms
<1>2. bound(e, op, bindingError) = e \/ (~e.blocked /\ bound(e, op, bindingError) = g)
  BY DEF bound
<1> HIDE DEF g
<1> QED
  BY <1>1, <1>2 DEF Tightens

LEMMA AuthorityTightens ==
  ASSUME NEW e \in Evaluations, NEW op \in Ops, NEW authority
  PROVE  Tightens(e, applyPackageAuthority(e, op, authority))
<1> DEFINE g == Forbidden(e, Rule(op, "package-permission", None, "never"), FALSE)
           h == Forbidden(e, Rule(op, "package-policy", None, "never"), FALSE)
           l == IF e.level > 3 THEN e.level ELSE 3
           f == [e EXCEPT !.asks = TRUE, !.level = l, !.rule = Tagged(e, "package")]
<1>1. g \in Evaluations /\ g.blocked /\ h \in Evaluations /\ h.blocked
  BY PlainRules, Overlay DEF Forms
<1>2. l \in {0, 3, 4, 5}
  BY DEF Evaluations
<1>3. f \in Evaluations /\ f.asks
  BY <1>2, TaggedType, Overlay DEF Tags
<1>4. \/ applyPackageAuthority(e, op, authority) = e
      \/ ~e.blocked /\ applyPackageAuthority(e, op, authority) = f
      \/ ~e.blocked /\ applyPackageAuthority(e, op, authority) = g
      \/ ~e.blocked /\ applyPackageAuthority(e, op, authority) = h
  BY DEF applyPackageAuthority
<1> HIDE DEF f, g, h
<1> QED
  BY <1>1, <1>3, <1>4 DEF Tightens

LEMMA TightensTransitive ==
  ASSUME NEW e \in Evaluations, NEW f \in Evaluations, NEW g, Tightens(e, f), Tightens(f, g)
  PROVE  Tightens(e, g)
BY DEF Tightens, Evaluations

LEMMA DecideTightens ==
  ASSUME NEW p \in Policies, NEW op \in Ops, NEW sub \in Subs, NEW category, NEW gate
  PROVE  Tightens(evaluate(p, op, sub, category), Decide(p, op, sub, category, gate))
<1> DEFINE e == evaluate(p, op, sub, category)
           v == applyVoiceAuthorization(e, gate.voice)
           s == scoped(v, op, gate.goal, category)
           b == bound(s, op, gate.bindingError)
           d == applyPackageAuthority(b, op, gate.authority)
<1>1. e \in Evaluations
  BY EvaluateType
<1> HIDE DEF e
<1>2. Tightens(e, v)
  BY <1>1, VoiceTightens
<1>3. v \in Evaluations
  BY <1>2 DEF Tightens
<1> HIDE DEF v
<1>4. Tightens(v, s)
  BY <1>3, ScopeTightens
<1>5. s \in Evaluations
  BY <1>4 DEF Tightens
<1> HIDE DEF s
<1>6. Tightens(s, b)
  BY <1>5, BindingTightens
<1>7. b \in Evaluations
  BY <1>6 DEF Tightens
<1> HIDE DEF b
<1>8. Tightens(b, d)
  BY <1>7, AuthorityTightens
<1>9. Decide(p, op, sub, category, gate) = d
  BY DEF Decide, e, v, s, b
<1> HIDE DEF d
<1>10. Tightens(e, s)
  BY <1>1, <1>2, <1>3, <1>4, TightensTransitive
<1>11. Tightens(e, b)
  BY <1>1, <1>5, <1>6, <1>10, TightensTransitive
<1>12. Tightens(e, d)
  BY <1>1, <1>7, <1>8, <1>11, TightensTransitive
<1> QED
  BY <1>9, <1>12 DEF e

\* However voice, goal, account and package gates answer, the decision an action
\* is recorded with is at least as strict as the policy's own: no gate turns a
\* blocked action into a question, or a question into an approval
\* (agent.js's chain over applyVoiceAuthorization and applyPackageAuthority).
THEOREM GatesOnlyTighten ==
  ASSUME NEW p \in Policies, NEW op \in Ops, NEW sub \in Subs, NEW category, NEW gate \in Gate
  PROVE  Strictness(Decide(p, op, sub, category, gate)) >= Strictness(evaluate(p, op, sub, category))
<1> DEFINE e == evaluate(p, op, sub, category)
           d == Decide(p, op, sub, category, gate)
<1>1. e \in Evaluations
  BY EvaluateType
<1>2. Tightens(e, d)
  BY DecideTightens
<1> SUFFICES Strictness(d) >= Strictness(e)
  OBVIOUS
<1> HIDE DEF e, d
<1>3. d \in Evaluations
  BY <1>2 DEF Tightens
<1>4. Strictness(e) \in {0, 1, 2} /\ Strictness(d) \in {0, 1, 2}
  BY DEF Strictness
<1>5. CASE e.blocked
  <2>1. d = e
    BY <1>2, <1>5 DEF Tightens
  <2> QED
    BY <1>4, <2>1
<1>6. CASE ~e.blocked /\ e.asks
  <2>1. d.asks \/ d.blocked
    BY <1>2, <1>6 DEF Tightens
  <2>2. Status(d) # "approved" /\ Status(e) = "pending"
    BY <1>6, <2>1 DEF Status
  <2> QED
    BY <1>4, <2>2 DEF Strictness
<1>7. CASE ~e.blocked /\ ~e.asks
  <2>1. Strictness(e) = 0
    BY <1>7 DEF Strictness, Status
  <2> QED
    BY <1>4, <2>1
<1> QED
  BY <1>5, <1>6, <1>7

\* What runs without a question passed every gate: a goal's run only reads, in the
\* goal's domains, while the goal stands; the account is bound; a package was
\* granted the permission and its policy, if one is named, is met and automatic;
\* a voice under its threshold only reaches what is always allowed.
THEOREM UnaskedPassedEveryGate ==
  ASSUME NEW p \in Policies, NEW op \in Ops, NEW sub \in Subs, NEW category, NEW gate \in Gate,
         Status(Decide(p, op, sub, category, gate)) = "approved"
  PROVE  /\ Status(evaluate(p, op, sub, category)) = "approved"
         /\ gate.goal.linked => category = "read" /\ gate.goal.current /\ gate.goal.inScope
         /\ ~gate.bindingError
         /\ gate.authority.package =>
              /\ gate.authority.allowed
              /\ gate.authority.named => /\ gate.authority.policy.defined /\ gate.authority.policy.met
                                         /\ Mode(gate.authority.policy) = "automatic"
         /\ gate.voice.spoken /\ evaluate(p, op, sub, category).level # 0 =>
              ~gate.voice.low /\ ~gate.voice.privateLow
<1> DEFINE e == evaluate(p, op, sub, category)
           v == applyVoiceAuthorization(e, gate.voice)
           s == scoped(v, op, gate.goal, category)
           b == bound(s, op, gate.bindingError)
           d == applyPackageAuthority(b, op, gate.authority)
<1>1. e \in Evaluations
  BY EvaluateType
<1>2. d = Decide(p, op, sub, category, gate)
  BY DEF Decide
<1>3. ~d.blocked /\ ~d.asks
  BY <1>2 DEF Status
<1> HIDE DEF e
<1>4. Tightens(e, v)
  BY <1>1, VoiceTightens
<1>5. v \in Evaluations
  BY <1>4 DEF Tightens
<1> HIDE DEF v
<1>6. Tightens(v, s)
  BY <1>5, ScopeTightens
<1>7. s \in Evaluations
  BY <1>6 DEF Tightens
<1> HIDE DEF s
<1>8. Tightens(s, b)
  BY <1>7, BindingTightens
<1>9. b \in Evaluations
  BY <1>8 DEF Tightens
<1> HIDE DEF b
<1>10. Tightens(b, d)
  BY <1>9, AuthorityTightens
<1>11. d = b
  BY <1>3, <1>10 DEF Tightens
<1>12. ~b.blocked /\ ~b.asks /\ b = s
  BY <1>3, <1>8, <1>11 DEF Tightens
<1>13. ~s.blocked /\ ~s.asks /\ s = v
  BY <1>6, <1>12 DEF Tightens
<1>14. ~v.blocked /\ ~v.asks /\ v = e
  BY <1>4, <1>13 DEF Tightens
<1>15. Status(e) = "approved"
  BY <1>14 DEF Status
<1>16. ~goalBlocked(gate.goal, category)
  <2>1. goalBlocked(gate.goal, category) => s = Forbidden(v, Rule(op, "goal-scope", None, "never"), FALSE)
    BY <1>14 DEF s, scoped
  <2>2. Forbidden(v, Rule(op, "goal-scope", None, "never"), FALSE).blocked
    BY <1>5, PlainRules, Overlay DEF Forms
  <2> QED
    BY <1>13, <2>1, <2>2
<1>17. ~gate.bindingError
  <2>1. gate.bindingError => b = Forbidden(s, Rule(op, "account-binding", None, "never"), FALSE)
    BY <1>13 DEF b, bound
  <2>2. Forbidden(s, Rule(op, "account-binding", None, "never"), FALSE).blocked
    BY <1>7, PlainRules, Overlay DEF Forms
  <2> QED
    BY <1>12, <2>1, <2>2
<1>18. ASSUME gate.authority.package
       PROVE  gate.authority.allowed /\ Verdict(gate.authority) \in {"none", "automatic"}
  <2>1. /\ Forbidden(b, Rule(op, "package-permission", None, "never"), FALSE).blocked
        /\ Forbidden(b, Rule(op, "package-policy", None, "never"), FALSE).blocked
    BY <1>9, PlainRules, Overlay DEF Forms
  <2>2. gate.authority.allowed
    BY <1>3, <1>12, <1>18, <2>1 DEF applyPackageAuthority
  <2>3. Verdict(gate.authority) # "deny"
    BY <1>3, <1>12, <1>18, <2>1, <2>2 DEF applyPackageAuthority
  <2>4. Verdict(gate.authority) # "approval"
    <3> DEFINE l == IF b.level > 3 THEN b.level ELSE 3
    <3>1. l \in {0, 3, 4, 5}
      BY <1>9 DEF Evaluations
    <3>2. [b EXCEPT !.asks = TRUE, !.level = l, !.rule = Tagged(b, "package")].asks
      BY <1>9, <3>1, TaggedType, Overlay DEF Tags
    <3> QED
      BY <1>3, <1>12, <1>18, <2>2, <3>2 DEF applyPackageAuthority
  <2> QED
    BY <2>2, <2>3, <2>4 DEF Verdict, evaluatePackagePolicy
<1>19. ASSUME gate.authority.package, gate.authority.named
       PROVE  /\ gate.authority.policy.defined /\ gate.authority.policy.met
              /\ Mode(gate.authority.policy) = "automatic"
  <2>1. evaluatePackagePolicy(gate.authority.policy) = "automatic"
    BY <1>18, <1>19 DEF Verdict, evaluatePackagePolicy
  <2>2. Mode(gate.authority.policy) \in Modes \ {"unset"}
    BY DEF Gate, Mode, Modes
  <2> QED
    BY <2>1, <2>2 DEF evaluatePackagePolicy, Modes
<1>20. ASSUME gate.voice.spoken, e.level # 0
       PROVE  ~gate.voice.low /\ ~gate.voice.privateLow
  <2>1. Forbidden(e, Tagged(e, "voice"), TRUE).blocked
    BY <1>1, TaggedType, Overlay DEF Tags
  <2>2. [e EXCEPT !.asks = TRUE, !.rule = Tagged(e, "voice")].asks
    BY <1>1, TaggedType, Overlay DEF Tags
  <2>3. ~gate.voice.privateLow
    BY <1>14, <1>20, <2>1 DEF v, applyVoiceAuthorization
  <2> QED
    BY <1>14, <1>20, <2>2, <2>3 DEF v, applyVoiceAuthorization
<1> QED
  BY <1>15, <1>16, <1>17, <1>18, <1>19, <1>20 DEF e, goalBlocked

\* The level an entry comes down to: a broken vault demotes what would run unasked.
Effective(p, op, sub) ==
  LET l == RuleFor(p.entries[op], op, sub).level
  IN IF p.broken /\ l \in Unasked THEN "confirm" ELSE l

LEMMA EvaluateEntry ==
  ASSUME NEW p \in Policies, NEW op \in Ops, NEW sub \in Subs, NEW category, category # "read",
         p.entries[op].kind # "missing"
  PROVE  /\ evaluate(p, op, sub, category).asks <=> Effective(p, op, sub) \notin Unasked
         /\ evaluate(p, op, sub, category).blocked <=> Effective(p, op, sub) = "never"
         /\ ~p.broken => evaluate(p, op, sub, category)
                           = Evaluation(Effective(p, op, sub), RuleFor(p.entries[op], op, sub))
<1> DEFINE rule == RuleFor(p.entries[op], op, sub)
           named == IF p.broken /\ rule.level \in Unasked
                    THEN [rule EXCEPT !.tags = {"vault-policy-invalid"}] ELSE rule
<1>1. rule \in RuleText
  BY RuleForType DEF Policies, Entries
<1>2. evaluate(p, op, sub, category) = Evaluation(Effective(p, op, sub), named)
  BY DEF evaluate, Effective
<1>3. named \in RuleText
  BY <1>1 DEF RuleText, Tags
<1>4. ~p.broken => named = rule
  OBVIOUS
<1> HIDE DEF named
<1> QED
  BY <1>2, <1>3, <1>4, EvaluationFields

LEMMA EvaluateMissing ==
  ASSUME NEW p, NEW op \in Ops, NEW sub, NEW category, category # "read",
         p.entries[op].kind = "missing"
  PROVE  /\ evaluate(p, op, sub, category) = Evaluation("confirm", Rule(op, "missing", None, "confirm"))
         /\ evaluate(p, op, sub, category).asks /\ ~evaluate(p, op, sub, category).blocked
<1>1. evaluate(p, op, sub, category) = Evaluation("confirm", Rule(op, "missing", None, "confirm"))
  BY DEF evaluate
<1> QED
  BY <1>1, PlainRules, EvaluationFields DEF Unasked

\* While the vault's policy file is there and cannot be used, nothing but a read
\* runs without a question, whatever the home policy and the gates say
\* (policies-loader.js fails closed: the broken file may have been the stricter).
THEOREM BrokenVaultAsks ==
  ASSUME NEW home \in Entries, NEW vault \in VaultFile, vault.present, ~Usable(vault),
         NEW op \in Ops, NEW sub \in Subs, NEW category, category # "read", NEW gate \in Gate
  PROVE  Status(Decide(loadPolicies(home, vault), op, sub, category, gate)) # "approved"
<1> DEFINE p == loadPolicies(home, vault)
           e == evaluate(p, op, sub, category)
<1>1. p \in Policies /\ p.broken
  BY LoadType DEF loadPolicies
<1> HIDE DEF p
<1>2. e.asks
  <2>1. CASE p.entries[op].kind = "missing"
    BY <2>1, EvaluateMissing
  <2>2. CASE p.entries[op].kind # "missing"
    <3>1. Effective(p, op, sub) \notin Unasked
      BY <1>1 DEF Effective, Unasked
    <3> QED
      BY <1>1, <2>2, <3>1, EvaluateEntry
  <2> QED
    BY <2>1, <2>2
<1>3. Tightens(e, Decide(p, op, sub, category, gate))
  BY <1>1, DecideTightens
<1> QED
  BY <1>2, <1>3 DEF Tightens, Status, p

\* What the owner's vault file puts at never, for the operation or for the target's
\* sub-category, is blocked whatever the home policy and the gates say.
THEOREM OwnersNeverStands ==
  ASSUME NEW home \in Entries, NEW vault \in VaultFile, vault.present, Usable(vault),
         NEW op \in Ops, NEW sub \in Subs, NEW category, category # "read", NEW gate \in Gate,
         \/ vault.entries[op].kind = "level" /\ vault.entries[op].level = "never"
         \/ vault.entries[op].kind = "map" /\ sub # None /\ vault.entries[op].of[sub] = "never"
  PROVE  Status(Decide(loadPolicies(home, vault), op, sub, category, gate)) = "blocked"
<1> DEFINE p == loadPolicies(home, vault)
           e == evaluate(p, op, sub, category)
<1>1. p \in Policies
  BY LoadType
<1>2. p.entries[op] = vault.entries[op]
  BY DEF loadPolicies, Merged
<1> HIDE DEF p
<1>3. RuleFor(p.entries[op], op, sub).level = "never"
  BY <1>2 DEF RuleFor, Rule
<1>4. Effective(p, op, sub) = "never"
  BY <1>3 DEF Effective, Unasked
<1>5. e.blocked
  BY <1>1, <1>2, <1>4, EvaluateEntry
<1>6. Tightens(e, Decide(p, op, sub, category, gate))
  BY <1>1, DecideTightens
<1>7. Decide(p, op, sub, category, gate).blocked
  BY <1>5, <1>6 DEF Tightens
<1> QED
  BY <1>7 DEF Status, p

\* A decision no gate has touched names a rule of the policy itself.
Touched(e) == e.rule.tags # {} \/ e.rule.form \notin {"missing", "level", "sub"}

\* Every gate answers with what it was given or with a rule of its own.
LEMMA GateTouches ==
  ASSUME NEW e \in Evaluations, NEW op \in Ops, NEW voice, NEW goal, NEW category,
         NEW bindingError, NEW authority
  PROVE  /\ applyVoiceAuthorization(e, voice) # e => Touched(applyVoiceAuthorization(e, voice))
         /\ scoped(e, op, goal, category) # e => Touched(scoped(e, op, goal, category))
         /\ bound(e, op, bindingError) # e => Touched(bound(e, op, bindingError))
         /\ applyPackageAuthority(e, op, authority) # e => Touched(applyPackageAuthority(e, op, authority))
<1>1. \A f \in Forms : Rule(op, f, None, "never").form = f
  BY DEF Rule
<1>2. \A r, a : Forbidden(e, r, a).rule = r
  BY DEF Forbidden, Evaluations
<1>3. \A r, l : /\ [e EXCEPT !.asks = TRUE, !.rule = r].rule = r
                /\ [e EXCEPT !.asks = TRUE, !.level = l, !.rule = r].rule = r
  BY DEF Evaluations
<1>4. \A t \in Tags : Tagged(e, t).tags # {}
  BY TaggedType
<1>5. applyVoiceAuthorization(e, voice) # e => Touched(applyVoiceAuthorization(e, voice))
  <2> DEFINE f == [e EXCEPT !.asks = TRUE, !.rule = Tagged(e, "voice")]
             g == Forbidden(e, Tagged(e, "voice"), TRUE)
  <2>1. f.rule.tags # {} /\ g.rule.tags # {}
    BY <1>2, <1>3, <1>4 DEF Tags
  <2>2. applyVoiceAuthorization(e, voice) \in {e, f, g}
    BY DEF applyVoiceAuthorization
  <2> HIDE DEF f, g
  <2> QED
    BY <2>1, <2>2 DEF Touched
<1>6. scoped(e, op, goal, category) # e => Touched(scoped(e, op, goal, category))
  BY <1>1, <1>2 DEF scoped, Touched, Forms
<1>7. bound(e, op, bindingError) # e => Touched(bound(e, op, bindingError))
  BY <1>1, <1>2 DEF bound, Touched, Forms
<1>8. applyPackageAuthority(e, op, authority) # e => Touched(applyPackageAuthority(e, op, authority))
  <2> DEFINE f == [e EXCEPT !.asks = TRUE, !.level = IF e.level > 3 THEN e.level ELSE 3,
                            !.rule = Tagged(e, "package")]
             g == Forbidden(e, Rule(op, "package-permission", None, "never"), FALSE)
             h == Forbidden(e, Rule(op, "package-policy", None, "never"), FALSE)
  <2>1. f.rule.tags # {}
    BY <1>3, <1>4 DEF Tags
  <2>2. g.rule.form = "package-permission" /\ h.rule.form = "package-policy"
    BY <1>1, <1>2 DEF Forms
  <2>3. applyPackageAuthority(e, op, authority) \in {e, f, g, h}
    BY DEF applyPackageAuthority
  <2> HIDE DEF f, g, h
  <2> QED
    BY <2>1, <2>2, <2>3 DEF Touched
<1> QED
  BY <1>5, <1>6, <1>7, <1>8

\* "Approve and always allow" is offered only for an action that the plain policy
\* rule, and no gate, had stopped when it was proposed; and that same rule still
\* asks now (previewRemember compares the recorded rule with today's).
THEOREM OnlyAPlainRuleIsOffered ==
  ASSUME NEW p \in Policies, NEW q \in Policies, NEW op \in Ops, NEW sub \in Subs, NEW now \in Subs,
         NEW category, NEW gate \in Gate, NEW action,
         action.rule = Decide(p, op, sub, category, gate).rule, action.rule # None,
         planRemember(action, evaluate(q, op, now, category), q).ok
  PROVE  /\ Decide(p, op, sub, category, gate) = evaluate(p, op, sub, category)
         /\ evaluate(q, op, now, category).rule = evaluate(p, op, sub, category).rule
         /\ Status(evaluate(q, op, now, category)) = "pending"
<1> DEFINE e == evaluate(p, op, sub, category)
           v == applyVoiceAuthorization(e, gate.voice)
           s == scoped(v, op, gate.goal, category)
           b == bound(s, op, gate.bindingError)
           d == applyPackageAuthority(b, op, gate.authority)
           n == evaluate(q, op, now, category)
<1>1. e \in Evaluations
  BY EvaluateType
<1>2. d = Decide(p, op, sub, category, gate)
  BY DEF Decide
<1>3. ~n.blocked /\ n.asks /\ action.rule = n.rule /\ Rememberable(n.rule)
  BY DEF planRemember
<1>4. action.rule = d.rule
  BY <1>2
<1> HIDE DEF e, n
<1>5. v \in Evaluations /\ (v # e => Touched(v))
  BY <1>1, VoiceTightens, GateTouches DEF Tightens
<1> HIDE DEF v
<1>6. s \in Evaluations /\ (s # v => Touched(s))
  BY <1>5, ScopeTightens, GateTouches DEF Tightens
<1> HIDE DEF s
<1>7. b \in Evaluations /\ (b # s => Touched(b))
  BY <1>6, BindingTightens, GateTouches DEF Tightens
<1> HIDE DEF b
<1>8. d # b => Touched(d)
  BY <1>7, GateTouches
<1> HIDE DEF d
<1>9. ~Touched(d)
  BY <1>3, <1>4 DEF Touched, Rememberable
<1>10. d = e
  BY <1>5, <1>6, <1>7, <1>8, <1>9
<1>11. Status(n) = "pending"
  BY <1>3 DEF Status
<1> QED
  BY <1>2, <1>3, <1>4, <1>10, <1>11 DEF e, n

-----------------------------------------------------------------------------
(* Remembering an approval.                                                 *)

\* A decision depends on the operation's entry only, and on it by its rule.
LEMMA EvaluateSame ==
  ASSUME NEW p, NEW q, p.broken = q.broken, NEW op, NEW sub, NEW category,
         \/ p.entries[op] = q.entries[op]
         \/ /\ p.entries[op].kind # "missing" /\ q.entries[op].kind # "missing"
            /\ RuleFor(p.entries[op], op, sub) = RuleFor(q.entries[op], op, sub)
  PROVE  evaluate(p, op, sub, category) = evaluate(q, op, sub, category)
BY DEF evaluate

LEMMA LevelFields ==
  ASSUME NEW l \in Levels \cup {"odd"}
  PROVE  LevelEntry(l) \in Entry /\ LevelEntry(l).kind = "level" /\ LevelEntry(l).level = l
BY DEF Entry, LevelEntry

LEMMA MapFields ==
  ASSUME NEW of \in [Keys -> Levels \cup {"odd", "absent"}]
  PROVE  MapEntry(of) \in Entry /\ MapEntry(of).kind = "map" /\ MapEntry(of).of = of
BY DEF Entry, MapEntry

LEMMA NoEntriesType ==
  NoEntries \in Entries /\ \A o \in Ops : NoEntries[o].kind = "missing"
<1>1. LevelEntry("odd") \in Entry
  BY LevelFields
<1>2. [LevelEntry("odd") EXCEPT !.kind = "missing"] \in Entry
  BY <1>1 DEF Entry
<1> QED
  BY <1>1, <1>2 DEF NoEntries, Entries, Entry

\* A file that is absent or usable gives the merge of the two files.
LEMMA LoadMerges ==
  ASSUME NEW home \in Entries, NEW vault \in VaultFile, vault.present => Usable(vault)
  PROVE  /\ Before(vault) \in Entries
         /\ ~loadPolicies(home, vault).broken
         /\ \A o \in Ops : loadPolicies(home, vault).entries[o]
              = IF Before(vault)[o].kind = "missing" THEN home[o] ELSE Before(vault)[o]
<1>1. CASE vault.present
  BY <1>1 DEF loadPolicies, Merged, Before, VaultFile
<1>2. CASE ~vault.present
  BY <1>2, NoEntriesType DEF loadPolicies, Before
<1> QED
  BY <1>1, <1>2

LEMMA RememberedType ==
  ASSUME NEW plan, plan.op \in Ops, plan.sub \in Subs, NEW vault \in VaultFile, NEW effective \in Entries
  PROVE  /\ Before(vault) \in Entries
         /\ Remembered(plan, vault, effective) \in Entry
         /\ Remembered(plan, vault, effective).kind # "missing"
<1> DEFINE own == Before(vault)[plan.op]
           base == IF own.kind = "missing" THEN effective[plan.op] ELSE own
           siblings == IF base.kind = "map" THEN base.of ELSE [k \in Keys |-> "absent"]
<1>1. Before(vault) \in Entries
  BY NoEntriesType DEF Before, VaultFile
<1>2. base \in Entry
  BY <1>1 DEF Entries
<1>3. siblings \in [Keys -> Levels \cup {"odd", "absent"}]
  BY <1>2 DEF Entry
<1>4. [siblings EXCEPT ![plan.sub] = "autonomous"] \in [Keys -> Levels \cup {"odd", "absent"}]
  <2>1. "autonomous" \in Levels \cup {"odd", "absent"}
    BY DEF Levels
  <2> HIDE DEF siblings
  <2> QED
    BY <1>3, <2>1
<1>5. CASE plan.sub = None
  BY <1>1, <1>5, LevelFields DEF Remembered, Levels
<1>6. CASE plan.sub # None
  <2>1. Remembered(plan, vault, effective) = MapEntry([siblings EXCEPT ![plan.sub] = "autonomous"])
    BY <1>6 DEF Remembered
  <2> HIDE DEF siblings
  <2> QED
    BY <1>1, <1>4, <2>1, MapFields
<1> QED
  BY <1>5, <1>6

\* What a write leaves: the merge, with the remembered entry in its place.
LEMMA LoadAfterWrite ==
  ASSUME NEW home \in Entries, NEW vault \in VaultFile, NEW effective \in Entries,
         NEW plan, plan.op \in Ops, plan.sub \in Subs, NEW after,
         applyRememberedRule(plan, vault, effective, after), after # vault, after.readable
  PROVE  /\ after \in VaultFile
         /\ loadPolicies(home, after) \in Policies /\ ~loadPolicies(home, after).broken
         /\ \A o \in Ops : loadPolicies(home, after).entries[o]
              = IF o = plan.op THEN Remembered(plan, vault, effective)
                ELSE loadPolicies(home, vault).entries[o]
         /\ ~loadPolicies(home, vault).broken
         /\ Patchable(plan, Before(vault)[plan.op])
<1> DEFINE new == Rewritten(plan, vault, effective)
<1>1. /\ vault.present => Usable(vault)
      /\ Patchable(plan, Before(vault)[plan.op])
      /\ validatePolicies(new)
      /\ after = [present |-> TRUE, readable |-> TRUE, entries |-> new]
  <2>1. PICK fits \in BOOLEAN : after = [present |-> TRUE, readable |-> fits, entries |-> new]
    BY DEF applyRememberedRule
  <2>2. fits = TRUE
    BY <2>1
  <2> QED
    BY <2>1, <2>2 DEF applyRememberedRule
<1>2. /\ Before(vault) \in Entries /\ Remembered(plan, vault, effective) \in Entry
      /\ Remembered(plan, vault, effective).kind # "missing"
  BY RememberedType
<1>3. /\ new \in Entries
      /\ \A o \in Ops : new[o] = IF o = plan.op THEN Remembered(plan, vault, effective) ELSE Before(vault)[o]
  BY <1>2 DEF Rewritten, Entries
<1> HIDE DEF new
<1>4. after \in VaultFile /\ Usable(after) /\ Before(after) = new
  BY <1>1, <1>3 DEF VaultFile, Usable, Before
<1>5. /\ ~loadPolicies(home, after).broken
      /\ \A o \in Ops : loadPolicies(home, after).entries[o] = IF new[o].kind = "missing" THEN home[o] ELSE new[o]
  BY <1>4, LoadMerges
<1>6. /\ ~loadPolicies(home, vault).broken
      /\ \A o \in Ops : loadPolicies(home, vault).entries[o]
           = IF Before(vault)[o].kind = "missing" THEN home[o] ELSE Before(vault)[o]
  BY <1>1, LoadMerges
<1>7. \A o \in Ops : loadPolicies(home, after).entries[o]
        = IF o = plan.op THEN Remembered(plan, vault, effective) ELSE loadPolicies(home, vault).entries[o]
  BY <1>2, <1>3, <1>5, <1>6
<1>8. loadPolicies(home, after) \in Policies
  BY <1>4, LoadType
<1> QED
  BY <1>1, <1>4, <1>5, <1>6, <1>7, <1>8

\* A remembered sub-category: its siblings' levels, and their default, are kept.
LEMMA SiblingsKept ==
  ASSUME NEW base \in Entry, base.kind = "map", NEW sub \in Cats, sub # Default,
         NEW c \in Subs, c # sub, NEW op
  PROVE  RuleFor(MapEntry([base.of EXCEPT ![sub] = "autonomous"]), op, c) = RuleFor(base, op, c)
<1> DEFINE of == [base.of EXCEPT ![sub] = "autonomous"]
<1>1. base.of \in [Keys -> Levels \cup {"odd", "absent"}] /\ sub \in Keys
  BY DEF Entry, Keys
<1>2. of \in [Keys -> Levels \cup {"odd", "absent"}]
  <2>1. "autonomous" \in Levels \cup {"odd", "absent"}
    BY DEF Levels
  <2> QED
    BY <1>1, <2>1
<1>3. of[Default] = base.of[Default] /\ (c # None => of[c] = base.of[c])
  BY <1>1 DEF Keys, Subs
<1> HIDE DEF of
<1>4. MapEntry(of).kind = "map" /\ MapEntry(of).of = of
  BY <1>2, MapFields
<1>5. RuleFor(MapEntry(of), op, c) = RuleFor(base, op, c)
  BY <1>3, <1>4 DEF RuleFor
<1> QED
  BY <1>5 DEF of

\* Whenever the write happens and whatever the files hold by then, it changes no
\* decision but the remembered rule's: not another operation's, nor, where the
\* operation is a map, another sub-category's. (The map is the file's own; where
\* the file has none, it must be the home policy's as it now stands.)
THEOREM WriteTouchesOneRule ==
  ASSUME NEW home \in Entries, NEW vault \in VaultFile, NEW effective \in Entries,
         NEW plan, plan.op \in Ops, plan.sub \in Subs, plan.sub # Default, NEW after,
         applyRememberedRule(plan, vault, effective, after), after # vault => after.readable,
         NEW op \in Ops, NEW sub \in Subs, NEW category,
         \/ op # plan.op
         \/ /\ plan.sub # None /\ sub # plan.sub
            /\ \/ Before(vault)[plan.op].kind # "missing"
               \/ effective[plan.op] = home[plan.op] /\ home[plan.op].kind = "map"
  PROVE  evaluate(loadPolicies(home, after), op, sub, category)
           = evaluate(loadPolicies(home, vault), op, sub, category)
<1>1. CASE after = vault
  BY <1>1
<1>2. CASE after # vault
  <2> DEFINE p == loadPolicies(home, vault)
             q == loadPolicies(home, after)
             own == Before(vault)[plan.op]
             base == IF own.kind = "missing" THEN effective[plan.op] ELSE own
  <2>1. /\ q \in Policies /\ ~q.broken /\ ~p.broken
        /\ \A o \in Ops : q.entries[o] = IF o = plan.op THEN Remembered(plan, vault, effective) ELSE p.entries[o]
        /\ Patchable(plan, own)
    BY <1>2, LoadAfterWrite
  <2>2. p.broken = q.broken
    BY <2>1, LoadType DEF Policies
  <2>3. CASE op # plan.op
    <3>1. q.entries[op] = p.entries[op]
      BY <2>1, <2>3
    <3> HIDE DEF p, q
    <3>2. evaluate(p, op, sub, category) = evaluate(q, op, sub, category)
      BY <2>2, <3>1, EvaluateSame
    <3> QED
      BY <3>2 DEF p, q
  <2>4. CASE op = plan.op
    <3>1. /\ plan.sub # None /\ sub # plan.sub /\ plan.sub \in Cats
          /\ own.kind # "missing" \/ (effective[plan.op] = home[plan.op] /\ home[plan.op].kind = "map")
      BY <2>4 DEF Subs
    <3>2. base \in Entry
      BY RememberedType DEF Entries
    <3>3. base.kind = "map"
      BY <2>1, <3>1 DEF Patchable
    <3>4. vault.present => Usable(vault)
      BY <1>2 DEF applyRememberedRule
    <3>5. p.entries[op] = base
      BY <2>4, <3>1, <3>4, LoadMerges
    <3>6. q.entries[op] = MapEntry([base.of EXCEPT ![plan.sub] = "autonomous"])
      BY <2>1, <2>4, <3>1, <3>3 DEF Remembered
    <3> HIDE DEF p, q, base
    <3>7. RuleFor(q.entries[op], op, sub) = RuleFor(p.entries[op], op, sub)
      BY <3>1, <3>2, <3>3, <3>5, <3>6, SiblingsKept
    <3>8. p.entries[op].kind # "missing" /\ q.entries[op].kind # "missing"
      BY <3>3, <3>5, <3>6 DEF MapEntry
    <3>9. evaluate(p, op, sub, category) = evaluate(q, op, sub, category)
      BY <2>2, <3>7, <3>8, EvaluateSame
    <3> QED
      BY <3>9 DEF p, q
  <2> QED
    BY <2>3, <2>4
<1> QED
  BY <1>1, <1>2

\* The rule a plan is made from: the operation's own level, or no entry, or the
\* sub-category of the target.
LEMMA PlanMeans ==
  ASSUME NEW p \in Policies, NEW op \in Ops, NEW sub \in Subs, NEW category, category # "read",
         None \notin Keys, NEW action, planRemember(action, evaluate(p, op, sub, category), p).ok
  PROVE  LET plan == planRemember(action, evaluate(p, op, sub, category), p)
         IN /\ plan.op = op /\ plan.sub # Default
            /\ \/ plan.sub = None
               \/ plan.sub = sub /\ sub \in Cats /\ p.entries[op].kind = "map"
<1> DEFINE e == evaluate(p, op, sub, category)
           r == RuleFor(p.entries[op], op, sub)
           plan == planRemember(action, e, p)
<1>1. /\ ~p.broken /\ Rememberable(e.rule) /\ StillConfirm(p.entries[e.rule.op], e.rule)
      /\ plan.op = e.rule.op /\ plan.sub = e.rule.sub
  BY DEF planRemember
<1> HIDE DEF plan
<1> SUFFICES /\ e.rule.op = op /\ e.rule.sub # Default
             /\ \/ e.rule.sub = None
                \/ e.rule.sub = sub /\ sub \in Cats /\ p.entries[op].kind = "map"
  BY <1>1 DEF plan
<1>2. CASE p.entries[op].kind = "missing"
  <2>1. e.rule = Rule(op, "missing", None, "confirm")
    BY <1>2, EvaluateMissing, PlainRules, EvaluationFields
  <2> QED
    BY <2>1 DEF Rule, Keys
<1>3. CASE p.entries[op].kind # "missing"
  <2>1. r \in RuleText
    BY RuleForType DEF Policies, Entries
  <2>2. e = Evaluation(Effective(p, op, sub), r)
    BY <1>1, <1>3, EvaluateEntry
  <2>3. e.rule = r
    BY <2>1, <2>2, EvaluationFields
  <2>4. CASE r.form = "sub"
    <3>1. r.sub # Default
      BY <1>1, <2>3, <2>4 DEF Rememberable
    <3>2. /\ p.entries[op].kind = "map" /\ sub # None
          /\ r = Rule(op, "sub", sub, p.entries[op].of[sub])
      BY <2>4, <3>1 DEF RuleFor, Rule
    <3> QED
      BY <2>3, <3>1, <3>2 DEF Rule, Subs
  <2>5. CASE r.form # "sub"
    <3>1. r.op = op /\ r.sub = None
      BY <2>5 DEF RuleFor, Rule
    <3> QED
      BY <2>3, <3>1 DEF Keys
  <2> QED
    BY <2>4, <2>5
<1> QED
  BY <1>2, <1>3

\* A rule remembered while the files are as they were when it was previewed: the
\* action's own kind now runs unasked, and every other decision stays what it was,
\* a sibling's never included. (A file grown past the size limit makes every
\* decision ask: BrokenVaultAsks.)
THEOREM RememberedRuleIsExact ==
  ASSUME NEW home \in Entries, NEW vault \in VaultFile, None \notin Keys,
         NEW op \in Ops, NEW sub \in Subs, NEW category, category # "read", NEW action, NEW plan,
         plan = planRemember(action, evaluate(loadPolicies(home, vault), op, sub, category),
                             loadPolicies(home, vault)),
         NEW after, after # vault, after.readable,
         applyRememberedRule(plan, vault, loadPolicies(home, vault).entries, after)
  PROVE  /\ Status(evaluate(loadPolicies(home, after), op, sub, category)) = "approved"
         /\ \A o \in Ops, c \in Subs : \A k :
              o # op \/ (plan.sub # None /\ c # sub) =>
                evaluate(loadPolicies(home, after), o, c, k) = evaluate(loadPolicies(home, vault), o, c, k)
<1> DEFINE p == loadPolicies(home, vault)
           q == loadPolicies(home, after)
<1>1. p \in Policies /\ p.entries \in Entries
  BY LoadType DEF Policies
<1>2. plan.ok
  BY DEF applyRememberedRule
<1>3. /\ plan.op = op /\ plan.sub # Default
      /\ \/ plan.sub = None
         \/ plan.sub = sub /\ sub \in Cats /\ p.entries[op].kind = "map"
  BY <1>1, <1>2, PlanMeans
<1>4. plan.sub \in Subs
  BY <1>3 DEF Subs
<1>5. /\ q \in Policies /\ ~q.broken
      /\ q.entries[op] = Remembered(plan, vault, p.entries)
  BY <1>1, <1>3, <1>4, LoadAfterWrite
<1>6. vault.present => Usable(vault)
  BY DEF applyRememberedRule
<1>7. /\ Before(vault) \in Entries
      /\ p.entries[op] = IF Before(vault)[op].kind = "missing" THEN home[op] ELSE Before(vault)[op]
  BY <1>6, LoadMerges
<1> DEFINE own == Before(vault)[plan.op]
           base == IF own.kind = "missing" THEN p.entries[plan.op] ELSE own
<1>8. base = p.entries[op]
  BY <1>3, <1>7
<1>9. RuleFor(q.entries[op], op, sub).level = "autonomous" /\ q.entries[op].kind # "missing"
  <2> HIDE DEF p, q
  <2>1. CASE plan.sub = None
    <3>1. q.entries[op] = LevelEntry("autonomous")
      BY <1>5, <2>1 DEF Remembered
    <3> QED
      BY <3>1 DEF RuleFor, Rule, LevelEntry
  <2>2. CASE plan.sub # None
    <3> DEFINE of == [base.of EXCEPT ![plan.sub] = "autonomous"]
    <3>1. base.kind = "map" /\ plan.sub = sub /\ sub \in Cats
      BY <1>3, <1>8, <2>2
    <3>2. base \in Entry
      BY <1>1, <1>8 DEF Entries
    <3>3. q.entries[op] = MapEntry(of)
      BY <1>5, <2>2, <3>1 DEF Remembered
    <3>4. of[sub] = "autonomous"
      BY <3>1, <3>2 DEF Entry, Keys
    <3> HIDE DEF of
    <3> QED
      BY <2>2, <3>1, <3>3, <3>4 DEF RuleFor, Rule, MapEntry
  <2> QED
    BY <2>1, <2>2
<1>10. Status(evaluate(q, op, sub, category)) = "approved"
  <2> HIDE DEF p, q
  <2>1. Effective(q, op, sub) = "autonomous"
    BY <1>5, <1>9 DEF Effective
  <2>2. ~evaluate(q, op, sub, category).asks /\ ~evaluate(q, op, sub, category).blocked
    BY <1>5, <1>9, <2>1, EvaluateEntry DEF Unasked
  <2> QED
    BY <2>2 DEF Status
<1>11. ASSUME NEW o \in Ops, NEW c \in Subs, NEW k, o # op \/ (plan.sub # None /\ c # sub)
       PROVE  evaluate(q, o, c, k) = evaluate(p, o, c, k)
  <2>1. \/ o # plan.op
        \/ /\ plan.sub # None /\ c # plan.sub
           /\ \/ own.kind # "missing"
              \/ p.entries[plan.op] = home[plan.op] /\ home[plan.op].kind = "map"
    BY <1>3, <1>7, <1>11
  <2> QED
    BY <1>1, <1>3, <1>4, <2>1, WriteTouchesOneRule
<1> QED
  BY <1>10, <1>11

\* The plan is not looked at again when it is written: the approved action runs in
\* between (agent.js awaits it), and a level the owner meanwhile set to never is
\* replaced by autonomous.
THEOREM LatePlanReplacesNever ==
  ASSUME NEW vault \in VaultFile, vault.present, Usable(vault), NEW effective,
         NEW plan, plan.ok, plan.op \in Ops, plan.sub = None, vault.entries[plan.op] = LevelEntry("never")
  PROVE  \E after \in VaultFile : /\ applyRememberedRule(plan, vault, effective, after)
                                  /\ after.readable /\ after.entries[plan.op] = LevelEntry("autonomous")
<1> DEFINE new == [vault.entries EXCEPT ![plan.op] = LevelEntry("autonomous")]
           after == [present |-> TRUE, readable |-> TRUE, entries |-> new]
<1>1. LevelEntry("autonomous") \in Entry /\ ValidEntry(LevelEntry("autonomous"))
  BY LevelFields DEF Levels, ValidEntry
<1>2. vault.entries \in Entries
  BY DEF VaultFile
<1>3. Rewritten(plan, vault, effective) = new
  BY DEF Rewritten, Remembered, Before
<1>4. new \in Entries /\ new[plan.op] = LevelEntry("autonomous")
  BY <1>1, <1>2 DEF Entries
<1>5. validatePolicies(new)
  BY <1>1, <1>2 DEF validatePolicies, Usable, Entries
<1>6. Patchable(plan, Before(vault)[plan.op])
  BY DEF Patchable, Before, LevelEntry
<1> HIDE DEF new
<1>7. after \in VaultFile
  BY <1>4 DEF VaultFile
<1>8. applyRememberedRule(plan, vault, effective, after)
  BY <1>3, <1>5, <1>6 DEF applyRememberedRule
<1> QED
  BY <1>4, <1>7, <1>8

=============================================================================
