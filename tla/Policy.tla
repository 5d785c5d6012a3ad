------------------------------- MODULE Policy -------------------------------
(* What may be done without asking: the policy engine's decision on a       *)
(* proposed action (policy-engine.js over the files policies-loader.js      *)
(* merges), the gates the agent puts behind it (voice, goal scope, account  *)
(* binding, package authority), and the one way a rule is loosened by the   *)
(* program: an owner's "approve and always allow" (remember-approval.js).   *)
(* Pure decisions over two files: no state of their own.                    *)

EXTENDS Naturals

CONSTANTS
  Ops,    \* the "domain.operation" keys
  Cats,   \* the sub-categories an action's target can have
  Plain,  \* the names that survive the round trip through a rule's text
  None    \* no sub-category, no rule

Levels == {"always", "autonomous", "confirm", "never"}
Default == "default"
Keys == Cats \cup {Default}

\* An operation's entry: a level, a map of sub-categories to levels, something
\* else YAML can hold, or no entry. "odd" is any value that is no level.
Entry == [kind : {"missing", "level", "map", "other"}, level : Levels \cup {"odd"},
          of : [Keys -> Levels \cup {"odd", "absent"}]]
Entries == [Ops -> Entry]

LevelEntry(l) == [kind |-> "level", level |-> l, of |-> [k \in Keys |-> "absent"]]
MapEntry(of) == [kind |-> "map", level |-> "odd", of |-> of]
NoEntries == [o \in Ops |-> [LevelEntry("odd") EXCEPT !.kind = "missing"]]

\* A vault policy file: readable means regular, at most 64 KiB, and YAML whose
\* domains are mappings.
VaultFile == [present : BOOLEAN, readable : BOOLEAN, entries : Entries]

\* validatePolicies on one operation.
ValidEntry(e) ==
  \/ e.kind = "missing"
  \/ e.kind = "level" /\ e.level \in Levels
  \/ e.kind = "map" /\ \A k \in Keys : e.of[k] \in Levels \cup {"absent"}

validatePolicies(entries) == \A o \in Ops : ValidEntry(entries[o])

Usable(vault) == vault.readable /\ validatePolicies(vault.entries)

\* The home policy, overridden per operation by the vault's.
Merged(home, entries) == [o \in Ops |-> IF entries[o].kind = "missing" THEN home[o] ELSE entries[o]]

loadPolicies(home, vault) ==
  IF ~vault.present THEN [entries |-> home, broken |-> FALSE]
  ELSE IF Usable(vault) THEN [entries |-> Merged(home, vault.entries), broken |-> FALSE]
  ELSE [entries |-> home, broken |-> TRUE]

-----------------------------------------------------------------------------
(* The engine's decision.                                                   *)

\* The rule an evaluation names, and what gates or a broken vault append to it.
Rule(op, form, sub, level) == [op |-> op, form |-> form, sub |-> sub, level |-> level, tags |-> {}]

\* The rule for an operation that has an entry.
RuleFor(entry, op, sub) ==
  IF entry.kind = "level" THEN Rule(op, "level", None, entry.level)
  ELSE IF entry.kind = "map" /\ sub # None /\ entry.of[sub] # "absent"
       THEN Rule(op, "sub", sub, entry.of[sub])
  ELSE IF entry.kind = "map" /\ sub # None /\ entry.of[Default] # "absent"
       THEN Rule(op, "sub", Default, entry.of[Default])
  ELSE Rule(op, "fallback", None, "confirm")

AutonomyLevel(l) == CASE l = "always" -> 0 [] l = "autonomous" -> 4 [] l = "never" -> 5 [] OTHER -> 3

Unasked == {"always", "autonomous"}

\* What a level means; any value that is no level asks.
Evaluation(l, rule) ==
  [level |-> AutonomyLevel(l), asks |-> l \notin Unasked, blocked |-> l = "never", rule |-> rule]

evaluate(policies, op, sub, category) ==
  LET entry == policies.entries[op]
      rule == RuleFor(entry, op, sub)
      demoted == policies.broken /\ rule.level \in Unasked
      level == IF demoted THEN "confirm" ELSE rule.level
  IN IF category = "read" THEN Evaluation("always", Rule(op, "read", None, "always"))
     ELSE IF entry.kind = "missing" THEN Evaluation("confirm", Rule(op, "missing", None, "confirm"))
     ELSE Evaluation(level, IF demoted THEN [rule EXCEPT !.tags = {"vault-policy-invalid"}] ELSE rule)

-----------------------------------------------------------------------------
(* The gates behind it, in the agent's order.                               *)

Tagged(e, tag) == [e.rule EXCEPT !.tags = @ \cup {tag}]
Forbidden(e, rule, asks) == [e EXCEPT !.blocked = TRUE, !.asks = asks, !.rule = rule]

\* voice: whether the request was spoken, and which thresholds its confidence
\* misses (privateLow only in a private domain).
applyVoiceAuthorization(e, voice) ==
  IF ~voice.spoken \/ e.blocked \/ e.level = 0 THEN e
  ELSE IF voice.privateLow THEN Forbidden(e, Tagged(e, "voice"), TRUE)
  ELSE IF ~e.asks /\ voice.low THEN [e EXCEPT !.asks = TRUE, !.rule = Tagged(e, "voice")]
  ELSE e

\* A goal's run may only read, in the goal's domains, while the goal stands.
goalBlocked(goal, category) ==
  goal.linked /\ (~goal.current \/ category # "read" \/ ~goal.inScope)

scoped(e, op, goal, category) ==
  IF goalBlocked(goal, category) /\ ~e.blocked THEN Forbidden(e, Rule(op, "goal-scope", None, "never"), FALSE)
  ELSE e

bound(e, op, bindingError) ==
  IF bindingError /\ ~e.blocked THEN Forbidden(e, Rule(op, "account-binding", None, "never"), FALSE)
  ELSE e

\* The approval mode in force: the owner's setting, else the package's own.
Mode(policy) ==
  IF policy.override # "unset" THEN policy.override
  ELSE IF policy.approval # "unset" THEN policy.approval ELSE "required"

\* A package policy's verdict: its conditions first, then its mode.
evaluatePackagePolicy(policy) ==
  IF ~policy.defined \/ ~policy.met \/ Mode(policy) = "never" THEN "deny"
  ELSE IF Mode(policy) = "required" THEN "approval" ELSE "automatic"

\* A workflow step need not name a policy.
Verdict(authority) == IF authority.named THEN evaluatePackagePolicy(authority.policy) ELSE "none"

applyPackageAuthority(e, op, authority) ==
  IF ~authority.package \/ e.blocked THEN e
  ELSE IF ~authority.allowed THEN Forbidden(e, Rule(op, "package-permission", None, "never"), FALSE)
  ELSE IF Verdict(authority) = "deny" THEN Forbidden(e, Rule(op, "package-policy", None, "never"), FALSE)
  ELSE IF Verdict(authority) = "approval" /\ ~e.asks
       THEN [e EXCEPT !.asks = TRUE, !.level = IF e.level > 3 THEN e.level ELSE 3,
                      !.rule = Tagged(e, "package")]
  ELSE e

Modes == {"automatic", "required", "never", "unset"}
Gate == [voice : [spoken : BOOLEAN, privateLow : BOOLEAN, low : BOOLEAN],
         goal : [linked : BOOLEAN, current : BOOLEAN, inScope : BOOLEAN],
         bindingError : BOOLEAN,
         authority : [package : BOOLEAN, allowed : BOOLEAN, named : BOOLEAN,
                      policy : [defined : BOOLEAN, met : BOOLEAN, override : Modes, approval : Modes]]]

\* evaluateAndMaybeExecute: the decision an action is recorded with.
Decide(policies, op, sub, category, gate) ==
  applyPackageAuthority(
    bound(scoped(applyVoiceAuthorization(evaluate(policies, op, sub, category), gate.voice),
                 op, gate.goal, category),
          op, gate.bindingError),
    op, gate.authority)

\* recordDecision: what becomes of the action.
Status(e) == IF e.blocked THEN "blocked" ELSE IF e.asks THEN "pending" ELSE "approved"
Strictness(e) == IF Status(e) = "approved" THEN 0 ELSE IF Status(e) = "pending" THEN 1 ELSE 2

-----------------------------------------------------------------------------
(* Approve and always allow.                                                *)

\* The rules whose text names one confirm (or missing) rule of plain names.
Rememberable(rule) ==
  /\ rule.tags = {} /\ rule.op \in Plain
  /\ \/ rule.form = "missing"
     \/ rule.form = "level" /\ rule.level = "confirm"
     \/ rule.form = "sub" /\ rule.level = "confirm" /\ rule.sub \in Plain /\ rule.sub # Default

\* The entry is still what the rule says.
StillConfirm(entry, rule) ==
  CASE rule.form = "missing" -> entry.kind = "missing"
    [] rule.form = "level" -> entry.kind = "level" /\ entry.level = "confirm"
    [] OTHER -> entry.kind = "map" /\ entry.of[rule.sub] = "confirm"

planRemember(action, e, policies) ==
  [ok |-> /\ action.status = "pending" /\ ~action.package
          /\ ~policies.broken
          /\ ~e.blocked /\ e.asks
          /\ action.rule \in {None, e.rule}
          /\ Rememberable(e.rule)
          /\ StillConfirm(policies.entries[e.rule.op], e.rule),
   op |-> e.rule.op,
   sub |-> e.rule.sub]

Before(vault) == IF vault.present THEN vault.entries ELSE NoEntries

\* The operation's new entry: a sub-category carries its siblings along, from
\* the file if it has the operation, else from the policy in force.
Remembered(plan, vault, effective) ==
  LET own == Before(vault)[plan.op]
      base == IF own.kind = "missing" THEN effective[plan.op] ELSE own
      siblings == IF base.kind = "map" THEN base.of ELSE [k \in Keys |-> "absent"]
  IN IF plan.sub = None THEN LevelEntry("autonomous")
     ELSE MapEntry([siblings EXCEPT ![plan.sub] = "autonomous"])

\* patchPoliciesText replaces a level by a level, and a named sub-category's level.
Patchable(plan, own) ==
  \/ own.kind = "missing"
  \/ plan.sub = None /\ own.kind = "level"
  \/ plan.sub # None /\ own.kind = "map" /\ own.of[plan.sub] # "absent"

Rewritten(plan, vault, effective) ==
  [Before(vault) EXCEPT ![plan.op] = Remembered(plan, vault, effective)]

\* The file afterwards. It is left alone when anything is refused (a layout the
\* patcher does not understand included); nothing limits the size it grows to.
applyRememberedRule(plan, vault, effective, after) ==
  \/ after = vault
  \/ /\ plan.ok
     /\ vault.present => Usable(vault)
     /\ Patchable(plan, Before(vault)[plan.op])
     /\ validatePolicies(Rewritten(plan, vault, effective))
     /\ \E fits \in BOOLEAN :
          after = [present |-> TRUE, readable |-> fits, entries |-> Rewritten(plan, vault, effective)]
=============================================================================
