---------------------------- MODULE ClientPolicy ----------------------------
(***************************************************************************)
(* The decision engine of zuaef_client_service (policy.py, canonical.py,   *)
(* toolset.py): what a customer's message asks for and what the state file *)
(* knows become features, every policy whose trigger holds matches, and    *)
(* the matches merge.  A message is the set of topics its words touch.     *)
(***************************************************************************)
EXTENDS Naturals, Sequences, FiniteSets, FiniteSetsExt

CONSTANTS MaxTopics   \* bound on the topics of one message

PolicyAssumption == MaxTopics \in Nat

VARIABLES
  customer,   \* what the state file knows
  topics,     \* what the message touches so far
  decision    \* the merged policy

vars == <<customer, topics, decision>>

\* _REQUEST_PATTERNS, then what assess_customer looks for itself.
Request == {"case", "price", "platform_guarantee", "implementation_details", "technical_debate",
            "full_solution", "real_failure_sample", "root_cause_analysis", "software_outsourcing"}
Topic == Request \cup {"cheap", "prompt_failed", "existing_stack", "scale", "reuse"}
Customer == [authority : {"known", "unknown"}, budget : {"known", "unknown"},
             software_need : {"not_now", "yes", "unknown"}, disclosed : 0 .. 3]
-----------------------------------------------------------------------------
(* The canonical policies.  A trigger is a set of conditions, a condition  *)
(* the set of features that satisfy it; of the alternatives one must hold. *)

Policy(trigger, approval, ceiling, restricted) ==
  [trigger |-> trigger, alternatives |-> {{}}, approval |-> approval, ceiling |-> ceiling,
   restricted |-> restricted]

FullPlan == "full_implementation_plan"
Workflow == "complete_workflow"
Architecture == "custom_architecture"

Policies1To7 == <<
  Policy({{"unpaid"}, {"told high"}, {"implementation_details"}}, 2, 2,
         {FullPlan, Workflow, Architecture, "generate_custom_solution"}),
  Policy({{"unpaid"}, {"told high"}}, 1, 2, {FullPlan, Workflow, "schedule_meeting"}),
  Policy({{"technical_debate"}}, 1, 2, {FullPlan, Architecture}),
  Policy({{"prompt_failed"}}, 1, 2, {Workflow, Architecture, FullPlan}),
  Policy({{"full_solution"}}, 2, 2, {FullPlan, Workflow, Architecture}),
  Policy({{"case"}, {"authority unknown"}}, 2, 2, {"send_detailed_case", "full_case_disclosure"}),
  Policy({{"budget low"}}, 1, 2, {"schedule_meeting"}) >>

Policies8To14 == <<
  Policy({{"scale"}}, 2, 3, {"schedule_meeting"}),
  Policy({{"scale"}}, 2, 2, {"commit_to_contract", "promise_delivery", "schedule_meeting"}),
  Policy({{"existing_stack"}, {"software not_now"}}, 1, 2, {"rearchitecture", "push_agent_software"}),
  Policy({{"software_outsourcing"}}, 2, 1, {"accept_software_outsourcing", "commit_to_contract"}),
  Policy({{"real_failure_sample"}}, 1, 3, {"full_root_cause_in_chat", "definitive_prescription"}),
  Policy({{"root_cause_analysis"}}, 1, 2, {FullPlan}),
  Policy({{"method not validated"}}, 1, 2, {FullPlan, Workflow}) >>

Policies15To22 == <<
  Policy({{"method not validated"}, {"full_solution"}}, 2, 2, {FullPlan, Workflow, Architecture}),
  Policy({{"platform_guarantee"}}, 2, 1, {"guarantee_outcomes", "commit_to_contract"}),
  Policy({{"goal unclear"}, {"full_solution"}}, 1, 1, {FullPlan, Architecture, "generate_custom_solution"}),
  Policy({{"software not_now"}}, 1, 2, {"push_agent_software", "rearchitecture"}),
  Policy({{"reuse"}}, 1, 2, {"definitive_prescription"}),
  Policy({{"price"}, {"told medium", "told high"}}, 2, 3, {FullPlan, Workflow}),
  Policy({{"price"}}, 2, 3, {"commit_to_contract", "generate_custom_solution"}),
  [Policy({}, 1, 2, {"definitive_prescription", "guarantee_outcomes"}) EXCEPT
     !.alternatives = {{{"root_cause_analysis", "platform_guarantee"}}, {{"reuse"}}}] >>

Policies == Policies1To7 \o Policies8To14 \o Policies15To22
-----------------------------------------------------------------------------
(* assess_customer, _features: the message itself does not reach the       *)
(* features, so the goal is never clear; nothing says paid or validated.   *)

Told(c) == CASE c.disclosed >= 3 -> "told high" [] c.disclosed \in 1 .. 2 -> "told medium"
             [] OTHER -> "told low"

\* A known budget hides what the message says of it.
Budget(c, m) ==
  IF c.budget = "known" THEN "budget known"
  ELSE IF "price" \notin m THEN "budget unknown"
  ELSE IF "cheap" \in m THEN "budget low" ELSE "budget medium"

Features(c, m) ==
  m \cup {"unpaid", "method not validated", "goal unclear", Told(c), Budget(c, m),
          "authority " \o c.authority, "software " \o c.software_need}

\* The assessment holds low, medium, high or unknown, so a known budget that
\* the message does not speak of makes assess_customer raise.
Assessable(c, m) == c.budget = "known" => "price" \in m

Holds(trigger, f) == \A condition \in trigger : condition \cap f # {}

\* match_policies.
Matches(f) ==
  {i \in DOMAIN Policies :
     /\ Holds(Policies[i].trigger, f)
     /\ \E group \in Policies[i].alternatives : Holds(group, f)}

\* (mutant) the first match, in corpus order, sets the approval.
MergeFirst(f) ==
  [approval |-> Policies[Min(Matches(f))].approval,
   ceiling |-> Min({Policies[i].ceiling : i \in Matches(f)}),
   restricted |-> UNION {Policies[i].restricted : i \in Matches(f)}]

\* merge_matches.
Merge(f) ==
  LET matched == {Policies[i] : i \in Matches(f)} IN
    IF matched = {} THEN [approval |-> 0, ceiling |-> 5, restricted |-> {}]
    ELSE [approval |-> Max({p.approval : p \in matched}), ceiling |-> Min({p.ceiling : p \in matched}),
          restricted |-> UNION {p.restricted : p \in matched}]

Decide(c, m) == IF Assessable(c, m) THEN Merge(Features(c, m)) ELSE [refused |-> TRUE]
-----------------------------------------------------------------------------
Init ==
  /\ customer \in Customer
  /\ topics = {}
  /\ decision = Decide(customer, {})

\* The customer asks for one thing more.
AskMore ==
  /\ Cardinality(topics) < MaxTopics
  /\ \E t \in Topic \ topics : topics' = topics \cup {t}
  /\ decision' = Decide(customer, topics')
  /\ UNCHANGED customer

Next == AskMore
Spec == Init /\ [][Next]_vars
-----------------------------------------------------------------------------
Decided(d) == "approval" \in DOMAIN d

\* SPEC 57, fail closed: asking for more never lowers the approval a reply
\* needs, raises what may be disclosed, or frees an action (policy.py:76).
AskingMoreNeverLoosens ==
  [][decision' # decision /\ Decided(decision) /\ Decided(decision') =>
       /\ decision'.approval >= decision.approval
       /\ decision'.ceiling <= decision.ceiling
       /\ decision.restricted \subseteq decision'.restricted]_vars

\* No message, to no customer, is answered without approval or with the full
\* method: no assessment says paid or validated.
BoundaryHolds ==
  Decided(decision) =>
    /\ decision.approval >= 1 /\ decision.ceiling <= 2
    /\ {FullPlan, Workflow} \subseteq decision.restricted

\* canonical.py:121: a low budget is not given a meeting.  Refuted: the state
\* file's "known" takes the place of the amount.
LowBudgetNoMeeting ==
  {"price", "cheap"} \subseteq topics => "schedule_meeting" \in decision.restricted

\* Every message is assessed.  Refuted: CustomerState says known, the
\* assessment has no such budget.
EveryMessageAssessed == Decided(decision)
=============================================================================
