--------------------------- MODULE ObligationGraph ---------------------------
(***************************************************************************)
(* The EU AI Act rules that the product applies: how the answers of an     *)
(* intake classify an AI system (classification_service.py) and which      *)
(* obligations follow (regulatory_knowledge.py).  Answers are the set of   *)
(* questions answered with true.  Texts, articles and dates are left out.  *)
(***************************************************************************)
EXTENDS Naturals, FiniteSets

Roles == {"Provider", "Deployer", "Importer/Distributor"}
Classes == {"prohibited", "high-risk", "gpai", "limited-risk", "minimal-risk"}
FriaTriggers == {"is_public_body", "provides_public_service", "annex_iii_essential_services", "fria_required"}
Questions == {"is_developer", "is_deployer", "is_prohibited_use", "is_high_risk_annex_iii",
              "is_safety_component", "has_transparency_obligation", "is_gpai",
              "is_gpai_systemic_risk"} \cup FriaTriggers

-----------------------------------------------------------------------------
\* Classification of an intake.
ActorRole(answers) ==
    IF "is_developer" \in answers THEN "Provider"
    ELSE IF "is_deployer" \in answers THEN "Deployer"
    ELSE "Importer/Distributor"

SystemClassification(answers) ==
    IF "is_prohibited_use" \in answers THEN "prohibited"
    ELSE IF answers \cap {"is_high_risk_annex_iii", "is_safety_component"} # {} THEN "high-risk"
    ELSE IF "is_gpai" \in answers THEN "gpai"
    ELSE IF "has_transparency_obligation" \in answers THEN "limited-risk"
    ELSE "minimal-risk"

ObligationPath(role, class) ==
    CASE class = "prohibited" -> "CEASE_AND_DESIST"
      [] class = "high-risk" ->
           CASE role = "Provider" -> "FULL_COMPLIANCE_ART_16"
             [] role = "Deployer" -> "OPERATIONAL_GOVERNANCE_ART_26"
             [] OTHER -> "IMPORTER_DISTRIBUTOR_REVIEW_REQUIRED"
      [] class = "gpai" -> "GPAI_COMPLIANCE_ART_51_53"
      [] class = "limited-risk" -> "TRANSPARENCY_ART_50"
      [] OTHER -> "VOLUNTARY_CODE_OF_CONDUCT"

-----------------------------------------------------------------------------
\* A dimension applies when the question "answer" was answered with true and the
\* classification and the role are the named ones; "any" stands for no such condition.
Dim(id, answer, class, role, actors, status, controls) ==
    [id |-> id, answer |-> answer, class |-> class, role |-> role, actors |-> actors,
     status |-> status, controls |-> controls]

ClassificationDimensions ==
    {Dim("ai_literacy", "any", "any", "any", Roles, "required", {"ai_literacy_program"}),
     Dim("prohibited_practice_review", "is_prohibited_use", "any", "any", Roles, "blocking",
         {"prohibited_use_review"}),
     Dim("high_risk_classification", "any", "high-risk", "any", Roles, "required",
         {"high_risk_classification_record"})}

HighRiskDimensions ==
    {Dim("provider_high_risk_requirements", "any", "high-risk", "Provider", {"Provider"}, "required",
         {"risk_management_system", "data_governance", "technical_documentation",
          "human_oversight_design", "robustness_cybersecurity"}),
     Dim("deployer_high_risk_operations", "any", "high-risk", "Deployer", {"Deployer"}, "required",
         {"instructions_for_use", "human_oversight_assignment", "operation_monitoring", "log_retention"}),
     Dim("fria_screening", "any", "high-risk", "Deployer", {"Deployer"}, "screening_required",
         {"fria_screening"}),
     Dim("importer_distributor_verification", "any", "high-risk", "Importer/Distributor",
         {"Importer/Distributor"}, "review_required", {"importer_distributor_verification"})}

ModelDimensions ==
    {Dim("transparency_notice", "has_transparency_obligation", "any", "any", Roles, "required",
         {"transparency_notice"}),
     Dim("gpai_provider_obligations", "is_gpai", "any", "any", {"Provider"}, "required",
         {"gpai_technical_documentation", "gpai_copyright_policy"}),
     Dim("gpai_systemic_risk", "is_gpai_systemic_risk", "any", "any", {"Provider"}, "review_required",
         {"gpai_systemic_risk_evaluation"}),
     Dim("post_market_monitoring", "any", "high-risk", "Provider", {"Provider"}, "required",
         {"post_market_monitoring_plan", "serious_incident_reporting"})}

ComplianceDimensions == ClassificationDimensions \cup HighRiskDimensions \cup ModelDimensions
DimensionIds == {d.id : d \in ComplianceDimensions}

Applies(d, role, class, answers) ==
    /\ d.answer = "any" \/ d.answer \in answers
    /\ d.class \in {"any", class}
    /\ d.role \in {"any", role}

OwnerRole(role, d) == IF role \in d.actors THEN role ELSE CHOOSE first \in d.actors : TRUE

FriaLikelyRequired(answers) == answers \cap FriaTriggers # {}

Status(d, answers) ==
    IF d.id = "fria_screening" /\ FriaLikelyRequired(answers) THEN "required" ELSE d.status

\* The penalty of a dimension in millions of euro, 0 when national law sets it.
Penalty(id) ==
    CASE id = "prohibited_practice_review" -> 35
      [] id \in {"ai_literacy", "fria_screening", "post_market_monitoring"} -> 0
      [] OTHER -> 15

ObligationGraph(role, class, answers) ==
    {[key |-> d.id, status |-> Status(d, answers), owner |-> OwnerRole(role, d),
      controls |-> d.controls, penalty |-> Penalty(d.id)]
        : d \in {d \in ComplianceDimensions : Applies(d, role, class, answers)}}

\* What an intake records of its answers.
Classified(answers) ==
    LET role == ActorRole(answers)
        class == SystemClassification(answers)
    IN  [role |-> role, class |-> class, path |-> ObligationPath(role, class),
         graph |-> ObligationGraph(role, class, answers)]

-----------------------------------------------------------------------------
\* The explanation of an intake says whether a lawyer has to look at it.
ToBeReviewed == {"blocking", "review_required", "screening_required"}
ManualReviewRequired(graph) ==
    \E item \in graph : item.status \in ToBeReviewed \/ item.key = "fria_screening"

\* The control that an obligation is turned into.
\* Fault: the obligation's own status is stored in place of a control status.
StatusCopied(item) == item.status
StatusFromObligation(item) ==
    IF item.status \in {"blocking", "review_required"} THEN "blocked" ELSE "not_started"

SeverityFromObligation(item) ==
    CASE item.status = "blocking" -> "high"
      [] item.status # "blocking" /\ item.penalty >= 35 -> "critical"
      [] item.status # "blocking" /\ item.penalty \in 15..34 -> "high"
      [] OTHER -> "medium"
=============================================================================
