------------------------------- MODULE SiteScan -------------------------------
(***************************************************************************)
(* What a website scan concludes from the public pages it read             *)
(* (website_scanner_service.py).  Of a page the model keeps which signal   *)
(* categories and evidence topics its text matches, the Annex III area it  *)
(* speaks of, the compliance links it carries, and whether it is an app    *)
(* shell, to be rendered in a browser before it says anything.             *)
(***************************************************************************)
EXTENDS ObligationGraph, Sequences

Categories == {"ai_claim", "human_interaction", "synthetic_content", "high_risk_domain",
               "prohibited_risk", "gpai", "governance", "privacy_security"}
Topics == {"ai_disclosure", "human_oversight", "logging_monitoring", "limitations_accuracy",
           "data_governance", "security_certification", "vendor_documentation"}
Areas == {"essential_services", "another_area"}

\* What the pages read so far amount to.
Found == [pages : Nat, signals : SUBSET Categories, topics : SUBSET Topics, areas : SUBSET Areas,
          onAi : BOOLEAN, failures : Nat]
NothingFound == [pages |-> 0, signals |-> {}, topics |-> {}, areas |-> {}, onAi |-> FALSE, failures |-> 0]

\* One more page.  "onAi": its address is that of a page about AI.
Including(found, page, onAi) ==
    [found EXCEPT !.pages = @ + 1,
                  !.signals = @ \cup page.signals, !.topics = @ \cup page.topics,
                  !.areas = @ \cup page.areas, !.onAi = @ \/ onAi]

-----------------------------------------------------------------------------
\* Answers of a draft intake, with the strongest Annex III match in "area".
AnsweredBy == [is_prohibited_use |-> {"prohibited_risk"},
               is_high_risk_annex_iii |-> {"high_risk_domain"},
               has_transparency_obligation |-> {"human_interaction", "synthetic_content"},
               is_gpai |-> {"gpai"}]

IntakeAnswers(found, area) ==
    {"is_developer"}
    \cup {q \in DOMAIN AnsweredBy : AnsweredBy[q] \cap found.signals # {}}
    \cup (IF found.areas # {} THEN {"is_high_risk_annex_iii"} ELSE {})
    \cup (IF area = "essential_services" THEN {"annex_iii_essential_services"} ELSE {})

RiskLevel(answers, found) ==
    IF "is_prohibited_use" \in answers THEN "prohibited_review"
    ELSE IF "is_high_risk_annex_iii" \in answers THEN "high"
    ELSE IF "is_gpai" \in answers THEN "gpai"
    ELSE IF "has_transparency_obligation" \in answers \/ "ai_claim" \in found.signals THEN "limited"
    ELSE "minimal_or_unknown"

RequiresManualReview(risk, graph) ==
    risk \in {"high", "prohibited_review", "gpai"} \/ \E item \in graph : item.status \in ToBeReviewed

RequiresManualReviewForRole(class, graph) ==
    class \in {"high-risk", "prohibited", "gpai"} \/ \E item \in graph : item.status \in ToBeReviewed

\* The draft answers, with the role that the user selected.
\* Fault: the scanner's assumption, that the user is the developer, is kept.
AnswersStillDeveloper(answers, role) ==
    answers \cup (IF role = "Deployer" THEN {"is_deployer"} ELSE {})
AnswersForActorRole(answers, role) ==
    (answers \ {"is_developer", "is_deployer"})
    \cup (CASE role = "Provider" -> {"is_developer"}
            [] role = "Deployer" -> {"is_deployer"}
            [] OTHER -> {})

\* The scan's report shows, for each role, what the law would ask of the site's owner.
RoleScenario(answers, scenario) ==
    LET result == Classified((answers \ {"is_developer", "is_deployer"}) \cup scenario)
    IN  [role |-> result.role, class |-> result.class, path |-> result.path, graph |-> result.graph,
         review |-> RequiresManualReviewForRole(result.class, result.graph)]

RoleScenarios(answers) ==
    {RoleScenario(answers, scenario) : scenario \in {{"is_developer"}, {"is_deployer"}, {}}}

-----------------------------------------------------------------------------
\* Gaps in the public evidence.
Gap(severity, title, dimension) == [severity |-> severity, title |-> title, dimension |-> dimension]
GapIf(missing, gap) == IF missing THEN {gap} ELSE {}

HighRiskGaps(risk, found) ==
    IF risk \notin {"high", "prohibited_review"} THEN {} ELSE
    {Gap("high", "legal_validation",
         IF risk = "high" THEN "high_risk_classification" ELSE "prohibited_practice_review")}
    \cup GapIf("human_oversight" \notin found.topics,
               Gap("high", "oversight", "deployer_high_risk_operations"))
    \cup GapIf("logging_monitoring" \notin found.topics, Gap("medium", "logging", "post_market_monitoring"))

GapFindings(risk, found) ==
    LET gaps ==
        GapIf(/\ "ai_claim" \in found.signals /\ "governance" \notin found.signals
              /\ "human_oversight" \notin found.topics, Gap("medium", "governance", "ai_literacy"))
        \cup GapIf(/\ risk \in {"limited", "high", "prohibited_review"}
                   /\ "ai_disclosure" \notin found.topics, Gap("medium", "disclosure", "transparency_notice"))
        \cup HighRiskGaps(risk, found)
        \cup GapIf("human_interaction" \in found.signals /\ ~found.onAi,
                   Gap("medium", "disclosure_page", "transparency_notice"))
        \cup GapIf(/\ "privacy_security" \notin found.signals
                   /\ {"data_governance", "security_certification"} \cap found.topics = {},
                   Gap("medium", "privacy", "provider_high_risk_requirements"))
        \cup GapIf(found.failures > 0, Gap("medium", "render_fallback", "ai_literacy"))
    IN  IF gaps = {} THEN {Gap("low", "none", "ai_literacy")} ELSE gaps

-----------------------------------------------------------------------------
\* The scan record.
ScanStatuses == {"completed", "failed"}

Completed(found, area) ==
    LET answers == IntakeAnswers(found, area)
        risk == RiskLevel(answers, found)
    IN  [status |-> "completed", risk |-> risk, answers |-> answers,
         scenarios |-> RoleScenarios(answers), gaps |-> GapFindings(risk, found),
         review |-> RequiresManualReview(risk, Classified(answers).graph)]

Failed == [status |-> "failed", risk |-> "unknown", answers |-> {}, scenarios |-> {},
           gaps |-> {Gap("high", "scan_failed", "none")}, review |-> FALSE]

\* The results that the pages allow: of several Annex III areas, any may match most terms.
Analyses(found) ==
    {Completed(found, area) : area \in IF found.areas = {} THEN {"none"} ELSE found.areas}
=============================================================================
