----------------------------- MODULE MCWorkspace -----------------------------
(***************************************************************************)
(* TLC instance of Workspace: two requests with the dashboard's key in one *)
(* worker.  The tenant is new, or it has a system with a control, an item  *)
(* without links, a scan and an intake made by hand.  The site has a home  *)
(* page that has to be rendered, a page about its AI that links a policy,  *)
(* and the policy.                                                         *)
(***************************************************************************)
EXTENDS Workspace, TLC

CONSTANTS s1, s2, home, ai, policy

TheDashboard == [s \in {s1, s2} |-> "dashboard"]
TheWorker == [s \in {s1, s2} |-> "worker"]
AllAndAsync == [s \in {s1, s2} |-> IF s = s1 THEN Ops \ {"scan"} ELSE AsyncOps]

Page(signals, topics, areas, links, appShell) ==
    [signals |-> signals, topics |-> topics, areas |-> areas, links |-> links, appShell |-> appShell]
Shell == Page({}, {}, {}, <<>>, TRUE)
RenderedHome == Page({"ai_claim", "human_interaction"}, {}, {}, <<ai, policy>>, FALSE)
AiPage == Page({"high_risk_domain"}, {"human_oversight"}, {"essential_services"}, <<policy, home>>, FALSE)
PolicyPage == Page({"privacy_security"}, {"ai_disclosure"}, {}, <<>>, FALSE)

Site == home :> {Shell, Unreadable} @@ ai :> {AiPage} @@ policy :> {PolicyPage}
SiteInBrowser == home :> RenderedHome
Paths == <<ai>>
Starts == {home, ai}

HandMade == {{"is_deployer", "is_high_risk_annex_iii", "fria_required"}}
Keys == {Key("intake", "ai_literacy", 0)}

Answers == {"is_developer", "is_gpai", "is_prohibited_use"}
NewTenant == [systems |-> <<>>, intakes |-> <<>>, controls |-> <<>>, items |-> <<>>, artifacts |-> <<>>,
              scans |-> <<>>, events |-> <<>>, reviews |-> <<>>, reports |-> {}]
FirstControl == ControlId(1, Key("", "own", 0), 0)
FoundBefore == [NothingFound EXCEPT !.pages = 1, !.signals = {"gpai", "prohibited_risk"}]
Established ==
    [NewTenant EXCEPT !.systems = <<System("scheduled")>>,
                      !.intakes = <<Intake(Answers, "none")>>,
                      !.controls = FirstControl :> Control("not_started", "client", "medium", None),
                      !.items = <<NewItem(None, None, NoMetadata)>>,
                      !.scans = <<Scan(Completed(FoundBefore, "none"))>>]
Databases == {NewTenant, Established}
=============================================================================
