--------------------------- MODULE ControlRegister ---------------------------
(***************************************************************************)
(* The compliance controls of a tenant (compliance_control_service.py).    *)
(* The register maps the ids of the controls to their rows.  A control's   *)
(* id holds its system and its key, which are unique together; only of     *)
(* controls without a system there may be several with one key, told       *)
(* apart by "copy".  Article, title, owner, due date and evidence domain   *)
(* are left out, and of the details JSON all but what is named below.      *)
(***************************************************************************)
EXTENDS ObligationGraph

CONSTANTS
    None,             \* NULL
    OtherStatuses,    \* further texts that clients write as a control's status: it is no enumeration
    ClientStatuses,   \* bound: the statuses that clients write
    ClientSeverities  \* bound: the severities that clients write

\* Rows are numbered, and NULL is no row's number.
ASSUME NullIsNoId == None \notin Nat

\* Keys have a prefix: "intake_<dimension>", "review_follow_up_<event>" or none.
Key(prefix, name, event) == [prefix |-> prefix, name |-> name, event |-> event]
ControlId(system, key, copy) == [system |-> system, key |-> key, copy |-> copy]

Baseline == [ai_literacy_program |-> "medium", deployer_log_retention |-> "high",
             dpia_linkage |-> "high", fria_screening |-> "high",
             post_market_monitoring |-> "high", serious_incident_reporting |-> "critical"]
Templates == [human_oversight_implemented |-> "high", logging_monitoring_enabled |-> "high",
              user_disclosure_present |-> "medium", bias_testing_performed |-> "high",
              incident_process_documented |-> "critical", data_governance_reviewed |-> "high",
              model_limitations_documented |-> "medium"]

Severities == {"low", "medium", "high", "critical"}
CompletedStatuses == {"completed", "signed_off"}
ControlStatuses == {"not_started", "blocked", "in_progress"} \cup CompletedStatuses \cup OtherStatuses
Sources == {"baseline", "template", "intake", "follow_up", "client"}

\* "severity" may be missing from the details, "intake" names where they come from.
Control(status, source, severity, intake) ==
    [status |-> status,
     details |-> [source |-> source, severity |-> severity, intake |-> intake, reviews |-> 0]]

ASSUME ClientsWrite == ClientStatuses \subseteq ControlStatuses /\ ClientSeverities \subseteq Severities

-----------------------------------------------------------------------------
\* What is found by system and key is kept, what is missing is inserted.
Existing(register, system, key) == {id \in DOMAIN register : id.system = system /\ id.key = key}

SeedBaseline ==
    [key \in {Key("", name, 0) : name \in DOMAIN Baseline} |->
        Control("not_started", "baseline", Baseline[key.name], None)]

ApplyTemplates(names) ==
    [key \in {Key("", name, 0) : name \in names} |->
        Control("not_started", "template", Templates[key.name], None)]

ObligationKey(item) == Key("intake", item.key, 0)
SeedFromObligationGraph(graph, intake) ==
    [key \in {ObligationKey(item) : item \in graph} |->
        LET item == CHOOSE i \in graph : ObligationKey(i) = key
        IN  Control(StatusFromObligation(item), "intake", SeverityFromObligation(item), intake)]

Missing(register, system, seeds) ==
    {ControlId(system, key, 0) : key \in {k \in DOMAIN seeds : Existing(register, system, k) = {}}}

\* Inserts; a row that another request has inserted meanwhile fails the unique constraint.
CanInsert(register, ids) == \A id \in ids : id \notin DOMAIN register
Seeded(register, missing, seeds) ==
    [id \in DOMAIN register \cup missing |->
        IF id \in DOMAIN register THEN register[id] ELSE seeds[id.key]]

NewId(register, system, key) ==
    ControlId(system, key, IF system = None THEN Cardinality(Existing(register, None, key)) ELSE 0)
Inserted(register, id, control) ==
    [i \in DOMAIN register \cup {id} |-> IF i = id THEN control ELSE register[i]]

-----------------------------------------------------------------------------
\* PATCH.  Details that the client sends replace the stored ones, reviews included; whatever
\* they say of their origin, it is the client's word.  A severity of null takes it out.
ClientDetails == [source |-> "client", severity |-> "none", intake |-> None, reviews |-> 0]
UpdatedControls(control) ==
    [status : {control.status} \cup ClientStatuses,
     details : {[details EXCEPT !.severity = severity] :
                    details \in {control.details, ClientDetails},
                    severity \in {control.details.severity, "none"} \cup ClientSeverities}]

\* A review keeps the newest 25 entries of the history; status and severity may come along.
ReviewedDetails(control, severity) ==
    [control.details EXCEPT !.severity = severity, !.reviews = IF @ = 25 THEN 25 ELSE @ + 1]
ReviewedControls(control) ==
    [status : {control.status} \cup ClientStatuses,
     details : {ReviewedDetails(control, severity) :
                    severity \in {control.details.severity} \cup ClientSeverities}]

InScope(register, system) == {id \in DOMAIN register : system \in {None, id.system}}
AllCompleted(register, ids) == \A id \in ids : register[id].status \in CompletedStatuses
=============================================================================
