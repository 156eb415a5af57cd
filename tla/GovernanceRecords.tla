-------------------------- MODULE GovernanceRecords --------------------------
(***************************************************************************)
(* The governance records of one tenant and what a request may make of     *)
(* one: fundamental rights impact assessments (FRIA), serious incidents    *)
(* and oversight assignments, as obligation_service.py keeps them, the AI  *)
(* features of feature_service.py, and the decision that policy_service.py *)
(* takes on a feature.                                                     *)
(*                                                                         *)
(* Of a FRIA's free-form columns (assessment, DPIA link, sign-off), of an  *)
(* incident's (severity, status, description, report, escalation) and of   *)
(* an assignment's (reviewer, role, competence) one column "content" is    *)
(* kept, and of a feature the three that the gate reads.  A submission is  *)
(* known by its number, in the code by its time.                           *)
(***************************************************************************)
EXTENDS Naturals, FiniteSets

CONSTANTS
    Frias, Incidents, Assignments, \* ids of the records
    Systems,          \* the tenant's AI systems
    NoSystem,
    Sections,         \* the sections of the FRIA builder, six in the code
    Contents,         \* values of the free-form columns
    OtherTexts,       \* further strings that clients write into columns nothing validates
    Features,         \* ids that features have or may be registered under
    NoFeature         \* a policy check without a feature

Ids == Frias \cup Incidents \cup Assignments \cup Features

ASSUME KindsAreDisjoint ==
    /\ Frias \cap Incidents = {} /\ Frias \cap Assignments = {} /\ Incidents \cap Assignments = {}
    /\ (Frias \cup Incidents \cup Assignments) \cap Features = {}
ASSUME SectionsAreFinite == IsFiniteSet(Sections)
ASSUME NamesAreDistinct == NoFeature \notin Features /\ NoSystem \notin Systems

\* A section of a FRIA that is missing counts as a blank one.
Texts == {"blank", "written"}
Outcomes == {"approved", "rejected"}
FriaStatuses == {"draft", "in_review", "completed"} \cup Outcomes \cup OtherTexts
ActiveStatuses == {"active", "approved"}
IncidentTypes == {"standard", "death", "widespread_infringement"}

Completion(sections) == Cardinality({c \in Sections : sections[c] = "written"})

\* Days from the creation of an incident to its deadline.
Deadline(type) == CASE type = "widespread_infringement" -> 2
                    [] type = "death" -> 10
                    [] OTHER -> 15

Absent == [status |-> "absent"]
Deleted == [status |-> "deleted"]
Approval == [submission : Nat, outcome : {"none"} \cup Outcomes]
Fria == [status : FriaStatuses, system : Systems, content : Contents,
         sections : [Sections -> Texts], completion : Nat, approval : Approval]
Incident == [status : {"kept"}, type : IncidentTypes, deadline : Nat, content : Contents]
Assignment == [status : {"kept"}, content : Contents]
Feature == [status : ActiveStatuses \cup OtherTexts, risk : {"high"} \cup OtherTexts,
            system : Systems \cup {NoSystem}]
Row == Fria \cup Incident \cup Assignment \cup Feature
Kept(row) == row \notin {Absent, Deleted}

-----------------------------------------------------------------------------
\* One request, by its operation: the rows it may leave of the row it found.  Features need
\* no entitlement, and nothing deletes one.
EntitlementFor(r) == CASE r \in Frias -> "fria_management"
                       [] r \in Incidents -> "incident_management"
                       [] r \in Assignments -> "oversight_management"
Entitlements == {"fria_management", "incident_management", "oversight_management"}
Ops == {"create", "patch", "delete", "sections", "submit", "review"}
OpsOn(r) == IF r \in Frias THEN Ops
            ELSE {"create", "patch"} \cup (IF r \in Features THEN {} ELSE {"delete"})

NewFria == {[status |-> st, system |-> sys, content |-> x, sections |-> [c \in Sections |-> "blank"],
             completion |-> 0, approval |-> [submission |-> 0, outcome |-> "none"]] :
               st \in FriaStatuses, sys \in Systems, x \in Contents}
NewIncident == {[status |-> "kept", type |-> y, deadline |-> Deadline(y), content |-> x] :
                  y \in IncidentTypes, x \in Contents}
NewAssignment == [status : {"kept"}, content : Contents]
NewRows(r) == CASE r \in Frias -> NewFria
                [] r \in Incidents -> NewIncident
                [] r \in Assignments -> NewAssignment
                [] r \in Features -> Feature

\* A column that the payload leaves out keeps its value, as if the value were sent again.
FriaUpdate == [status : FriaStatuses, content : Contents]
IncidentUpdate == [type : IncidentTypes, content : Contents]
PatchedFria(row) == {[row EXCEPT !.status = p.status, !.content = p.content] : p \in FriaUpdate}

\* Fault: the type of an incident is changed and its deadline kept.
PatchedOldDeadline(row) == {[row EXCEPT !.type = p.type, !.content = p.content] : p \in IncidentUpdate}
PatchedIncident(row) ==
    {[row EXCEPT !.type = p.type, !.deadline = Deadline(p.type), !.content = p.content] :
        p \in IncidentUpdate}
PatchedAssignment(row) == {[row EXCEPT !.content = x] : x \in Contents}
Patched(r, row) == CASE r \in Frias -> PatchedFria(row)
                     [] r \in Incidents -> PatchedIncident(row)
                     [] r \in Assignments -> PatchedAssignment(row)
                     [] r \in Features -> Feature

Edited(row) ==
    {[row EXCEPT !.sections = e, !.completion = Completion(e)] : e \in [Sections -> Texts]}

\* Fault: a resubmitted FRIA keeps the outcome of its last review.
SubmittedAgain(row, n) == [row EXCEPT !.status = "in_review", !.approval.submission = n]
Submitted(row, n) ==
    [row EXCEPT !.status = "in_review", !.approval = [submission |-> n, outcome |-> "none"]]
\* Fault: the outcome of a review is not checked.
ReviewedUnchecked(row) ==
    {[row EXCEPT !.status = o, !.approval.outcome = o] : o \in Outcomes \cup {"postponed"}}
Reviewed(row) == {[row EXCEPT !.status = o, !.approval.outcome = o] : o \in Outcomes}

\* The checks that end in 409, on the row as the request loaded it.
Editable(row) == row.status \in {"draft", "rejected"}
Permits(op, row) ==
    CASE op = "delete" -> row.status # "approved"
      [] op \in {"sections", "submit"} -> Editable(row)
      [] op = "review" -> row.status = "in_review"
      [] OTHER -> TRUE

Results(op, r, row, n) ==
    CASE op = "create" -> NewRows(r)
      [] op = "patch" -> Patched(r, row)
      [] op = "delete" -> {Deleted}
      [] op = "sections" -> Edited(row)
      [] op = "submit" -> {Submitted(row, n)}
      [] op = "review" -> Reviewed(row)

-----------------------------------------------------------------------------
\* The evidence log as far as it tells of one record: the submissions logged, the last event.
\* Changes of a feature are not logged.
LogEntry == [submitted : Nat, newest : {"none", "created", "submitted"} \cup Outcomes]
NewLog == [submitted |-> 0, newest |-> "none"]
Logged(r, op, entry, new) ==
    CASE op = "create" /\ r \notin Features -> [entry EXCEPT !.newest = "created"]
      [] op = "submit" -> [submitted |-> entry.submitted + 1, newest |-> "submitted"]
      [] op = "review" -> [entry EXCEPT !.newest = new.status]
      [] OTHER -> entry

-----------------------------------------------------------------------------
\* The policy gate: what it decides on the feature alone, or that a FRIA must decide.
Decisions == {"allow", "review", "block"}
Asked == Features \cup {NoFeature}

\* An unregistered feature has the status of an absent row.
Blocked(clean, f, rows) == ~clean \/ (f # NoFeature /\ rows[f].status \notin ActiveStatuses)

FeatureGate(clean, f, rows) ==
    IF Blocked(clean, f, rows) THEN "block"
    ELSE IF f = NoFeature \/ rows[f].risk # "high" THEN "allow"
    ELSE IF rows[f].system = NoSystem THEN "review" ELSE "fria"

FriaGate(system, rows) ==
    IF \E r \in Frias : rows[r].status \in {"approved", "completed"} /\ rows[r].system = system
    THEN "allow" ELSE "review"
=============================================================================
