------------------------- MODULE GovernanceRegister --------------------------
(***************************************************************************)
(* What the governance records promise: a request finds a record as it is  *)
(* and changes it in one step, by an operation that its status permits,    *)
(* and the runtime gate answers by the feature as it stands at a moment    *)
(* after the question and, if it is of high risk, by the FRIAs of its      *)
(* system at a later one.  Nothing is promised of the feature at that      *)
(* later moment: it may be blocked, or belong to another system, by then.  *)
(* GovernanceRequests shows that the requests of one API key keep that     *)
(* promise.                                                                *)
(***************************************************************************)
EXTENDS GovernanceRecords

CONSTANT Clients      \* SDK clients of the runtime gate

VARIABLES
    rows,             \* record id |-> row
    log,              \* record id |-> what the evidence log says of it
    verdict,          \* client |-> the gate's answer to its newest question
    needed            \* client |-> the system whose FRIA the answer waits for

regvars == <<rows, log, verdict, needed>>

Init ==
    /\ rows = [r \in Ids |-> Absent]
    /\ log = [r \in Ids |-> NewLog]
    /\ verdict = [c \in Clients |-> "none"]
    /\ needed = [c \in Clients |-> NoSystem]

Change(r) ==
    \E op \in OpsOn(r) :
        /\ IF op = "create" THEN rows[r] = Absent ELSE Kept(rows[r])
        /\ Permits(op, rows[r])
        /\ \E new \in Results(op, r, rows[r], log[r].submitted + 1) :
               /\ rows' = [rows EXCEPT ![r] = new]
               /\ log' = [log EXCEPT ![r] = Logged(r, op, @, new)]
        /\ UNCHANGED <<verdict, needed>>

Ask(c) ==
    /\ needed[c] = NoSystem
    /\ verdict' = [verdict EXCEPT ![c] = "none"]
    /\ UNCHANGED <<rows, log, needed>>

\* The feature answers, or names the system whose FRIA has to.
Look(c) ==
    /\ verdict[c] = "none" /\ needed[c] = NoSystem
    /\ \E clean \in BOOLEAN, f \in Asked :
           IF FeatureGate(clean, f, rows) = "fria"
           THEN needed' = [needed EXCEPT ![c] = rows[f].system] /\ UNCHANGED verdict
           ELSE verdict' = [verdict EXCEPT ![c] = FeatureGate(clean, f, rows)] /\ UNCHANGED needed
    /\ UNCHANGED <<rows, log>>

Answer(c) ==
    /\ needed[c] # NoSystem
    /\ verdict' = [verdict EXCEPT ![c] = FriaGate(needed[c], rows)]
    /\ needed' = [needed EXCEPT ![c] = NoSystem]
    /\ UNCHANGED <<rows, log>>

Next == (\E r \in Ids : Change(r)) \/ (\E c \in Clients : Ask(c) \/ Look(c) \/ Answer(c))

Spec == Init /\ [][Next]_regvars
=============================================================================
