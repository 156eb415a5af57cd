---------------------------- MODULE EvidenceVault ----------------------------
(***************************************************************************)
(* Evidence items and their artifacts (evidence_vault_service.py): what a  *)
(* request makes of one item.  The seal of an item (its hash and the HMAC  *)
(* over it) is the record of the columns it was computed from.  Title,     *)
(* type, source, owner, status and dates are one column "content", a date  *)
(* by its instant.  The id of a control holds the system of its row, which *)
(* nothing changes.                                                        *)
(***************************************************************************)
EXTENDS ControlRegister, Sequences

Contents == {"given", "edited", "placeholder"}

\* The metadata is a dictionary that the service extends and that a client may write as a
\* whole.  Its two lists are those that the service extends: of the client's entries some
\* name an artifact, of this item or of another, and some name nothing (None).  Lists of
\* another shape make the requests that extend them fail.  Bound: one entry of the client's.
NoMetadata == [attachments |-> <<>>, artifacts |-> <<>>]
ClientMetadata(artifacts) ==
    {NoMetadata} \cup [attachments : {<<None>>},
                       artifacts : {<<artifact>> : artifact \in artifacts \cup {None}}]

Fingerprint(item) ==
    [system |-> item.system, control |-> item.control, content |-> item.content, metadata |-> item.metadata]
Sealed(item) == [item EXCEPT !.seal = Fingerprint(item)]

Item(system, control, content, metadata) ==
    Sealed([system |-> system, control |-> control, content |-> content,
            metadata |-> metadata, seal |-> None])

\* The links of an item agree when the control is of no system or of the item's.
SystemOf(control) == IF control = None THEN None ELSE control.system
Agree(system, control) == None \in {system, SystemOf(control)} \/ system = SystemOf(control)

\* Fault: an item without a system stays without one.
SystemAsGiven(system, control) == system
ResolvedSystem(system, control) == IF system = None THEN SystemOf(control) ELSE system

NewItem(system, control, metadata) ==
    Item(ResolvedSystem(system, control), control, "given", metadata)

\* PATCH: columns that the payload leaves out keep their value.
Patched(item, system, control, content, metadata) ==
    Sealed([item EXCEPT !.system = ResolvedSystem(system, control), !.control = control,
                        !.content = content, !.metadata = metadata])

\* The attachment history keeps ten entries, the newest first.
WithAttachment(metadata, control) ==
    [metadata EXCEPT !.attachments =
        LET all == <<control>> \o @ IN SubSeq(all, 1, IF Len(all) > 10 THEN 10 ELSE Len(all))]

Attached(item, control) ==
    Sealed([item EXCEPT !.system = ResolvedSystem(@, control), !.control = control,
                        !.metadata = WithAttachment(@, control)])

\* An artifact has a new id, so that no entry of the list before names it.
Artifact(item, backend, object) == [item |-> item, backend |-> backend, object |-> object]
WithArtifact(item, artifact) ==
    Sealed([item EXCEPT !.metadata.artifacts = <<artifact>> \o @])
=============================================================================
