---------------------------- MODULE OutputFilter ----------------------------
(***************************************************************************)
(* The layered output filter (output_filter.py).  A text is the set of     *)
(* markers its detectors find in it: a marker has a type, and a tenant     *)
(* marker names a tenant.  The regular expressions, the entropy measure    *)
(* and the base64 heuristic that find the markers are abstracted away, and *)
(* so are the redacted samples.  The content of a chunk or segment is the  *)
(* set of the words build_filter_context_from_request looks for in it.     *)
(***************************************************************************)
EXTENDS Models

ExternalDestinations == {"external_email", "external_export", "webhook"}

OutputDestination == {"internal_display", "audit_log"} \cup ExternalDestinations

SensitiveResponseKeys ==
    {"password", "secret", "api_key", "apikey", "token", "private_key",
     "credential", "access_token"}

\* The detectors of _pattern_findings and _entropy_findings: the marker's
\* type is also the finding's type.
PatternTypes ==
    {"private_key_material", "jwt_like_token", "secret_pattern",
     "encoded_blob", "high_entropy_string"}

\* finding_type -> [severity, reason], as every _finding(...) call pairs them.
FindingTable ==
    [private_key_material     |-> [severity |-> "critical",
                                   reason |-> "private_key_material_blocked"],
     jwt_like_token           |-> [severity |-> "critical",
                                   reason |-> "jwt_like_token_blocked"],
     secret_pattern           |-> [severity |-> "critical",
                                   reason |-> "secret_pattern_blocked"],
     sensitive_response_key   |-> [severity |-> "critical",
                                   reason |-> "sensitive_response_key_blocked"],
     encoded_blob             |-> [severity |-> "high",
                                   reason |-> "encoded_blob_blocked"],
     high_entropy_string      |-> [severity |-> "high",
                                   reason |-> "high_entropy_string_blocked"],
     cross_tenant_content     |-> [severity |-> "high",
                                   reason |-> "cross_tenant_output_blocked"],
     source_sensitivity       |-> [severity |-> "high",
                         reason |-> "sensitive_source_external_destination_blocked"],
     tool_output_source       |-> [severity |-> "high",
                         reason |-> "tool_output_external_destination_blocked"],
     unknown_response_key     |-> [severity |-> "high",
                                   reason |-> "unknown_response_key_blocked"],
     sensitive_classification |-> [severity |-> "medium",
                                   reason |-> "sensitive_classification_detected"]]

MarkerTypes(text) == {marker.type : marker \in text}

PatternFindings(text) == MarkerTypes(text) \cap PatternTypes

\* MUTANT of TenantMarkerFindings: search for finditer, only the first tenant
\* named, the caller's own if it is there, is compared.
FirstTenantMarkerOnly(text, context) ==
    LET named == {marker.tenant : marker \in {m \in text : m.type = "tenant_marker"}}
    IN  IF context.tenant_id # None /\ named # {} /\ context.tenant_id \notin named
        THEN {"cross_tenant_content"}
        ELSE {}

TenantMarkerFindings(text, context) ==
    IF /\ context.tenant_id # None
       /\ \E marker \in text : /\ marker.type = "tenant_marker"
                               /\ marker.tenant # context.tenant_id
    THEN {"cross_tenant_content"}
    ELSE {}

ClassificationFindings(text) == MarkerTypes(text) \cap {"sensitive_classification"}

\* MUTANT of SourceSensitivityFindings: only the sensitivity level is checked.
SourceFindingsWithoutToolOutput(context) ==
    IF context.destination \in ExternalDestinations /\
       context.source_sensitivity \in {"sensitive", "restricted"}
    THEN {"source_sensitivity"}
    ELSE {}

SourceSensitivityFindings(context) ==
    {type \in {"source_sensitivity", "tool_output_source"} :
        /\ context.destination \in ExternalDestinations
        /\ type = "source_sensitivity" =>
              context.source_sensitivity \in {"sensitive", "restricted"}
        /\ type = "tool_output_source" =>
              "tool_output_untrusted" \in context.source_labels}

\* `structured` is None or the set of the keys of the structured output.
SchemaFindings(structured, context) ==
    {type \in {"sensitive_response_key", "unknown_response_key"} :
        /\ structured # None
        /\ type = "sensitive_response_key" =>
              structured \cap SensitiveResponseKeys # {}
        /\ type = "unknown_response_key" =>
              /\ context.strict_response_schema
              /\ context.allowed_response_keys # None
              /\ structured \ context.allowed_response_keys # {}}

\* The findings after _dedupe_findings, by type.
Findings(text, context, structured) ==
    UNION {SchemaFindings(structured, context),
           PatternFindings(text),
           TenantMarkerFindings(text, context),
           ClassificationFindings(text),
           SourceSensitivityFindings(context)}

Severities(findings) == {FindingTable[type].severity : type \in findings}

\* MUTANT of ShouldBlock: a medium finding passes to the internal display.
BlockHighOnly(findings, context) ==
    \/ Severities(findings) \cap {"critical", "high"} # {}
    \/ findings # {} /\ context.destination \in ExternalDestinations

\* MUTANT of ShouldBlock: external destinations get no rule of their own.
BlockWithoutDestination(findings, context) ==
    \/ Severities(findings) \cap {"critical", "high"} # {}
    \/ /\ context.destination = "internal_display"
       /\ "medium" \in Severities(findings)

\* MUTANT of ShouldBlock: the lowest severity decides instead of the highest.
BlockOnLowestSeverity(findings, context) ==
    \/ findings # {} /\ "medium" \notin Severities(findings)
    \/ findings # {} /\ context.destination # "audit_log"

\* _highest_severity is critical or high; or the destination is external;
\* or the destination is the internal display and the highest is medium.
ShouldBlock(findings, context) ==
    \/ Severities(findings) \cap {"critical", "high"} # {}
    \/ findings # {} /\ context.destination \in ExternalDestinations
    \/ /\ context.destination = "internal_display"
       /\ "medium" \in Severities(findings)

BlockReasonPreference ==
    <<"secret_pattern", "private_key_material", "jwt_like_token",
      "encoded_blob", "high_entropy_string", "cross_tenant_content",
      "source_sensitivity", "tool_output_source",
      "sensitive_response_key", "unknown_response_key">>

\* MUTANT of PrimaryBlockReason: the fallback returns the loop variable.
LoopVariableReason(findings) ==
    LET hits == {i \in DOMAIN BlockReasonPreference :
                    BlockReasonPreference[i] \in findings}
    IN  FindingTable[BlockReasonPreference[
            IF hits = {} THEN Len(BlockReasonPreference)
            ELSE CHOOSE i \in hits : \A j \in hits : i <= j]].reason

\* The first preferred finding's reason; findings[0].reason when none is
\* preferred, which leaves the classification finding alone.
PrimaryBlockReason(findings) ==
    LET hits == {i \in DOMAIN BlockReasonPreference :
                    BlockReasonPreference[i] \in findings}
    IN  IF hits = {}
        THEN FindingTable["sensitive_classification"].reason
        ELSE FindingTable[BlockReasonPreference[
                CHOOSE i \in hits : \A j \in hits : i <= j]].reason

OutputFilterResult(allowed, reason, filteredText, findings) ==
    [allowed       |-> allowed,
     reason        |-> reason,
     filtered_text |-> filteredText,
     findings      |-> findings]

FilterOutput(text, context, structured) ==
    LET findings == Findings(text, context, structured)
    IN  IF findings = {}
        THEN OutputFilterResult(TRUE, "output_allowed", text, {})
        ELSE IF ShouldBlock(findings, context)
        THEN OutputFilterResult(FALSE, PrimaryBlockReason(findings), {}, findings)
        ELSE IF context.destination = "audit_log"
        THEN OutputFilterResult(TRUE, "audit_log_redacted_only", {}, findings)
        ELSE OutputFilterResult(TRUE, "output_allowed", text, findings)

-----------------------------------------------------------------------------
(* build_filter_context_from_request *)

\* The highest sensitivity any chunk or segment contributes (_max_sensitivity).
SourceSensitivity(request) ==
    IF \E segment \in request.tool_output_segments :
          segment.content \cap {"sensitive", "confidential"} # {}
    THEN "restricted"
    ELSE IF \E chunk \in request.retrieved_chunks :
          \/ "classification_marker" \in chunk.content
          \/ chunk.trust = "untrusted" /\ "sensitive" \in chunk.content
    THEN "sensitive"
    ELSE "public"

SourceLabels(request) ==
    {label \in {"retrieved_cross_tenant", "tool_output_untrusted"} :
        /\ label = "retrieved_cross_tenant" =>
              \E chunk \in request.retrieved_chunks :
                  chunk.tenant_id # request.tenant_id
        /\ label = "tool_output_untrusted" =>
              request.tool_output_segments # {}}

BuildFilterContextFromRequest(request, destination) ==
    [tenant_id              |-> request.tenant_id,
     destination            |-> destination,
     source_sensitivity     |-> SourceSensitivity(request),
     source_labels          |-> SourceLabels(request),
     strict_response_schema |-> FALSE,
     allowed_response_keys  |-> None]

=============================================================================
