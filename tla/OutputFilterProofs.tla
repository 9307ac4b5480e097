------------------------- MODULE OutputFilterProofs -------------------------
(***************************************************************************)
(* The promises of the output filter, for texts of any number of markers   *)
(* and any requests, structured outputs and response schemas.              *)
(***************************************************************************)
EXTENDS OutputFilterProperties, WellFoundedInduction, TLAPS

\* What the finding table says of severities: none is milder than medium, and
\* medium is the classification finding alone.
LEMMA SeverityTable ==
    ASSUME NEW type \in DOMAIN FindingTable
    PROVE  /\ FindingTable[type].severity \in {"critical", "high", "medium"}
           /\ FindingTable[type].severity = "medium"
                 <=> type = "sensitive_classification"
BY DEF FindingTable

\* Every detector's finding is in the table.
LEMMA FindingsInTable ==
    ASSUME NEW text, NEW context, NEW structured
    PROVE  Findings(text, context, structured) \subseteq DOMAIN FindingTable
<1>1. DOMAIN FindingTable =
          {"private_key_material", "jwt_like_token", "secret_pattern",
           "sensitive_response_key", "encoded_blob", "high_entropy_string",
           "cross_tenant_content", "source_sensitivity", "tool_output_source",
           "unknown_response_key", "sensitive_classification"}
  BY DEF FindingTable
<1>2. QED
  BY <1>1 DEF Findings, SchemaFindings, PatternFindings, PatternTypes,
              TenantMarkerFindings, ClassificationFindings,
              SourceSensitivityFindings

\* Only the audit log takes an output that has findings, and only when the
\* classification is all that was found: _should_block in closed form.
LEMMA BlocksUnlessAudit ==
    ASSUME NEW findings, findings \subseteq DOMAIN FindingTable,
           NEW context, context.destination \in OutputDestination
    PROVE  ShouldBlock(findings, context) <=>
              /\ findings # {}
              /\ context.destination = "audit_log" =>
                    findings \ {"sensitive_classification"} # {}
<1>1. \A type \in findings :
          /\ FindingTable[type].severity \in {"critical", "high", "medium"}
          /\ FindingTable[type].severity = "medium"
                <=> type = "sensitive_classification"
  BY SeverityTable
<1>2. Severities(findings) \cap {"critical", "high"} # {} <=>
          findings \ {"sensitive_classification"} # {}
  BY <1>1 DEF Severities
<1>3. "medium" \in Severities(findings) <=> "sensitive_classification" \in findings
  BY <1>1 DEF Severities
<1>4. QED
  BY <1>2, <1>3 DEF ShouldBlock, OutputDestination, ExternalDestinations

\* The filter's four returns.
LEMMA FilterReturns ==
    ASSUME NEW text, NEW context, NEW structured
    PROVE  LET findings == Findings(text, context, structured)
               r        == FilterOutput(text, context, structured)
           IN  /\ r.allowed <=> ~(findings # {} /\ ShouldBlock(findings, context))
               /\ r.findings = findings
               /\ r.filtered_text = text \/ r.filtered_text = {}
               /\ r.filtered_text # {} =>
                     \/ findings = {}
                     \/ /\ ~ShouldBlock(findings, context)
                        /\ context.destination # "audit_log"
               /\ ~r.allowed => r.reason = PrimaryBlockReason(findings)
<1> DEFINE findings == Findings(text, context, structured)
           r        == FilterOutput(text, context, structured)
<1>1. r = IF findings = {}
          THEN OutputFilterResult(TRUE, "output_allowed", text, {})
          ELSE IF ShouldBlock(findings, context)
          THEN OutputFilterResult(FALSE, PrimaryBlockReason(findings), {}, findings)
          ELSE IF context.destination = "audit_log"
          THEN OutputFilterResult(TRUE, "audit_log_redacted_only", {}, findings)
          ELSE OutputFilterResult(TRUE, "output_allowed", text, findings)
  BY DEF FilterOutput
<1> HIDE DEF findings, r
<1>2. /\ r.allowed <=> ~(findings # {} /\ ShouldBlock(findings, context))
      /\ r.findings = findings
      /\ r.filtered_text = text \/ r.filtered_text = {}
      /\ r.filtered_text # {} =>
            \/ findings = {}
            \/ /\ ~ShouldBlock(findings, context)
               /\ context.destination # "audit_log"
      /\ ~r.allowed => r.reason = PrimaryBlockReason(findings)
  BY <1>1 DEF OutputFilterResult
<1>3. QED
  BY <1>2 DEF findings, r

\* The context of an input is its request's, with its destination.
LEMMA ContextFields ==
    ASSUME NEW i
    PROVE  /\ Context(i).destination = i.destination
           /\ Context(i).tenant_id = i.request.tenant_id
           /\ Context(i).source_sensitivity = SourceSensitivity(i.request)
           /\ Context(i).source_labels = SourceLabels(i.request)
           /\ Context(i).strict_response_schema = i.strict
           /\ Context(i).allowed_response_keys = i.allowed
BY DEF Context, BuildFilterContextFromRequest

-----------------------------------------------------------------------------

\* The result, once there is one, is filter_output's on the chosen input.
Filtered ==
    /\ input \in [text : Texts, request : SourceRequests,
                  destination : OutputDestination,
                  structured : StructuredOutputs, strict : BOOLEAN,
                  allowed : AllowedKeys]
    /\ \/ result = None
       \/ result = FilterOutput(input.text, Context(input), input.structured)

\* filter_output runs once, on the input as it was chosen.
LEMMA FilteredInvariant == Spec => []Filtered
<1>1. Init => Filtered
  BY DEF Init, Filtered
<1>2. Filtered /\ [Filter]_vars => Filtered'
  <2> SUFFICES ASSUME Filtered, [Filter]_vars PROVE Filtered'
    OBVIOUS
  <2>1. input' = input
    BY DEF Filter, vars
  <2>2. result' = result \/ result' = FilterOutput(input.text, Context(input), input.structured)
    BY DEF Filter, vars
  <2>3. Context(input)' = Context(input)
    BY <2>1 DEF Context
  <2>4. FilterOutput(input.text, Context(input), input.structured)'
           = FilterOutput(input.text, Context(input), input.structured)
    BY <2>1, <2>3
  <2>5. QED
    BY <2>1, <2>2, <2>4 DEF Filtered
<1>3. QED
  BY <1>1, <1>2, PTL DEF Spec

\* No text is released with a finding: every finding is at least of medium
\* severity, and medium blocks wherever text is shown or sent.
THEOREM ReleasedTextIsClean == Spec => []ReleasedTextHasNoFinding
<1>1. Filtered => ReleasedTextHasNoFinding
  <2> SUFFICES ASSUME Filtered, result # None, result.filtered_text # {}
               PROVE  /\ result.filtered_text = input.text
                      /\ Findings(input.text, Context(input), input.structured) = {}
    BY DEF ReleasedTextHasNoFinding
  <2>1. PICK text, context, structured :
            text = input.text /\ context = Context(input) /\ structured = input.structured
    OBVIOUS
  <2>2. result = FilterOutput(text, context, structured)
    BY <2>1 DEF Filtered
  <2>3. context.destination \in OutputDestination
    BY <2>1, ContextFields DEF Filtered
  <2>4. PICK findings : findings = Findings(text, context, structured)
    OBVIOUS
  <2>5. /\ result.filtered_text = text
        /\ \/ findings = {}
           \/ ~ShouldBlock(findings, context) /\ context.destination # "audit_log"
    BY <2>2, <2>4, FilterReturns
  <2>6. findings \subseteq DOMAIN FindingTable
    BY <2>4, FindingsInTable
  <2>7. findings = {}
    BY <2>3, <2>5, <2>6, BlocksUnlessAudit
  <2>8. QED
    BY <2>1, <2>4, <2>5, <2>7
<1>2. QED
  BY <1>1, FilteredInvariant, PTL

\* More markers, or a destination that is at least as open, only add findings.
LEMMA FindingsGrow ==
    ASSUME NEW text, NEW more, NEW context, NEW structured
    PROVE  Findings(text, context, structured)
              \subseteq Findings(text \cup more, context, structured)
<1>1. MarkerTypes(text) \subseteq MarkerTypes(text \cup more)
  BY DEF MarkerTypes
<1>2. PatternFindings(text) \subseteq PatternFindings(text \cup more)
  BY <1>1 DEF PatternFindings
<1>3. ClassificationFindings(text) \subseteq ClassificationFindings(text \cup more)
  BY <1>1 DEF ClassificationFindings
<1>4. TenantMarkerFindings(text, context)
         \subseteq TenantMarkerFindings(text \cup more, context)
  BY DEF TenantMarkerFindings
<1>5. QED
  BY <1>2, <1>3, <1>4 DEF Findings

\* Adding sensitive content never turns a block into a pass: findings grow
\* with the text, and a larger set of findings blocks wherever a smaller does.
THEOREM MoreContentNeverPasses == Spec => []Monotone
<1>1. Filtered => Monotone
  <2> SUFFICES ASSUME Filtered, result # None, ~result.allowed, NEW m \in Markers
               PROVE  ~FilterOutput(input.text \cup {m}, Context(input),
                                    input.structured).allowed
    BY DEF Monotone
  <2>1. PICK text, context, structured :
            text = input.text /\ context = Context(input) /\ structured = input.structured
    OBVIOUS
  <2>2. result = FilterOutput(text, context, structured)
    BY <2>1 DEF Filtered
  <2>3. context.destination \in OutputDestination
    BY <2>1, ContextFields DEF Filtered
  <2>4. PICK findings, more : /\ findings = Findings(text, context, structured)
                              /\ more = Findings(text \cup {m}, context, structured)
    OBVIOUS
  <2>5. findings # {} /\ ShouldBlock(findings, context)
    BY <2>2, <2>4, FilterReturns
  <2>6. findings \subseteq more
    BY <2>4, FindingsGrow
  <2>7. findings \subseteq DOMAIN FindingTable /\ more \subseteq DOMAIN FindingTable
    BY <2>4, FindingsInTable
  <2>8. more # {} /\ ShouldBlock(more, context)
    BY <2>3, <2>5, <2>6, <2>7, BlocksUnlessAudit
  <2>9. ~FilterOutput(text \cup {m}, context, structured).allowed
    BY <2>4, <2>8, FilterReturns
  <2>10. QED
    BY <2>1, <2>9
<1>2. QED
  BY <1>1, FilteredInvariant, PTL

\* A context that differs in the destination alone, and is not external, has
\* no finding the original lacks.
LEMMA InsideFindsLess ==
    ASSUME NEW text, NEW structured, NEW i, NEW j,
           i.request = j.request, i.strict = j.strict, i.allowed = j.allowed,
           i.destination \notin ExternalDestinations
    PROVE  Findings(text, Context(i), structured)
              \subseteq Findings(text, Context(j), structured)
<1> PICK c, d : c = Context(i) /\ d = Context(j)
  OBVIOUS
<1>1. /\ c.tenant_id = d.tenant_id
      /\ c.strict_response_schema = d.strict_response_schema
      /\ c.allowed_response_keys = d.allowed_response_keys
      /\ c.destination \notin ExternalDestinations
  BY ContextFields
<1>2. SchemaFindings(structured, c) = SchemaFindings(structured, d)
  BY <1>1 DEF SchemaFindings
<1>3. TenantMarkerFindings(text, c) = TenantMarkerFindings(text, d)
  BY <1>1 DEF TenantMarkerFindings
<1>4. SourceSensitivityFindings(c) = {}
  BY <1>1 DEF SourceSensitivityFindings
<1>5. QED
  BY <1>2, <1>3, <1>4 DEF Findings

\* An external destination is never laxer than the internal display: outside,
\* any finding blocks, and inside there are no findings of its own.
THEOREM OutsideIsStricter == Spec => []ExternalIsStricter
<1>1. Filtered => ExternalIsStricter
  <2> SUFFICES ASSUME Filtered, result # None, result.allowed,
                      input.destination \in ExternalDestinations
               PROVE  FilterOutput(input.text,
                         Context([input EXCEPT !.destination = "internal_display"]),
                         input.structured).allowed
    BY DEF ExternalIsStricter
  <2>1. PICK i, j : i = input /\ j = [input EXCEPT !.destination = "internal_display"]
    OBVIOUS
  <2>2. /\ j.request = i.request /\ j.strict = i.strict /\ j.allowed = i.allowed
        /\ j.destination = "internal_display"
    BY <2>1 DEF Filtered
  <2>3. result = FilterOutput(i.text, Context(i), i.structured)
    BY <2>1 DEF Filtered
  <2>4. PICK outside, inside :
            /\ outside = Findings(i.text, Context(i), i.structured)
            /\ inside = Findings(i.text, Context(j), i.structured)
    OBVIOUS
  <2>5. ~(outside # {} /\ ShouldBlock(outside, Context(i)))
    BY <2>3, <2>4, FilterReturns
  <2>6. Context(i).destination \in ExternalDestinations
    BY <2>1, ContextFields
  <2>7. outside = {}
    BY <2>5, <2>6 DEF ShouldBlock
  <2>8. "internal_display" \notin ExternalDestinations
    BY DEF ExternalDestinations
  <2>9. inside = {}
    <3>1. j.destination \notin ExternalDestinations
      BY <2>2, <2>8
    <3>2. Findings(i.text, Context(j), i.structured)
             \subseteq Findings(i.text, Context(i), i.structured)
      BY <2>2, <3>1, InsideFindsLess, Zenon
    <3>3. QED
      BY <2>4, <2>7, <3>2
  <2>10. FilterOutput(i.text, Context(j), i.structured).allowed
    BY <2>4, <2>9, FilterReturns
  <2>11. QED
    BY <2>1, <2>10
<1>2. QED
  BY <1>1, FilteredInvariant, PTL

\* Output derived from tool output or from sensitive retrieved content never
\* leaves: whatever labels or rates the source, a finding remains outside.
THEOREM SourcesStayInside == Spec => []SensitiveSourceStaysInside
<1>1. Filtered => SensitiveSourceStaysInside
  <2> SUFFICES ASSUME Filtered, result # None,
                      input.destination \in ExternalDestinations,
                      \/ input.request.tool_output_segments # {}
                      \/ \E chunk \in input.request.retrieved_chunks :
                            \/ "classification_marker" \in chunk.content
                            \/ chunk.trust = "untrusted" /\ "sensitive" \in chunk.content
               PROVE  ~result.allowed
    BY DEF SensitiveSourceStaysInside
  <2>1. PICK text, context, structured, request :
            /\ text = input.text /\ context = Context(input)
            /\ structured = input.structured /\ request = input.request
    OBVIOUS
  <2>2. result = FilterOutput(text, context, structured)
    BY <2>1 DEF Filtered
  <2>3. /\ context.destination \in ExternalDestinations
        /\ context.source_sensitivity = SourceSensitivity(request)
        /\ context.source_labels = SourceLabels(request)
    BY <2>1, ContextFields
  <2>4. SourceSensitivityFindings(context) # {}
    <3>1. CASE request.tool_output_segments # {}
      <4>1. "tool_output_untrusted" \in SourceLabels(request)
        BY <3>1 DEF SourceLabels
      <4>2. "tool_output_source" \in SourceSensitivityFindings(context)
        BY <2>3, <4>1 DEF SourceSensitivityFindings
      <4>3. QED
        BY <4>2
    <3>2. CASE \E chunk \in request.retrieved_chunks :
                  \/ "classification_marker" \in chunk.content
                  \/ chunk.trust = "untrusted" /\ "sensitive" \in chunk.content
      <4>1. SourceSensitivity(request) \in {"sensitive", "restricted"}
        BY <3>2 DEF SourceSensitivity
      <4>2. "source_sensitivity" \in SourceSensitivityFindings(context)
        BY <2>3, <4>1 DEF SourceSensitivityFindings
      <4>3. QED
        BY <4>2
    <3>3. QED
      BY <2>1, <3>1, <3>2
  <2>5. Findings(text, context, structured) # {}
    BY <2>4 DEF Findings
  <2>6. ShouldBlock(Findings(text, context, structured), context)
    BY <2>3, <2>5 DEF ShouldBlock
  <2>7. QED
    BY <2>2, <2>5, <2>6, FilterReturns
<1>2. QED
  BY <1>1, FilteredInvariant, PTL

\* A nonempty set of naturals has a least element.
LEMMA LeastExists ==
    ASSUME NEW S, S \subseteq Nat, S # {}
    PROVE  \E i \in S : \A j \in S : i <= j
<1>1. \E i \in S : \A j \in S : ~(<<j, i>> \in OpToRel(<, Nat))
  BY WFMin, NatLessThanWellFounded, Zenon
<1>2. \A i, j \in Nat : j < i => <<j, i>> \in OpToRel(<, Nat)
  BY DEF OpToRel
<1>3. PICK i \in S : \A j \in S : ~(<<j, i>> \in OpToRel(<, Nat))
  BY <1>1, Zenon
<1>4. \A j \in S : ~(j < i)
  BY <1>2, <1>3, Zenon
<1>5. QED
  BY <1>4

\* _primary_block_reason names the reason of one of the findings: the
\* preference list leaves out the classification finding alone.
LEMMA ReasonOfFinding ==
    ASSUME NEW findings, findings \subseteq DOMAIN FindingTable, findings # {}
    PROVE  \E type \in findings : FindingTable[type].reason = PrimaryBlockReason(findings)
<1> DEFINE hits == {i \in DOMAIN BlockReasonPreference :
                       BlockReasonPreference[i] \in findings}
<1>1. CASE hits = {}
  <2>1. \A type \in DOMAIN FindingTable \ {"sensitive_classification"} :
            \E i \in DOMAIN BlockReasonPreference : BlockReasonPreference[i] = type
    BY DEF FindingTable, BlockReasonPreference
  <2>2. "sensitive_classification" \in findings
    BY <1>1, <2>1
  <2>3. QED
    BY <1>1, <2>2 DEF PrimaryBlockReason
<1>2. CASE hits # {}
  <2>1. hits \subseteq Nat
    BY DEF BlockReasonPreference
  <2>2. PICK least : least = CHOOSE i \in hits : \A j \in hits : i <= j
    OBVIOUS
  <2>3. \E i \in hits : \A j \in hits : i <= j
    BY <1>2, <2>1, LeastExists
  <2>4. least \in hits
    BY <2>2, <2>3
  <2>5. PrimaryBlockReason(findings) = FindingTable[BlockReasonPreference[least]].reason
    BY <1>2, <2>2 DEF PrimaryBlockReason
  <2>6. QED
    BY <2>4, <2>5
<1>3. QED
  BY <1>1, <1>2

\* A block's reason is that of one of its findings, so the audit names what
\* was found.
THEOREM BlocksNameAFinding == Spec => []ReasonNamesAFinding
<1>1. Filtered => ReasonNamesAFinding
  <2> SUFFICES ASSUME Filtered, result # None, ~result.allowed
               PROVE  \E type \in result.findings :
                         FindingTable[type].reason = result.reason
    BY DEF ReasonNamesAFinding
  <2>1. PICK text, context, structured :
            text = input.text /\ context = Context(input) /\ structured = input.structured
    OBVIOUS
  <2>2. result = FilterOutput(text, context, structured)
    BY <2>1 DEF Filtered
  <2>3. PICK findings : findings = Findings(text, context, structured)
    OBVIOUS
  <2>4. /\ findings # {} /\ result.findings = findings
        /\ result.reason = PrimaryBlockReason(findings)
    BY <2>2, <2>3, FilterReturns
  <2>5. findings \subseteq DOMAIN FindingTable
    BY <2>3, FindingsInTable
  <2>6. QED
    BY <2>4, <2>5, ReasonOfFinding
<1>2. QED
  BY <1>1, FilteredInvariant, PTL
=============================================================================
