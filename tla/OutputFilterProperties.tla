----------------------- MODULE OutputFilterProperties -----------------------
(***************************************************************************)
(* What the output filter promises for every text, source, destination and *)
(* structured output: one step filters the chosen input.                   *)
(***************************************************************************)
EXTENDS OutputFilter

CONSTANTS
    Markers,             \* what the detectors may find
    Texts,               \* texts: sets of markers
    SourceRequests,      \* requests an output answers
    StructuredOutputs,   \* key sets of structured outputs, None without one
    AllowedKeys          \* key sets a response schema allows, None for any

VARIABLES input, result

\* The request's own context, or one with a response schema.
Context(i) ==
    [BuildFilterContextFromRequest(i.request, i.destination) EXCEPT
        !.strict_response_schema = i.strict,
        !.allowed_response_keys = i.allowed]

vars == <<input, result>>

Init ==
    /\ input \in [text : Texts, request : SourceRequests,
                  destination : OutputDestination,
                  structured : StructuredOutputs, strict : BOOLEAN,
                  allowed : AllowedKeys]
    /\ result = None

\* filter_output on the chosen input.
Filter ==
    /\ result = None
    /\ result' = FilterOutput(input.text, Context(input), input.structured)
    /\ UNCHANGED input

Spec == Init /\ [][Filter]_vars

-----------------------------------------------------------------------------

\* Nothing flagged is released: text that comes out of the filter has no
\* finding, at any destination, so filter_output's last return (findings, yet
\* text allowed) is never taken.
ReleasedTextHasNoFinding ==
    result # None /\ result.filtered_text # {} =>
        /\ result.filtered_text = input.text
        /\ Findings(input.text, Context(input), input.structured) = {}

\* Adding sensitive content never turns a block into a pass.
Monotone ==
    result # None /\ ~result.allowed =>
        \A m \in Markers :
            ~FilterOutput(input.text \cup {m}, Context(input),
                          input.structured).allowed

\* An external destination is never laxer than the internal display.
ExternalIsStricter ==
    result # None /\ result.allowed /\ input.destination \in ExternalDestinations =>
        FilterOutput(input.text,
                     Context([input EXCEPT !.destination = "internal_display"]),
                     input.structured).allowed

\* Output derived from tool output or from sensitive retrieved content never
\* leaves for an external destination, however clean its own text is.
SensitiveSourceStaysInside ==
    /\ result # None
    /\ input.destination \in ExternalDestinations
    /\ \/ input.request.tool_output_segments # {}
       \/ \E chunk \in input.request.retrieved_chunks :
              \/ "classification_marker" \in chunk.content
              \/ chunk.trust = "untrusted" /\ "sensitive" \in chunk.content
    => ~result.allowed

\* The reason a block reports is the reason of one of its findings.
ReasonNamesAFinding ==
    result # None /\ ~result.allowed =>
        \E type \in result.findings : FindingTable[type].reason = result.reason

=============================================================================
