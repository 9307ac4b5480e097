SPECIFICATION Spec
CONSTANTS
    None = None
    LLMAdapterError = LLMAdapterError
    Markers <- FilterMarkers
    Texts <- FilterTexts
    SourceRequests <- FilterRequests
    StructuredOutputs <- FilterOutputs
    AllowedKeys <- FilterAllowedKeys
INVARIANTS
    ReleasedTextHasNoFinding
    Monotone
    ExternalIsStricter
    SensitiveSourceStaysInside
    ReasonNamesAFinding
CHECK_DEADLOCK FALSE
