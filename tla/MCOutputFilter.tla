--------------------------- MODULE MCOutputFilter ---------------------------
(***************************************************************************)
(* The output filter over a small universe of texts and sources.           *)
(***************************************************************************)
EXTENDS OutputFilterProperties

Marker(type, tenant) == [type |-> type, tenant |-> tenant]

FilterMarkers ==
    {Marker(type, None) : type \in PatternTypes \cup {"sensitive_classification"}}
        \cup {Marker("tenant_marker", tenant) : tenant \in {"tenant-a", "tenant-b"}}

Chunk(tenant, trust, content) ==
    [tenant_id |-> tenant, trust |-> trust, content |-> content]

Segment(content) == [content |-> content]

\* Requests that differ in what they retrieved and in earlier tool output.
Request(chunks, segments) ==
    [tenant_id |-> "tenant-a", retrieved_chunks |-> chunks,
     tool_output_segments |-> segments]

FilterRequests ==
    {Request({}, {}),
     Request({Chunk("tenant-b", "trusted", {"sensitive"})}, {}),
     Request({Chunk("tenant-a", "untrusted", {"sensitive"})}, {}),
     Request({Chunk("tenant-a", "trusted", {"sensitive", "classification_marker"})}, {}),
     Request({}, {Segment({})}),
     Request({}, {Segment({"confidential"})})}

FilterOutputs == {None, {}, {"status"}, {"status", "token"}, {"extra"}}

FilterAllowedKeys == {None, {"status"}}

\* Small texts: larger ones only add markers, which Monotone covers.
FilterTexts == {{}} \cup {{m, n} : m, n \in FilterMarkers}

=============================================================================
