--------------------------- MODULE MCAuditLogger ---------------------------
(***************************************************************************)
(* Audit events in which one or two values hold something to redact.       *)
(***************************************************************************)
EXTENDS AuditLogger

Plain == [name \in ToSet(Fields) |-> <<"text">>]

Texts ==
    {<<"text">>, <<"credential">>, <<"begin", "text", "end">>,
     <<"begin", "text">>, <<"end">>}

MCEvents ==
    {[Plain EXCEPT ![first] = s, ![second] = t] :
        first, second \in ToSet(Fields) \ {"stage"}, s, t \in Texts}

=============================================================================
