---------------------------- MODULE AuditLogger ----------------------------
(***************************************************************************)
(* The audit file (audit_logger.py): one redacted JSON line per event.     *)
(* A line is a sequence of tokens: the names of the fields, the brackets   *)
(* of lists, and for the text of the values what the redaction patterns    *)
(* tell apart: "credential" (an API key or a JWT, matched as a whole),     *)
(* "begin" and "end" (a private key's BEGIN header and an END marker) and  *)
(* "text".  json.dumps escapes quotes and line breaks, so a value never    *)
(* adds a delimiter of its own.                                            *)
(***************************************************************************)
EXTENDS SequencesExt, Naturals

CONSTANTS
    Events,     \* functions from Fields to the tokens of their values
    MaxEvents   \* bound on the number of events written

VARIABLE log    \* the lines of the file

\* The fields whose text comes from requests and model turns, in the order of
\* write's record, and the last two that the program words itself.
Fields ==
    <<"correlation_id", "request_id", "user_id", "session_id", "tenant_id",
      "target", "source_context_ids", "policy_reason", "stage">>

ListFields == {"source_context_ids"}

\* The scan of one _redact pass: credentials are replaced where they stand; a
\* private key from its BEGIN header lazily to the first END marker.
ScanToken(scan, token) ==
    CASE scan.open = << >> /\ token = "begin" -> [scan EXCEPT !.open = <<token>>]
      [] scan.open = << >> /\ token = "credential" ->
            [scan EXCEPT !.kept = Append(@, "[REDACTED]")]
      [] scan.open = << >> -> [scan EXCEPT !.kept = Append(@, token)]
      [] scan.open # << >> /\ token = "end" ->
            [kept |-> Append(scan.kept, "[REDACTED]"), open |-> << >>]
      [] OTHER -> [scan EXCEPT !.open = Append(@, token)]

\* A BEGIN header without an END marker matches nothing; the credentials after
\* it have been replaced by the earlier patterns.
Redact(tokens) ==
    LET scan == FoldLeft(ScanToken, [kept |-> << >>, open |-> << >>], tokens)
    IN  scan.kept \o [i \in DOMAIN scan.open |->
            IF scan.open[i] = "credential" THEN "[REDACTED]" ELSE scan.open[i]]

\* json.dumps of one field.
FieldTokens(event, name) ==
    <<name>> \o (IF name \in ListFields THEN <<"[">> \o event[name] \o <<"]">>
                 ELSE IF name = "policy_reason" THEN Redact(event[name])
                 ELSE event[name])

Line(event) == FlattenSeq([i \in DOMAIN Fields |-> FieldTokens(event, Fields[i])])

Init == log = << >>

\* write: the record is serialised, the line redacted and appended.
Write ==
    /\ Len(log) < MaxEvents
    /\ \E event \in Events : log' = Append(log, Redact(Line(event)))

Next == Write

Spec == Init /\ [][Next]_log

-----------------------------------------------------------------------------
(* read_events *)

\* json.loads accepts the line: the list's brackets are both there or neither.
Readable(line) == ("[" \in ToSet(line)) <=> ("]" \in ToSet(line))

RequiredFields == ToSet(Fields) \ {"target", "source_context_ids"}

\* docs/audit-event-taxonomy.md lists the fields every event has (Required:
\* yes): whatever its values hold, a written event can be read back with them.
RequiredFieldsSurvive ==
    \A i \in DOMAIN log :
        Readable(log[i]) /\ RequiredFields \subseteq ToSet(log[i])

=============================================================================
