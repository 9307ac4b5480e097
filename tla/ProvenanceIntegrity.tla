------------------------ MODULE ProvenanceIntegrity ------------------------
(***************************************************************************)
(* Canonical provenance, its digest and its HMAC (provenance_integrity.py).*)
(* SHA-256 and HMAC-SHA256 are perfect: a digest is the value it was       *)
(* computed from under a tag, so equal digests have equal preimages.  The  *)
(* JSON serialisations are injective on the records they print and are     *)
(* represented by those records.                                           *)
(***************************************************************************)
EXTENDS Models

\* hashlib.sha256, under provenance.content_hash and every fingerprint.
Sha256(value) == [sha256 |-> value]

Hmac(key, value) == [key |-> key, hmac |-> value]

\* The lab key the broker falls back to when none is configured.
LAB_DEMO_HMAC_KEY == "lab-demo-key"

\* The signed material: every field but the signature, the ids sorted.
CanonicalizeProvenance(provenance) ==
    [source       |-> provenance.source,
     trust        |-> provenance.trust,
     context_ids  |-> Sorted(provenance.context_ids),
     tenant_id    |-> provenance.tenant_id,
     chunk_id     |-> provenance.chunk_id,
     content_hash |-> provenance.content_hash]

ComputeProvenanceHmac(provenance, key) ==
    Hmac(key, CanonicalizeProvenance(provenance))

SignProvenance(provenance, key) ==
    [provenance EXCEPT !.signature = ComputeProvenanceHmac(provenance, key)]

\* The reason verify_provenance_signature returns.  Hex digests compare without
\* regard to case, so a signature is its lower-case form; "" counts as None.
VerifyProvenanceSignature(provenance, key) ==
    IF provenance.signature = None
    THEN "provenance_signature_missing"
    ELSE IF provenance.signature # ComputeProvenanceHmac(provenance, key)
    THEN "provenance_signature_invalid"
    ELSE "provenance_signature_valid"

\* The reason verify_provenance_integrity returns: fail closed in strict mode.
VerifyProvenanceIntegrity(provenance, key, requireSignature) ==
    IF provenance = None
    THEN "missing_provenance_denied"
    ELSE IF ~requireSignature
    THEN "provenance_signature_not_required"
    ELSE VerifyProvenanceSignature(provenance, key)

IntegrityOkReasons ==
    {"provenance_signature_not_required", "provenance_signature_valid"}

=============================================================================
