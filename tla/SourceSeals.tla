----------------------------- MODULE SourceSeals -----------------------------
(***************************************************************************)
(* The signed envelope of a source surface (py/morphe_surface/source.py):  *)
(* a kernel seals the schema and the content of a minimized model, binds   *)
(* both to who it is, what the surface is and how long it holds, and signs *)
(* that testimony; a host verifies what it was handed against a key of the *)
(* issuer.  A hash is what it is of, so that two are the same only of the  *)
(* same; a signature can be made by the holder of its key only.  A time is *)
(* a number, and 0 is no time.                                             *)
(***************************************************************************)
EXTENDS Naturals, FiniteSets

CONSTANTS
    public_keys,      \* [issuer |-> .., key_id |-> .., key |-> ..], one per pair
    Families,         \* the surface ids that parse
    Conforming        \* [schema |-> .., data |-> ..], where the data match the
                      \* schema, which is minimal, local and supported

ASSUME SealAssumption ==
    \A k \in public_keys : k = [issuer |-> k.issuer, key_id |-> k.key_id, key |-> k.key]

_sha256(doc) == [sha256 |-> doc]
sign(key, message) == [by |-> key, of |-> message]

Signed == {"issuer", "surface_id", "source_revision", "produced_at", "valid_until",
           "view_model", "required_capabilities", "key_id"}

(* The fields of an envelope before it is sealed.                          *)
Filled == Signed \cup {"schema", "data", "diagnostics"}

_content_document(a) == [data |-> a.data, diagnostics |-> a.diagnostics]

_testimony_document(a, schema_sha256, content_sha256) ==
    [fields |-> [f \in Signed |-> a[f]],
     schema_sha256 |-> schema_sha256, content_sha256 |-> content_sha256]

TestimonyOf(a) ==
    _sha256(_testimony_document(a, _sha256(a.schema), _sha256(_content_document(a))))

(* What is signed: `a' has the fields of the envelope and what they carry. *)
prepare_source_surface(a, signing_key) ==
    [f \in DOMAIN a \cup {"schema_sha256", "content_sha256", "testimony_sha256", "signature"} |->
       CASE f = "schema_sha256" -> _sha256(a.schema)
         [] f = "content_sha256" -> _sha256(_content_document(a))
         [] f = "testimony_sha256" -> TestimonyOf(a)
         [] f = "signature" -> sign(signing_key, TestimonyOf(a))
         [] OTHER -> a[f]]

\* A fault: a key is looked up by its id alone.
KeysOfId(a) == {k \in public_keys : k.key_id = a.key_id}

KeysOfIssuer(a) == {k \in public_keys : k.issuer = a.issuer /\ k.key_id = a.key_id}

TrustedKeys(a) == {k.key : k \in KeysOfIssuer(a)}

(* The seals that it carries are those of what it carries.                 *)
MatchingSeals(a) ==
    /\ a.schema_sha256 = _sha256(a.schema)
    /\ a.content_sha256 = _sha256(_content_document(a))
    /\ a.testimony_sha256 = TestimonyOf(a)

(* A host that does not say what time it is takes what has run out, too.   *)
Holds(a, now) == now = 0 \/ a.valid_until = 0 \/ now <= a.valid_until

verify_source_surface(a, expected_issuer, expected_surface_id, now) ==
    /\ a.issuer = expected_issuer
    /\ expected_surface_id \in Families /\ a.surface_id = expected_surface_id
    /\ Holds(a, now)
    /\ MatchingSeals(a)
    /\ \E key \in TrustedKeys(a) : a.signature = sign(key, TestimonyOf(a))
    /\ [schema |-> a.schema, data |-> a.data] \in Conforming

-----------------------------------------------------------------------------
(* An artifact that was put together of parts of two, by a store or a      *)
(* cache that was interrupted, say.                                        *)
Splices(a, b) ==
    LET parts == {f \in DOMAIN a : a[f] # b[f]}
    IN  {[f \in DOMAIN a |-> IF f \in taken THEN b[f] ELSE a[f]] : taken \in SUBSET parts}

Envelope == Filled \cup {"schema_sha256", "content_sha256", "testimony_sha256", "signature"}

(* Only the holder of a key signs with it: a signature was issued.         *)
IsSealed(a, issued) ==
    /\ a = [f \in Envelope |-> a[f]]
    /\ \E i \in issued : a.signature = i.signature

(* What verifies is one whole testimony, of the issuer and the surface     *)
(* that were asked for, under a key of that issuer, while it holds; and    *)
(* each of those verifies.                                                 *)
OnlyTestimonyVerifies(a, issued, expected_issuer, expected_surface_id, now) ==
    verify_source_surface(a, expected_issuer, expected_surface_id, now) <=>
      /\ a \in issued
      /\ <<a.issuer, a.surface_id>> = <<expected_issuer, expected_surface_id>>
      /\ [issuer |-> a.issuer, key_id |-> a.key_id, key |-> a.signature.by] \in public_keys
      /\ a.surface_id \in Families /\ [schema |-> a.schema, data |-> a.data] \in Conforming
      /\ a.valid_until # 0 /\ now # 0 => now <= a.valid_until
=============================================================================
