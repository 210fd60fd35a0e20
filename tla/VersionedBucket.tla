--------------------------- MODULE VersionedBucket ---------------------------
(***************************************************************************)
(* The S3 bucket behind packages/tc-api-s3-document-store, as that package *)
(* uses it.  The bucket is an external service with object versioning on:  *)
(* every upload and every delete of a key adds a version, deleting a named *)
(* version removes just that version, and a read returns the newest one    *)
(* that is left.  An object is the JSON body of the Document properties of *)
(* one record; a body is a function from property names to texts, NoText   *)
(* standing for a property that is not a key of the JSON object.           *)
(***************************************************************************)
EXTENDS Naturals

CONSTANTS
    DocNames,      \* names of the properties the schema types as Document
    Texts,         \* the non-empty values such a property may hold
    NoText,        \* "not a key of the body"
    DeleteMarker   \* the body of the version a plain delete adds

ASSUME TextAssumption == NoText \notin Texts

Bodies == [DocNames -> Texts \union {NoText}]

ASSUME MarkerAssumption == DeleteMarker \notin Bodies

EmptyBody == [n \in DocNames |-> NoText]

\* Object.assign({}, under, over): every key of over wins.
Overlay(over, under) ==
    [n \in DocNames |-> IF over[n] = NoText THEN under[n] ELSE over[n]]

\* A version: the request that made it stands for the opaque VersionId, `at`
\* for the order in which S3 accepted the versions of a key.
Version(id, at, body) == [id |-> id, at |-> at, body |-> body]
VersionSet(Ids) == [id: Ids, at: Nat, body: Bodies \union {DeleteMarker}]

Newest(versions) == {v \in versions : \A w \in versions : w.at <= v.at}

\* getObject without a VersionId.  Without a version, or below a delete marker,
\* S3 answers NoSuchKey, which s3Get turns into an empty body.
Read(versions) ==
    LET found == {v \in Newest(versions) : v.body # DeleteMarker}
    IN  IF found = {} THEN EmptyBody ELSE (CHOOSE v \in found : TRUE).body

\* Faulty variant: the version is not named, so the newest one goes.
DropNewest(versions, id) == versions \ Newest(versions)

\* deleteObject with a VersionId.
DropVersion(versions, id) == {v \in versions : v.id # id}
=============================================================================
