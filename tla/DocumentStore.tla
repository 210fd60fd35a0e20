---------------------------- MODULE DocumentStore ----------------------------
(***************************************************************************)
(* packages/tc-api-s3-document-store: post, patch, delete, absorb and the  *)
(* undo functions they return, each split at the S3 requests it awaits.    *)
(* A call belongs to the API request r that made it, and writes at most    *)
(* one version of each key, so r also names the versions it writes.        *)
(*                                                                         *)
(* call[r] is the promise chain of r's call:                               *)
(*   op       which function is running ("revert" is the rollback inside   *)
(*            absorb, "undo" the function handed to the caller)            *)
(*   into     the key that is uploaded to, from the key that is deleted    *)
(*   body     what the upload sends, seen what the gets returned           *)
(*   pending  the S3 requests sent and not answered                        *)
(*   held     the writes whose VersionId the call knows                    *)
(*   out      what the caller awaits                                       *)
(*                                                                         *)
(* Faults selects what the environment may do: "get", "put", "mark",       *)
(* "drop" let that S3 request answer with an error, and "lost" lets an     *)
(* error hide a request that S3 carried out.                               *)
(***************************************************************************)
EXTENDS VersionedBucket

CONSTANTS
    Requests,  \* API requests, each making at most one docstore write
    Codes,     \* record codes (keys) of one record type
    Origin,    \* id of the versions that were there at the start
    Drafts,    \* the document bodies that are ever sent
    Faults

ASSUME CodesAssumption == Codes # {}
ASSUME OriginAssumption == Origin \notin Requests
ASSUME DraftsAssumption == Drafts \subseteq Bodies \ {EmptyBody}

VARIABLES
    bucket,    \* versions of each key
    clock,     \* how many versions each key has ever been given
    call

storeVars == <<bucket, clock, call>>

Ids == Requests \union {Origin}
Writes == {"put", "mark"}
Drops == {"dropPut", "dropMark"}
Gets == {"getInto", "getFrom"}
Ops == {"none", "post", "patch", "delete", "absorb", "revert", "undo"}

Call == [op: Ops, into: Codes, from: Codes, body: Bodies,
         seen: [into: Bodies, from: Bodies],
         pending: SUBSET (Gets \union Writes \union Drops),
         held: SUBSET Writes,
         out: {"none", "waiting", "fulfilled", "rejected"}]

\* The state is well formed: no version is newer than the clock of its key, and
\* a promise is not fulfilled while an S3 request it waits for is unanswered.
StoreTypeOK ==
    /\ bucket \in [Codes -> SUBSET VersionSet(Ids)]
    /\ clock \in [Codes -> Nat]
    /\ call \in [Requests -> Call]
    /\ \A c \in Codes : \A v \in bucket[c] : v.at <= clock[c]
    /\ \A r \in Requests : call[r].out = "fulfilled" => call[r].pending = {}

NewCall(op, into, from, body, pending) ==
    [op |-> op, into |-> into, from |-> from, body |-> body,
     seen |-> [into |-> EmptyBody, from |-> EmptyBody],
     pending |-> pending, held |-> {}, out |-> "waiting"]

NoCall ==
    LET c == CHOOSE c \in Codes : TRUE
    IN  [NewCall("none", c, c, EmptyBody, {}) EXCEPT !.out = "none"]

\* The bucket holds at most one earlier object per key.
StoreInit ==
    /\ bucket \in [Codes -> {{}} \union {{Version(Origin, 0, b)} : b \in Drafts}]
    /\ clock = [c \in Codes |-> 0]
    /\ call = [r \in Requests |-> NoCall]

-----------------------------------------------------------------------------
(* Calls.  The code of each runs synchronously up to its first S3 request. *)

Start(r, newCall) ==
    /\ call' = [call EXCEPT ![r] = newCall]
    /\ UNCHANGED <<bucket, clock>>

Post(r, code, body) == Start(r, NewCall("post", code, code, body, {"put"}))
Patch(r, code, body) == Start(r, NewCall("patch", code, code, body, {"getInto"}))
Delete(r, code) == Start(r, NewCall("delete", code, code, EmptyBody, {"mark"}))
Absorb(r, from, into) == Start(r, NewCall("absorb", into, from, EmptyBody, Gets))

\* Faulty variant: an undo that only reverts the upload.
DropsForPutOnly(held) == IF "put" \in held THEN {"dropPut"} ELSE {}

DropsFor(held) ==
    (IF "put" \in held THEN {"dropPut"} ELSE {})
        \union (IF "mark" \in held THEN {"dropMark"} ELSE {})

\* Run `op`, one deleteObject per known VersionId; it settles at once with
\* `outcome` when there is none.
Unwind(k, op, outcome) ==
    [k EXCEPT !.op = op,
              !.pending = DropsFor(k.held),
              !.out = IF k.held = {} THEN outcome ELSE "waiting"]

\* The caller runs the undo function of a call that was fulfilled.
Undo(r) == Start(r, Unwind(call[r], "undo", "fulfilled"))

-----------------------------------------------------------------------------
(* What a call does once the answers it awaits are in. *)

Missing(over, under) == {n \in DocNames : over[n] # NoText /\ under[n] = NoText}
Changed(over, under) == {n \in DocNames : over[n] # NoText /\ over[n] # under[n]}

\* Faulty variant: the upload replaces the stored object.
PatchReplaces(k) ==
    IF Changed(k.body, k.seen.into) = {}
    THEN [k EXCEPT !.out = "fulfilled"]
    ELSE [k EXCEPT !.pending = {"put"}]

PatchMerge(k) ==
    IF Changed(k.body, k.seen.into) = {}
    THEN [k EXCEPT !.out = "fulfilled"]
    ELSE [k EXCEPT !.body = Overlay(k.body, k.seen.into), !.pending = {"put"}]

\* Faulty variant: an object that is there already is left as it is.
AbsorbFillsEmpty(k) == k.seen.into = EmptyBody

AbsorbNeedsPut(k) == Missing(k.seen.from, k.seen.into) # {}

AbsorbMerge(k) ==
    IF k.seen.from = EmptyBody
    THEN [k EXCEPT !.out = "fulfilled"]
    ELSE [k EXCEPT !.body = Overlay(k.seen.into, k.seen.from),
                   !.pending = {"mark"} \union (IF AbsorbNeedsPut(k) THEN {"put"} ELSE {})]

\* Faulty variant: absorb goes on with the first answer.
AfterFirstGet(k) == IF k.op = "patch" THEN PatchMerge(k) ELSE AbsorbMerge(k)

AfterGet(k) ==
    IF k.pending # {} THEN k
    ELSE IF k.op = "patch" THEN PatchMerge(k)
    ELSE AbsorbMerge(k)

\* absorb inspects the two VersionIds and rolls back when one it needs is
\* missing; the other calls hand back whatever they have.
AfterWrite(k) ==
    IF k.pending # {} \/ k.out # "waiting" THEN k
    ELSE IF k.op # "absorb" \/ ("mark" \in k.held /\ (AbsorbNeedsPut(k) => "put" \in k.held))
    THEN [k EXCEPT !.out = "fulfilled"]
    ELSE Unwind(k, "revert", "rejected")

AfterDrop(k) ==
    IF k.pending # {} \/ k.out # "waiting" THEN k
    ELSE [k EXCEPT !.out = IF k.op = "undo" THEN "fulfilled" ELSE "rejected"]

-----------------------------------------------------------------------------
(* S3 answers. *)

Answered(r, step) == [call[r] EXCEPT !.pending = @ \ {step}]

GetInto(r) ==
    /\ "getInto" \in call[r].pending
    /\ call' = [call EXCEPT ![r] =
                  AfterGet([Answered(r, "getInto") EXCEPT
                              !.seen.into = Read(bucket[call[r].into])])]
    /\ UNCHANGED <<bucket, clock>>

GetFrom(r) ==
    /\ "getFrom" \in call[r].pending
    /\ call' = [call EXCEPT ![r] =
                  AfterGet([Answered(r, "getFrom") EXCEPT
                              !.seen.from = Read(bucket[call[r].from])])]
    /\ UNCHANGED <<bucket, clock>>

\* Any error but NoSuchKey is rethrown; the answer to a sibling get is not
\* looked at.
GetFails(r) ==
    /\ "get" \in Faults
    /\ call[r].pending \cap Gets # {}
    /\ call' = [call EXCEPT ![r].pending = {}, ![r].out = "rejected"]
    /\ UNCHANGED <<bucket, clock>>

AddVersion(r, code, body) ==
    /\ bucket' = [bucket EXCEPT ![code] = @ \union {Version(r, clock[code] + 1, body)}]
    /\ clock' = [clock EXCEPT ![code] = @ + 1]

\* A failing S3 request changes nothing, unless only its answer was lost.
Lost(effect) == "lost" \in Faults /\ effect
NotDone == UNCHANGED <<bucket, clock>>

PutLands(r) ==
    /\ "put" \in call[r].pending
    /\ AddVersion(r, call[r].into, call[r].body)
    /\ call' = [call EXCEPT ![r] =
                  AfterWrite([Answered(r, "put") EXCEPT !.held = @ \union {"put"}])]

\* upload() swallows the error and returns false for the VersionId.
PutFails(r) ==
    /\ "put" \in Faults
    /\ "put" \in call[r].pending
    /\ NotDone \/ Lost(AddVersion(r, call[r].into, call[r].body))
    /\ call' = [call EXCEPT ![r] = AfterWrite(Answered(r, "put"))]

MarkLands(r) ==
    /\ "mark" \in call[r].pending
    /\ AddVersion(r, call[r].from, DeleteMarker)
    /\ call' = [call EXCEPT ![r] =
                  AfterWrite([Answered(r, "mark") EXCEPT !.held = @ \union {"mark"}])]

\* s3Delete rethrows, and Promise.all rejects while the upload of an absorb
\* may still be on its way.
MarkFails(r) ==
    /\ "mark" \in Faults
    /\ "mark" \in call[r].pending
    /\ NotDone \/ Lost(AddVersion(r, call[r].from, DeleteMarker))
    /\ call' = [call EXCEPT ![r] = [Answered(r, "mark") EXCEPT !.out = "rejected"]]

EraseVersion(r, code) ==
    /\ bucket' = [bucket EXCEPT ![code] = DropVersion(@, r)]
    /\ UNCHANGED clock

DroppedKey(r, drop) == IF drop = "dropPut" THEN call[r].into ELSE call[r].from

DropLands(r, drop) ==
    /\ drop \in call[r].pending
    /\ EraseVersion(r, DroppedKey(r, drop))
    /\ call' = [call EXCEPT ![r] = AfterDrop(Answered(r, drop))]

DropFails(r, drop) ==
    /\ "drop" \in Faults
    /\ drop \in call[r].pending
    /\ NotDone \/ Lost(EraseVersion(r, DroppedKey(r, drop)))
    /\ call' = [call EXCEPT ![r] = [Answered(r, drop) EXCEPT !.out = "rejected"]]

StoreAnswers(r) ==
    \/ GetInto(r)
    \/ GetFrom(r)
    \/ GetFails(r)
    \/ PutLands(r)
    \/ PutFails(r)
    \/ MarkLands(r)
    \/ MarkFails(r)
    \/ \E drop \in Drops : DropLands(r, drop) \/ DropFails(r, drop)

-----------------------------------------------------------------------------
(* The store on its own: every request makes one call and may undo it. *)

CallStore(r) ==
    /\ call[r].op = "none"
    /\ \/ \E c \in Codes, b \in Drafts : Post(r, c, b) \/ Patch(r, c, b)
       \/ \E c \in Codes : Delete(r, c)
       \/ \E from, into \in Codes : from # into /\ Absorb(r, from, into)

CallUndo(r) ==
    /\ call[r].out = "fulfilled"
    /\ call[r].op # "undo"
    /\ Undo(r)

StoreNext == \E r \in Requests : CallStore(r) \/ CallUndo(r) \/ StoreAnswers(r)

StoreSpec == StoreInit /\ [][StoreNext]_storeVars

-----------------------------------------------------------------------------
(* Properties of the store. *)

Settled(r) == call[r].out # "waiting" /\ call[r].pending = {}
WroteVersion(r, code) == \E v \in bucket[code] : v.id = r
Traceless(r) == \A c \in Codes : ~ WroteVersion(r, c)

\* A call that was rejected, or that its caller has undone, leaves no version
\* behind in any key: the rollback inside absorb and the undo functions find
\* everything the call wrote, whatever other calls did in between.
FailedCallLeavesNothing ==
    \A r \in Requests :
        Settled(r) /\ (call[r].out = "rejected" \/ call[r].op = "undo") => Traceless(r)

\* While an absorb that was fulfilled has not been undone, its upload to the
\* key that stays carries every text it read under the absorbed key and the
\* other key lacked, although nothing but the upload holds them any more and
\* the upload may have failed without an error.
AbsorbCarriesText ==
    \A r \in Requests :
        LET k == call[r] IN
        k.op = "absorb" /\ k.out = "fulfilled" /\ k.seen.from # EmptyBody =>
            \A n \in Missing(k.seen.from, k.seen.into) :
                \E v \in bucket[k.into] : v.id = r /\ v.body[n] = k.seen.from[n]

\* A version only ever leaves the bucket in a rollback or an undo of the very
\* call that wrote it; the earlier objects are never lost.
OnlyOwnUndoErases ==
    [][\A c \in Codes : \A v \in bucket[c] \ bucket'[c] :
          v.id \in Requests /\ call[v.id].op \in {"undo", "revert"}]_storeVars

=============================================================================
