------------------------ MODULE RecordHandlersProofs ------------------------
(***************************************************************************)
(* Theorems about RecordHandlers and the document store below it.          *)
(***************************************************************************)
EXTENDS RecordHandlers, TLAPS

-----------------------------------------------------------------------------
(* Operators. *)

LEMMA EmptyBodyType == EmptyBody \in Bodies
BY DEF EmptyBody, Bodies

LEMMA OverlayType == ASSUME NEW a \in Bodies, NEW b \in Bodies PROVE Overlay(a, b) \in Bodies
BY DEF Overlay, Bodies

\* A read returns a body, whatever the versions.
LEMMA ReadType ==
    ASSUME NEW Id, NEW versions \in SUBSET VersionSet(Id) PROVE Read(versions) \in Bodies
<1> DEFINE found == {v \in Newest(versions) : v.body # DeleteMarker}
<1>1. found \subseteq versions
  BY DEF Newest
<1>2. CASE found = {}
  BY <1>2, EmptyBodyType DEF Read
<1>3. CASE found # {}
  <2>1. (CHOOSE v \in found : TRUE) \in found
    BY <1>3
  <2>2. (CHOOSE v \in found : TRUE).body \in Bodies
    BY <2>1, <1>1 DEF VersionSet
  <2> QED
    BY <1>3, <2>2 DEF Read
<1> QED
  BY <1>2, <1>3

LEMMA NewCallType ==
    ASSUME NEW op \in Ops, NEW into \in Codes, NEW from \in Codes, NEW body \in Bodies,
           NEW pending \in SUBSET (Gets \union Writes \union Drops)
    PROVE  NewCall(op, into, from, body, pending) \in Call
BY EmptyBodyType DEF NewCall, Call

LEMMA NoCallType ==
    /\ NoCall \in Call
    /\ NoCall.op = "none" /\ NoCall.out = "none" /\ NoCall.pending = {} /\ NoCall.held = {}
<1> DEFINE c == CHOOSE c \in Codes : TRUE
<1>1. c \in Codes
  BY CodesAssumption
<1>2. NewCall("none", c, c, EmptyBody, {}) \in Call
  BY <1>1, EmptyBodyType, NewCallType DEF Ops
<1> HIDE DEF c
<1>3. NewCall("none", c, c, EmptyBody, {}).op = "none"
      /\ NewCall("none", c, c, EmptyBody, {}).pending = {}
      /\ NewCall("none", c, c, EmptyBody, {}).held = {}
  BY DEF NewCall
<1>4. NoCall = [NewCall("none", c, c, EmptyBody, {}) EXCEPT !.out = "none"]
  BY DEF NoCall, c
<1> QED
  BY <1>2, <1>3, <1>4 DEF Call

LEMMA UnwindType ==
    ASSUME NEW k \in Call, NEW op \in Ops, NEW outcome \in {"fulfilled", "rejected"}
    PROVE  /\ Unwind(k, op, outcome) \in Call
           /\ Unwind(k, op, outcome).out = "fulfilled" => Unwind(k, op, outcome).pending = {}
BY DEF Unwind, Call, DropsFor, Writes, Drops

\* A promise chain that goes on after its answers remains a well formed call.
WellFormed(k) == k \in Call /\ (k.out = "fulfilled" => k.pending = {})

LEMMA AfterGetType ==
    ASSUME NEW k \in Call, k.out # "fulfilled" PROVE WellFormed(AfterGet(k))
<1>1. WellFormed(k)
  BY DEF WellFormed
<1>2. ASSUME k.pending = {} PROVE WellFormed(PatchMerge(k))
  <2>1. Overlay(k.body, k.seen.into) \in Bodies
    BY OverlayType DEF Call
  <2> QED
    BY <1>1, <1>2, <2>1 DEF PatchMerge, WellFormed, Call, Writes
<1>3. ASSUME k.pending = {} PROVE WellFormed(AbsorbMerge(k))
  <2>1. Overlay(k.seen.into, k.seen.from) \in Bodies
    BY OverlayType DEF Call
  <2> QED
    BY <1>1, <1>3, <2>1 DEF AbsorbMerge, WellFormed, Call, Writes
<1> QED
  BY <1>1, <1>2, <1>3 DEF AfterGet

LEMMA AfterWriteType ==
    ASSUME NEW k \in Call, k.out # "fulfilled" PROVE WellFormed(AfterWrite(k))
<1>1. WellFormed(Unwind(k, "revert", "rejected"))
  BY UnwindType DEF WellFormed, Ops
<1> QED
  BY <1>1 DEF AfterWrite, WellFormed, Call

LEMMA AfterDropType ==
    ASSUME NEW k \in Call, k.out # "fulfilled" PROVE WellFormed(AfterDrop(k))
BY DEF AfterDrop, WellFormed, Call

-----------------------------------------------------------------------------
(* The two halves of StoreTypeOK. *)

BucketOK ==
    /\ bucket \in [Codes -> SUBSET VersionSet(Ids)]
    /\ clock \in [Codes -> Nat]
    /\ \A c \in Codes : \A v \in bucket[c] : v.at <= clock[c]

CallsOK == call \in [Requests -> Call] /\ \A r \in Requests : WellFormed(call[r])

LEMMA StoreTypeSplit == StoreTypeOK <=> BucketOK /\ CallsOK
BY DEF StoreTypeOK, BucketOK, CallsOK, WellFormed

LEMMA StoreTypeSplitNext == StoreTypeOK' <=> BucketOK' /\ CallsOK'
BY DEF StoreTypeOK, BucketOK, CallsOK, WellFormed

LEMMA CallsStep ==
    ASSUME CallsOK, NEW r \in Requests, NEW k, WellFormed(k), call' = [call EXCEPT ![r] = k]
    PROVE  CallsOK'
BY DEF CallsOK, WellFormed

LEMMA AddVersionType ==
    ASSUME BucketOK, NEW r \in Requests, NEW code \in Codes,
           NEW body \in Bodies \union {DeleteMarker}, AddVersion(r, code, body)
    PROVE  BucketOK'
<1> DEFINE new == Version(r, clock[code] + 1, body)
<1>1. new \in VersionSet(Ids) /\ new.at = clock[code] + 1
  BY DEF BucketOK, Version, VersionSet, Ids
<1> HIDE DEF new
<1>2. bucket' = [bucket EXCEPT ![code] = @ \union {new}]
  BY DEF AddVersion, new
<1>3. clock' = [clock EXCEPT ![code] = @ + 1]
  BY DEF AddVersion
<1>4. bucket' \in [Codes -> SUBSET VersionSet(Ids)] /\ clock' \in [Codes -> Nat]
  BY <1>1, <1>2, <1>3 DEF BucketOK
<1>5. ASSUME NEW c \in Codes, NEW v \in bucket'[c] PROVE v.at <= clock'[c]
  <2>1. CASE c = code
    <3>1. v \in bucket[c] \/ v = new
      BY <1>2, <2>1, <1>5 DEF BucketOK
    <3>2. clock'[c] = clock[c] + 1 /\ clock[c] \in Nat
      BY <1>3, <2>1 DEF BucketOK
    <3>3. v \in bucket[c] => v.at \in Nat /\ v.at <= clock[c]
      BY DEF BucketOK, VersionSet
    <3> QED
      BY <1>1, <2>1, <3>1, <3>2, <3>3
  <2>2. CASE c # code
    BY <1>2, <1>3, <1>5, <2>2 DEF BucketOK
  <2> QED
    BY <2>1, <2>2
<1> QED
  BY <1>4, <1>5 DEF BucketOK

LEMMA EraseVersionType ==
    ASSUME BucketOK, NEW r \in Requests, NEW code \in Codes, EraseVersion(r, code)
    PROVE  BucketOK'
BY DEF BucketOK, EraseVersion, DropVersion

LEMMA BucketUnchanged == ASSUME BucketOK, UNCHANGED <<bucket, clock>> PROVE BucketOK'
BY DEF BucketOK

LEMMA AnsweredType ==
    ASSUME CallsOK, NEW r \in Requests, NEW step \in call[r].pending
    PROVE  /\ Answered(r, step) \in Call
           /\ Answered(r, step).out = call[r].out
           /\ call[r].out # "fulfilled"
BY DEF CallsOK, WellFormed, Answered, Call

-----------------------------------------------------------------------------
(* Type correctness. *)

LEMMA StoreAnswersType ==
    ASSUME StoreTypeOK, NEW r \in Requests, StoreAnswers(r) PROVE StoreTypeOK'
<1> USE StoreTypeSplit, StoreTypeSplitNext
<1>1. call[r] \in Call /\ WellFormed(call[r])
  BY DEF CallsOK
<1>2. call[r].into \in Codes /\ call[r].from \in Codes /\ call[r].body \in Bodies
  BY <1>1 DEF Call
<1>3. CASE GetInto(r)
  <2> DEFINE k == [Answered(r, "getInto") EXCEPT !.seen.into = Read(bucket[call[r].into])]
  <2>1. Read(bucket[call[r].into]) \in Bodies
    BY <1>2, ReadType DEF BucketOK
  <2>2. k \in Call /\ k.out # "fulfilled"
    BY <1>3, <2>1, AnsweredType DEF GetInto, Call
  <2>3. WellFormed(AfterGet(k))
    BY <2>2, AfterGetType
  <2> QED
    BY <1>3, <2>3, CallsStep, BucketUnchanged DEF GetInto
<1>4. CASE GetFrom(r)
  <2> DEFINE k == [Answered(r, "getFrom") EXCEPT !.seen.from = Read(bucket[call[r].from])]
  <2>1. Read(bucket[call[r].from]) \in Bodies
    BY <1>2, ReadType DEF BucketOK
  <2>2. k \in Call /\ k.out # "fulfilled"
    BY <1>4, <2>1, AnsweredType DEF GetFrom, Call
  <2>3. WellFormed(AfterGet(k))
    BY <2>2, AfterGetType
  <2> QED
    BY <1>4, <2>3, CallsStep, BucketUnchanged DEF GetFrom
<1>5. CASE GetFails(r)
  <2> DEFINE k == [call[r] EXCEPT !.pending = {}, !.out = "rejected"]
  <2>1. WellFormed(k)
    BY <1>1 DEF WellFormed, Call
  <2>2. call' = [call EXCEPT ![r] = k]
    BY <1>5 DEF GetFails, CallsOK
  <2> QED
    BY <1>5, <2>1, <2>2, CallsStep, BucketUnchanged DEF GetFails
<1>6. CASE PutLands(r)
  <2> DEFINE k == [Answered(r, "put") EXCEPT !.held = @ \union {"put"}]
  <2>1. k \in Call /\ k.out # "fulfilled"
    BY <1>6, AnsweredType DEF PutLands, Call, Writes
  <2>2. WellFormed(AfterWrite(k))
    BY <2>1, AfterWriteType
  <2> QED
    BY <1>2, <1>6, <2>2, CallsStep, AddVersionType DEF PutLands
<1>7. CASE PutFails(r)
  <2>1. WellFormed(AfterWrite(Answered(r, "put")))
    BY <1>7, AnsweredType, AfterWriteType DEF PutFails
  <2> QED
    BY <1>2, <1>7, <2>1, CallsStep, AddVersionType, BucketUnchanged DEF PutFails, Lost, NotDone
<1>8. CASE MarkLands(r)
  <2> DEFINE k == [Answered(r, "mark") EXCEPT !.held = @ \union {"mark"}]
  <2>1. k \in Call /\ k.out # "fulfilled"
    BY <1>8, AnsweredType DEF MarkLands, Call, Writes
  <2>2. WellFormed(AfterWrite(k))
    BY <2>1, AfterWriteType
  <2> QED
    BY <1>2, <1>8, <2>2, CallsStep, AddVersionType DEF MarkLands
<1>9. CASE MarkFails(r)
  <2>1. WellFormed([Answered(r, "mark") EXCEPT !.out = "rejected"])
    BY <1>9, AnsweredType DEF MarkFails, WellFormed, Call
  <2> QED
    BY <1>2, <1>9, <2>1, CallsStep, AddVersionType, BucketUnchanged DEF MarkFails, Lost, NotDone
<1>10. ASSUME NEW drop \in Drops, DropLands(r, drop) PROVE StoreTypeOK'
  <2>1. WellFormed(AfterDrop(Answered(r, drop)))
    BY <1>10, AnsweredType, AfterDropType DEF DropLands
  <2> QED
    BY <1>2, <1>10, <2>1, CallsStep, EraseVersionType DEF DropLands, DroppedKey
<1>11. ASSUME NEW drop \in Drops, DropFails(r, drop) PROVE StoreTypeOK'
  <2>1. WellFormed([Answered(r, drop) EXCEPT !.out = "rejected"])
    BY <1>11, AnsweredType DEF DropFails, WellFormed, Call
  <2> QED
    BY <1>2, <1>11, <2>1, CallsStep, EraseVersionType, BucketUnchanged
       DEF DropFails, Lost, NotDone, DroppedKey
<1> QED
  BY <1>3, <1>4, <1>5, <1>6, <1>7, <1>8, <1>9, <1>10, <1>11 DEF StoreAnswers

\* A call of the store, or of the undo function, starts a well formed call.
LEMMA StartType ==
    ASSUME StoreTypeOK, NEW r \in Requests, NEW k, WellFormed(k), Start(r, k)
    PROVE  StoreTypeOK'
BY StoreTypeSplit, StoreTypeSplitNext, CallsStep, BucketUnchanged DEF Start

LEMMA CallTypes ==
    ASSUME NEW c \in Codes, NEW d \in Codes, NEW body \in Bodies
    PROVE  /\ WellFormed(NewCall("post", c, c, body, {"put"}))
           /\ WellFormed(NewCall("patch", c, c, body, {"getInto"}))
           /\ WellFormed(NewCall("delete", c, c, EmptyBody, {"mark"}))
           /\ WellFormed(NewCall("absorb", c, d, EmptyBody, Gets))
<1>1. /\ NewCall("post", c, c, body, {"put"}) \in Call
      /\ NewCall("patch", c, c, body, {"getInto"}) \in Call
      /\ NewCall("delete", c, c, EmptyBody, {"mark"}) \in Call
      /\ NewCall("absorb", c, d, EmptyBody, Gets) \in Call
  BY NewCallType, EmptyBodyType DEF Ops, Gets, Writes, Drops
<1> QED
  BY <1>1 DEF WellFormed, NewCall

LEMMA UndoType ==
    ASSUME StoreTypeOK, NEW r \in Requests, Undo(r) PROVE StoreTypeOK'
<1>1. call[r] \in Call
  BY DEF StoreTypeOK
<1>2. WellFormed(Unwind(call[r], "undo", "fulfilled"))
  BY <1>1, UnwindType DEF WellFormed, Ops
<1> QED
  BY <1>2, StartType DEF Undo

LEMMA StoreUnchanged == ASSUME StoreTypeOK, UNCHANGED storeVars PROVE StoreTypeOK'
BY DEF StoreTypeOK, storeVars

RequestOK(k) == k \in Request /\ (k.pc \in {"undo", "end"} => k.status # 0)
RequestsOK == req \in [Requests -> Request] /\ \A r \in Requests : RequestOK(req[r])
GraphOK == nodes \subseteq Codes /\ linked \subseteq Codes

LEMMA TypeSplit == TypeOK <=> StoreTypeOK /\ GraphOK /\ RequestsOK
BY DEF TypeOK, GraphOK, RequestsOK, RequestOK

LEMMA TypeSplitNext == TypeOK' <=> StoreTypeOK' /\ GraphOK' /\ RequestsOK'
BY DEF TypeOK, GraphOK, RequestsOK, RequestOK

\* The fields of a request that the handlers change.
LEMMA PcField ==
    ASSUME NEW k \in Request, NEW pc \in Pcs
    PROVE  LET j == [k EXCEPT !.pc = pc]
           IN  j \in Request /\ j.pc = pc /\ j.status = k.status
BY DEF Request, Pcs

LEMMA StatusField ==
    ASSUME NEW k \in Request, NEW status \in Statuses
    PROVE  LET j == [k EXCEPT !.status = status]
           IN  j \in Request /\ j.pc = k.pc /\ j.status = status
BY DEF Request, Statuses

LEMMA FlagsField ==
    ASSUME NEW k \in Request, NEW flags \in SUBSET {"edits", "create", "late"}
    PROVE  LET j == [k EXCEPT !.flags = flags]
           IN  j \in Request /\ j.pc = k.pc /\ j.status = k.status
BY DEF Request

LEMMA BecomeType ==
    ASSUME RequestsOK, NEW r \in Requests, NEW k, RequestOK(k), Become(r, k)
    PROVE  RequestsOK'
BY DEF RequestsOK, RequestOK, Become

LEMMA ConcludeType ==
    ASSUME NEW k, RequestOK(k), NEW pc \in Pcs, NEW status \in Success \union Failures
    PROVE  /\ RequestOK(Conclude(k, pc, status))
           /\ Conclude(k, pc, status).pc = pc
           /\ Conclude(k, pc, status).status = status
<1> DEFINE i == [k EXCEPT !.pc = pc]
<1>1. i \in Request /\ i.pc = pc
  BY PcField DEF RequestOK
<1>2. status \in Statuses /\ status # 0
  BY DEF Statuses, Success, Failures
<1> HIDE DEF i
<1>3. [i EXCEPT !.status = status] \in Request
      /\ [i EXCEPT !.status = status].pc = pc
      /\ [i EXCEPT !.status = status].status = status
  BY <1>1, <1>2, StatusField
<1>4. Conclude(k, pc, status) = [i EXCEPT !.status = status]
  BY DEF Conclude, i
<1> QED
  BY <1>2, <1>3, <1>4 DEF RequestOK

LEMMA AnswerType ==
    ASSUME RequestsOK, NEW r \in Requests,
           NEW status \in Success \union Failures, Answer(r, status)
    PROVE  RequestsOK'
<1>1. RequestOK(Conclude(req[r], "end", status))
  BY ConcludeType DEF RequestsOK, Pcs
<1> QED
  BY <1>1, BecomeType DEF Answer

LEMMA GraphUnchanged == ASSUME GraphOK, UNCHANGED <<nodes, linked>> PROVE GraphOK'
BY DEF GraphOK

LEMMA NewRequestType ==
    ASSUME NEW method \in Methods \union {"none"}, NEW code \in Codes, NEW other \in Codes,
           NEW docs \in Bodies, NEW flags \in SUBSET {"edits", "create", "late"}
    PROVE  LET k == NewRequest(method, code, other, docs, flags)
           IN  RequestOK(k) /\ k.pc = "preflight" /\ k.status = 0
BY DEF NewRequest, RequestOK, Request, Pcs, Statuses

LEMMA NoRequestType == RequestOK(NoRequest) /\ NoRequest.pc = "idle" /\ NoRequest.status = 0
<1> DEFINE k == NewRequest("none", NoCall.into, NoCall.into, EmptyBody, {})
<1>1. RequestOK(k) /\ k.status = 0
  BY NoCallType, EmptyBodyType, NewRequestType DEF Call
<1> HIDE DEF k
<1>2. LET j == [k EXCEPT !.pc = "idle"] IN j \in Request /\ j.pc = "idle" /\ j.status = 0
  BY <1>1, PcField DEF RequestOK, Pcs
<1> QED
  BY <1>2 DEF NoRequest, RequestOK, k

LEMMA DraftType == ASSUME NEW docs \in Drafts \union {EmptyBody} PROVE docs \in Bodies
BY DraftsAssumption, EmptyBodyType

LEMMA BeginCreateType ==
    ASSUME TypeOK, NEW r \in Requests, NEW k, RequestOK(k), BeginCreate(r, k)
    PROVE  StoreTypeOK' /\ RequestsOK'
<1> USE TypeSplit
<1>1. CASE r \notin MayCreate
  <2>1. RequestOK(Conclude(k, "end", 400))
    BY ConcludeType DEF Pcs, Failures
  <2> QED
    BY <1>1, <2>1, BecomeType, StoreUnchanged DEF BeginCreate
<1>2. CASE r \in MayCreate
  <2> DEFINE i == [k EXCEPT !.pc = "docs"]
  <2>0. i \in Request /\ i.pc = "docs" /\ i.flags \in SUBSET {"edits", "create", "late"}
    BY PcField DEF RequestOK, Pcs, Request
  <2> HIDE DEF i
  <2>1. RequestOK([i EXCEPT !.flags = @ \union {"create"}])
    BY <2>0, FlagsField DEF RequestOK
  <2>2. k.code \in Codes /\ k.docs \in Bodies
    BY DEF RequestOK, Request
  <2>3. StoreTypeOK'
    BY <1>2, <2>2, CallTypes, StartType, StoreUnchanged DEF BeginCreate, Post
  <2> QED
    BY <1>2, <2>1, <2>3, BecomeType DEF BeginCreate, i
<1> QED
  BY <1>1, <1>2

LEMMA FailWithType ==
    ASSUME TypeOK, NEW r \in Requests, NEW k, RequestOK(k),
           NEW status \in {200, 400, 409, 500}, FailWith(r, k, status)
    PROVE  StoreTypeOK' /\ RequestsOK'
<1> USE TypeSplit
<1> DEFINE pc == IF k.method = "ABSORB" \/ call[r].op = "none" THEN "end" ELSE "undo"
           j == Conclude(k, pc, status)
<1>1. RequestOK(j)
  BY ConcludeType DEF Pcs, Success, Failures
<1>2. StoreTypeOK'
  BY UndoType, StoreUnchanged DEF FailWith
<1>3. Become(r, j)
  BY DEF FailWith
<1> QED
  BY <1>1, <1>2, <1>3, BecomeType

LEMMA FailType ==
    ASSUME TypeOK, NEW r \in Requests, NEW status \in {200, 400, 409, 500}, Fail(r, status)
    PROVE  StoreTypeOK' /\ RequestsOK'
BY FailWithType, TypeSplit DEF Fail, RequestsOK

LEMMA QueryEffectType ==
    ASSUME GraphOK, NEW r \in Requests, req[r] \in Request, QueryEffect(r) PROVE GraphOK'
<1>1. req[r].code \in Codes /\ req[r].other \in Codes
  BY DEF Request
<1> QED
  BY <1>1 DEF QueryEffect, GraphOK

LEMMA StoreInitType == StoreInit => StoreTypeOK
<1> SUFFICES ASSUME StoreInit PROVE StoreTypeOK
  OBVIOUS
<1>1. \A b \in Drafts : Version(Origin, 0, b) \in VersionSet(Ids) /\ Version(Origin, 0, b).at = 0
  BY DraftsAssumption DEF Version, VersionSet, Ids
<1>2. BucketOK
  BY <1>1 DEF StoreInit, BucketOK
<1>3. CallsOK
  BY NoCallType DEF StoreInit, CallsOK, WellFormed
<1> QED
  BY <1>2, <1>3, StoreTypeSplit

LEMMA InitType == Init => TypeOK
<1>1. Init => RequestsOK
  BY NoRequestType DEF Init, RequestsOK, RequestOK
<1> QED
  BY <1>1, StoreInitType, TypeSplit DEF Init, GraphOK

LEMMA ArrivesType == ASSUME TypeOK, NEW r \in Requests, Arrives(r) PROVE TypeOK'
<1> USE TypeSplit, TypeSplitNext, GraphUnchanged
<1>1. CASE ArrivePost(r)
  <2>1. PICK code \in Codes, docs \in Drafts \union {EmptyBody} :
            BeginCreate(r, NewRequest("POST", code, code, docs, {}))
    BY <1>1 DEF ArrivePost
  <2>2. RequestOK(NewRequest("POST", code, code, docs, {}))
    BY DraftType, NewRequestType DEF Methods
  <2> QED
    BY <1>1, <2>1, <2>2, BeginCreateType DEF ArrivePost
<1>2. CASE ArrivePatch(r)
  <2>1. PICK code \in Codes, docs \in Drafts \union {EmptyBody}, flags \in SUBSET {"edits"} :
            Become(r, NewRequest("PATCH", code, code, docs, flags))
    BY <1>2 DEF ArrivePatch
  <2>2. RequestOK(NewRequest("PATCH", code, code, docs, flags))
    BY DraftType, NewRequestType DEF Methods
  <2> QED
    BY <1>2, <2>1, <2>2, BecomeType, StoreUnchanged DEF ArrivePatch
<1>3. CASE ArriveDelete(r)
  <2>1. PICK code \in Codes : Become(r, NewRequest("DELETE", code, code, EmptyBody, {}))
    BY <1>3 DEF ArriveDelete
  <2>2. RequestOK(NewRequest("DELETE", code, code, EmptyBody, {}))
    BY EmptyBodyType, NewRequestType DEF Methods
  <2> QED
    BY <1>3, <2>1, <2>2, BecomeType, StoreUnchanged DEF ArriveDelete
<1>4. CASE ArriveAbsorb(r)
  <2>1. PICK code \in Codes, other \in Codes :
            Become(r, NewRequest("ABSORB", code, other, EmptyBody, {}))
    BY <1>4 DEF ArriveAbsorb
  <2>2. RequestOK(NewRequest("ABSORB", code, other, EmptyBody, {}))
    BY EmptyBodyType, NewRequestType DEF Methods
  <2> QED
    BY <1>4, <2>1, <2>2, BecomeType, StoreUnchanged DEF ArriveAbsorb
<1> QED
  BY <1>1, <1>2, <1>3, <1>4 DEF Arrives

LEMMA HandlerStepType == ASSUME TypeOK, NEW r \in Requests, HandlerStep(r) PROVE TypeOK'
<1> USE TypeSplit, TypeSplitNext, GraphUnchanged, StoreUnchanged
<1>1. /\ req[r] \in Request
      /\ RequestOK(req[r])
      /\ req[r].code \in Codes
      /\ req[r].other \in Codes
      /\ req[r].docs \in Bodies
  BY DEF RequestsOK, RequestOK, Request
<1>2. RequestOK([req[r] EXCEPT !.pc = "docs"])
  BY <1>1, PcField DEF RequestOK, Pcs
<1>3. CASE PatchPreflight(r)
  <2>1. CASE req[r].code \notin nodes
    BY <1>1, <1>3, <2>1, BeginCreateType DEF PatchPreflight
  <2>2. CASE req[r].code \in nodes
    <3>1. RequestsOK'
      BY <1>2, <1>3, <2>2, BecomeType DEF PatchPreflight
    <3>2. StoreTypeOK'
      BY <1>1, <1>3, <2>2, CallTypes, StartType DEF PatchPreflight, Patch
    <3> QED
      BY <1>3, <3>1, <3>2 DEF PatchPreflight
  <2> QED
    BY <2>1, <2>2
<1>4. CASE DeletePreflight(r)
  <2>1. CASE req[r].code \in nodes \ linked
    <3>1. RequestsOK'
      BY <1>2, <1>4, <2>1, BecomeType DEF DeletePreflight
    <3>2. StoreTypeOK'
      BY <1>1, <1>4, <2>1, CallTypes, StartType DEF DeletePreflight, Delete
    <3> QED
      BY <1>4, <3>1, <3>2 DEF DeletePreflight
  <2>2. CASE req[r].code \notin nodes \ linked
    <3>1. (IF req[r].code \in nodes THEN 409 ELSE 404) \in Success \union Failures
      BY DEF Failures
    <3>2. RequestsOK'
      BY <1>4, <2>2, <3>1, AnswerType DEF DeletePreflight
    <3> QED
      BY <1>4, <2>2, <3>2 DEF DeletePreflight
  <2> QED
    BY <2>1, <2>2
<1>5. ASSUME NEW c \in Codes, FetchNode(r, c) PROVE TypeOK'
  <2>1. CASE c \notin nodes
    <3>1. RequestsOK'
      BY <1>5, <2>1, AnswerType DEF FetchNode, Failures
    <3> QED
      BY <1>5, <2>1, <3>1 DEF FetchNode
  <2>2. CASE c \in nodes /\ req[r].fetched = {}
    <3>1. RequestOK([req[r] EXCEPT !.fetched = {c}])
      BY <1>1 DEF RequestOK, Request
    <3>2. RequestsOK'
      BY <1>5, <2>2, <3>1, BecomeType DEF FetchNode
    <3> QED
      BY <1>5, <2>2, <3>2 DEF FetchNode
  <2>3. CASE c \in nodes /\ req[r].fetched # {}
    <3> DEFINE i == [req[r] EXCEPT !.fetched = @ \union {c}]
    <3>1. RequestOK(i)
      BY <1>1 DEF RequestOK, Request
    <3> HIDE DEF i
    <3>2. RequestOK([i EXCEPT !.pc = "docs"])
      BY <3>1, PcField DEF RequestOK, Pcs
    <3>3. RequestsOK'
      BY <1>5, <2>3, <3>2, BecomeType DEF FetchNode, i
    <3>4. StoreTypeOK'
      BY <1>1, <1>5, <2>3, CallTypes, StartType, EmptyBodyType DEF FetchNode, Absorb
    <3> QED
      BY <1>5, <3>3, <3>4 DEF FetchNode
  <2> QED
    BY <2>1, <2>2, <2>3
<1>6. CASE PreflightFails(r)
  BY <1>6, AnswerType DEF PreflightFails, Failures
<1>7. CASE DocsRejected(r)
  BY <1>7, AnswerType DEF DocsRejected, Failures
<1>8. CASE Commit(r)
  <2>1. SuccessStatus(r) \in Success \union Failures
    BY DEF SuccessStatus, Success
  <2> QED
    BY <1>1, <1>8, <2>1, AnswerType, QueryEffectType DEF Commit
<1>9. CASE PatchDocsOnly(r)
  BY <1>9, AnswerType DEF PatchDocsOnly, Success
<1>10. CASE QueryRefused(r)
  BY <1>10, FailType DEF QueryRefused
<1>11. CASE QueryFails(r)
  BY <1>11, FailType DEF QueryFails
<1>12. CASE QueryTimesOut(r)
  <2>1. RequestOK([req[r] EXCEPT !.flags = @ \union {"late"}])
    BY <1>1, FlagsField DEF RequestOK, Request
  <2> QED
    BY <1>1, <1>12, <2>1, FailWithType DEF QueryTimesOut
<1>13. CASE ListenerThrows(r)
  <2>1. GraphOK'
    BY <1>1, <1>13, QueryEffectType DEF ListenerThrows
  <2>2. (IF req[r].method = "ABSORB" THEN 200 ELSE 500) \in {200, 400, 409, 500}
    OBVIOUS
  <2> QED
    BY <1>13, <2>1, <2>2, FailType DEF ListenerThrows
<1>14. CASE UndoAnswered(r)
  <2> DEFINE status == IF call[r].out = "rejected" THEN 500 ELSE req[r].status
  <2>1. status \in Success \union Failures
    BY <1>1, <1>14 DEF UndoAnswered, RequestOK, Request, Statuses, Failures
  <2> QED
    BY <1>14, <2>1, AnswerType DEF UndoAnswered
<1> QED
  BY <1>3, <1>4, <1>5, <1>6, <1>7, <1>8, <1>9, <1>10, <1>11, <1>12, <1>13, <1>14 DEF HandlerStep

LEMMA EnvironmentType ==
    ASSUME TypeOK, NEW r \in Requests, LateQueryEnds(r) \/ Crash(r) PROVE TypeOK'
<1> USE TypeSplit, TypeSplitNext, GraphUnchanged, StoreUnchanged
<1>1. req[r] \in Request /\ RequestOK(req[r]) /\ call[r] \in Call
  BY DEF RequestsOK, StoreTypeOK
<1>2. CASE LateQueryEnds(r)
  <2>1. RequestOK([req[r] EXCEPT !.flags = @ \ {"late"}])
    BY <1>1, FlagsField DEF RequestOK, Request
  <2> QED
    BY <1>1, <1>2, <2>1, BecomeType, QueryEffectType DEF LateQueryEnds
<1>3. CASE Crash(r)
  <2>1. RequestOK([req[r] EXCEPT !.pc = "crashed"])
    BY <1>1, PcField DEF RequestOK, Pcs
  <2>2. RequestsOK'
    BY <1>1, <1>3, <2>1, BecomeType DEF Crash
  <2>3. WellFormed([call[r] EXCEPT !.pending = {},
                                   !.out = IF @ = "waiting" THEN "rejected" ELSE @])
    BY <1>1 DEF WellFormed, Call
  <2> QED
    BY <1>3, <2>2, <2>3, StartType DEF Crash
<1> QED
  BY <1>2, <1>3

LEMMA NextType == ASSUME TypeOK, [Next]_vars PROVE TypeOK'
<1> USE TypeSplit, TypeSplitNext
<1>1. ASSUME NEW r \in Requests, StoreStep(r) PROVE TypeOK'
  BY <1>1, StoreAnswersType DEF StoreStep, handlerVars, GraphOK, RequestsOK, RequestOK
<1>2. ASSUME NEW c \in Codes, Relate(c) PROVE TypeOK'
  BY <1>2, StoreUnchanged DEF Relate, GraphOK, RequestsOK, RequestOK
<1>3. CASE UNCHANGED vars
  BY <1>3 DEF vars, TypeOK, StoreTypeOK
<1> QED
  BY <1>1, <1>2, <1>3, ArrivesType, HandlerStepType, EnvironmentType DEF Next

\* The state of the handlers and of the bucket is well formed in every reachable
\* state, for every set of requests, codes and faults.
THEOREM TypeCorrect == Spec => []TypeOK
<1>1. Init => TypeOK
  BY InitType
<1>2. TypeOK /\ [Next]_vars => TypeOK'
  BY NextType
<1> QED
  BY <1>1, <1>2, PTL DEF Spec

-----------------------------------------------------------------------------
(* Acknowledged writes survive.  The property is not inductive by itself:  *)
(* it needs that a version only leaves the bucket while the call that      *)
(* wrote it is being rolled back, that a rollback sends nothing but drops, *)
(* and that no handler acknowledges a call it has undone.                  *)

Rollbacks == {"undo", "revert"}

\* How far a call has got agrees with what it is waiting for.
CallPhase(k) ==
    /\ k.op \in Rollbacks => k.pending \subseteq Drops
    /\ k.op \notin Rollbacks => k.pending \cap Drops = {}
    /\ k.op = "none" <=> k.out = "none"
    /\ k.op = "none" => k.pending = {}
    /\ k.op = "revert" => k.out \in {"waiting", "rejected"}

\* The versions a call knows of are in the bucket until it is rolled back.
HeldStands(r) ==
    call[r].op \notin Rollbacks =>
        /\ "put" \in call[r].held => WroteVersion(r, call[r].into)
        /\ "mark" \in call[r].held => WroteVersion(r, call[r].from)

\* How far a handler has got agrees with its call of the store.
HandlerPhase(r) ==
    /\ req[r].pc \in {"idle", "preflight"} => call[r].op = "none"
    /\ req[r].pc = "docs" => call[r].op # "undo"
    /\ req[r].pc = "undo" => req[r].status \notin Success
    /\ Acknowledged(r) => call[r].op \notin Rollbacks /\ call[r].out \in {"none", "fulfilled"}

StoreInv == \A r \in Requests : CallPhase(call[r]) /\ HeldStands(r)
HandlerInv == \A r \in Requests : HandlerPhase(r)
WritesInv == TypeOK /\ StoreInv /\ HandlerInv

LEMMA UnwindPhase ==
    ASSUME NEW k \in Call,
           NEW op \in Rollbacks,
           NEW outcome \in {"fulfilled", "rejected"}, op = "revert" => outcome = "rejected"
    PROVE  CallPhase(Unwind(k, op, outcome)) /\ Unwind(k, op, outcome).op = op
BY DEF Unwind, CallPhase, DropsFor, Drops, Rollbacks, Call

\* What a call becomes when an answer it waited for has come in.
SameWrites(j, k) == j.held = k.held /\ j.into = k.into /\ j.from = k.from

LEMMA AfterGetPhase ==
    ASSUME NEW k \in Call, CallPhase(k), k.op \notin Rollbacks, k.op # "none"
    PROVE  /\ CallPhase(AfterGet(k))
           /\ AfterGet(k).op = k.op
           /\ SameWrites(AfterGet(k), k)
<1>1. /\ CallPhase(PatchMerge(k))
      /\ PatchMerge(k).op = k.op
      /\ SameWrites(PatchMerge(k), k)
  BY DEF PatchMerge, CallPhase, SameWrites, Rollbacks, Drops, Call
<1>2. /\ CallPhase(AbsorbMerge(k))
      /\ AbsorbMerge(k).op = k.op
      /\ SameWrites(AbsorbMerge(k), k)
  BY DEF AbsorbMerge, CallPhase, SameWrites, Rollbacks, Drops, Call
<1> QED
  BY <1>1, <1>2 DEF AfterGet, SameWrites

LEMMA AfterWritePhase ==
    ASSUME NEW k \in Call, CallPhase(k), k.op \notin Rollbacks, k.op # "none"
    PROVE  /\ CallPhase(AfterWrite(k))
           /\ AfterWrite(k).op \in Rollbacks \/ (AfterWrite(k).op = k.op /\ SameWrites(AfterWrite(k), k))
<1>1. CallPhase(Unwind(k, "revert", "rejected")) /\ Unwind(k, "revert", "rejected").op \in Rollbacks
  BY UnwindPhase DEF Rollbacks
<1>2. LET j == [k EXCEPT !.out = "fulfilled"]
      IN  CallPhase(j) /\ j.op = k.op /\ SameWrites(j, k)
  BY DEF CallPhase, SameWrites, Rollbacks, Call
<1> QED
  BY <1>1, <1>2 DEF AfterWrite, SameWrites

LEMMA AfterDropPhase ==
    ASSUME NEW k \in Call, CallPhase(k), k.op \in Rollbacks
    PROVE  CallPhase(AfterDrop(k)) /\ AfterDrop(k).op = k.op
BY DEF AfterDrop, CallPhase, Rollbacks, Call

\* An answer takes a request off the pending ones and changes nothing else.
LEMMA AnsweredPhase ==
    ASSUME StoreTypeOK, NEW r \in Requests, CallPhase(call[r]), NEW step \in call[r].pending
    PROVE  /\ Answered(r, step) \in Call
           /\ CallPhase(Answered(r, step))
           /\ Answered(r, step).op = call[r].op
           /\ Answered(r, step).op # "none"
           /\ SameWrites(Answered(r, step), call[r])
           /\ step \in Drops <=> call[r].op \in Rollbacks
<1>1. call[r] \in Call
  BY DEF StoreTypeOK
<1> QED
  BY <1>1 DEF Answered, CallPhase, SameWrites, Rollbacks, Call

HasVersion(versions, r) == \E v \in versions : v.id = r

Grows == \A c \in Codes : bucket[c] \subseteq bucket'[c]

LEMMA AddVersionGrows ==
    ASSUME StoreTypeOK, NEW r \in Requests, NEW code \in Codes, NEW body, AddVersion(r, code, body)
    PROVE  Grows /\ HasVersion(bucket'[code], r)
<1> DEFINE new == Version(r, clock[code] + 1, body)
<1>1. new.id = r
  BY DEF Version
<1> HIDE DEF new
<1>2. bucket' = [bucket EXCEPT ![code] = @ \union {new}]
  BY DEF AddVersion, new
<1> QED
  BY <1>1, <1>2 DEF Grows, HasVersion, StoreTypeOK

\* A step of r that erases nothing keeps the invariant when r does not claim a
\* write it has not made.
LEMMA GrowingStep ==
    ASSUME StoreTypeOK, StoreInv, Grows, NEW r \in Requests, NEW k,
           call' = [call EXCEPT ![r] = k], CallPhase(k),
           \/ k.op \in Rollbacks
           \/ k.held = {}
           \/ /\ call[r].op \notin Rollbacks
              /\ k.into = call[r].into
              /\ k.from = call[r].from
              /\ "put" \in k.held => "put" \in call[r].held \/ HasVersion(bucket'[k.into], r)
              /\ "mark" \in k.held => "mark" \in call[r].held \/ HasVersion(bucket'[k.from], r)
    PROVE  StoreInv'
<1>1. call \in [Requests -> Call]
  BY DEF StoreTypeOK
<1>2. call'[r] = k
  BY <1>1
<1>3. ASSUME NEW q \in Requests, NEW c \in Codes, WroteVersion(q, c) PROVE WroteVersion(q, c)'
  BY <1>3 DEF WroteVersion, Grows
<1>4. \A q \in Requests : call[q].into \in Codes /\ call[q].from \in Codes
  BY <1>1 DEF Call
<1>5. ASSUME NEW q \in Requests, q # r PROVE CallPhase(call'[q]) /\ HeldStands(q)'
  <2>1. call'[q] = call[q]
    BY <1>1, <1>5
  <2> QED
    BY <1>3, <1>4, <2>1 DEF StoreInv, HeldStands
<1>6. HeldStands(r)'
  BY <1>2, <1>3, <1>4 DEF StoreInv, HeldStands, WroteVersion, HasVersion
<1> QED
  BY <1>2, <1>5, <1>6 DEF StoreInv

\* A rollback of r erases versions of r only.
LEMMA ErasingStep ==
    ASSUME StoreTypeOK, StoreInv, NEW r \in Requests, NEW code \in Codes, EraseVersion(r, code),
           NEW k, call' = [call EXCEPT ![r] = k], CallPhase(k), k.op \in Rollbacks
    PROVE  StoreInv'
<1>1. call \in [Requests -> Call]
  BY DEF StoreTypeOK
<1>2. call'[r] = k
  BY <1>1
<1>3. ASSUME NEW q \in Requests, q # r, NEW c \in Codes, WroteVersion(q, c)
      PROVE  WroteVersion(q, c)'
  BY <1>3 DEF WroteVersion, EraseVersion, DropVersion, StoreTypeOK
<1>4. \A q \in Requests : call[q].into \in Codes /\ call[q].from \in Codes
  BY <1>1 DEF Call
<1>5. ASSUME NEW q \in Requests, q # r PROVE CallPhase(call'[q]) /\ HeldStands(q)'
  <2>1. call'[q] = call[q]
    BY <1>1, <1>5
  <2> QED
    BY <1>3, <1>4, <1>5, <2>1 DEF StoreInv, HeldStands
<1>6. HeldStands(r)'
  BY <1>2 DEF HeldStands
<1> QED
  BY <1>2, <1>5, <1>6 DEF StoreInv

LEMMA UnchangedGrows == UNCHANGED <<bucket, clock>> => Grows
BY DEF Grows

\* The two ways in which a failing request ends.
LEMMA LostGrows ==
    ASSUME StoreTypeOK, NEW r \in Requests, NEW code \in Codes, NEW body,
           NotDone \/ Lost(AddVersion(r, code, body))
    PROVE  Grows
BY AddVersionGrows, UnchangedGrows DEF NotDone, Lost

LEMMA StoreAnswersSafe ==
    ASSUME StoreTypeOK, StoreInv, NEW r \in Requests, StoreAnswers(r) PROVE StoreInv'
<1> DEFINE k == call[r]
<1>1. /\ k \in Call
      /\ CallPhase(k)
      /\ k.into \in Codes
      /\ k.from \in Codes
      /\ k.held \in SUBSET Writes
  BY DEF StoreTypeOK, StoreInv, Call
<1>2. Gets \cap Drops = {} /\ Writes \cap Drops = {}
  BY DEF Gets, Writes, Drops
<1>3. CASE GetInto(r)
  <2> DEFINE i == [Answered(r, "getInto") EXCEPT !.seen.into = Read(bucket[k.into])]
  <2>1. Read(bucket[k.into]) \in Bodies
    BY <1>1, ReadType DEF StoreTypeOK
  <2>2. "getInto" \in k.pending /\ "getInto" \notin Drops
    BY <1>3 DEF GetInto, Drops
  <2>3. i \in Call /\ CallPhase(i) /\ i.op \notin Rollbacks /\ i.op # "none" /\ SameWrites(i, k)
    BY <1>1, <2>1, <2>2, AnsweredPhase DEF Call, CallPhase, SameWrites
  <2> HIDE DEF i
  <2>4. CallPhase(AfterGet(i)) /\ SameWrites(AfterGet(i), i)
    BY <2>3, AfterGetPhase
  <2>5. call' = [call EXCEPT ![r] = AfterGet(i)] /\ Grows
    BY <1>3, UnchangedGrows DEF GetInto, i
  <2>6. k.op \notin Rollbacks
    BY <1>1, <2>2 DEF CallPhase
  <2> QED
    BY <2>3, <2>4, <2>5, <2>6, GrowingStep DEF SameWrites
<1>4. CASE GetFrom(r)
  <2> DEFINE i == [Answered(r, "getFrom") EXCEPT !.seen.from = Read(bucket[k.from])]
  <2>1. Read(bucket[k.from]) \in Bodies
    BY <1>1, ReadType DEF StoreTypeOK
  <2>2. "getFrom" \in k.pending /\ "getFrom" \notin Drops
    BY <1>4 DEF GetFrom, Drops
  <2>3. i \in Call /\ CallPhase(i) /\ i.op \notin Rollbacks /\ i.op # "none" /\ SameWrites(i, k)
    BY <1>1, <2>1, <2>2, AnsweredPhase DEF Call, CallPhase, SameWrites
  <2> HIDE DEF i
  <2>4. CallPhase(AfterGet(i)) /\ SameWrites(AfterGet(i), i)
    BY <2>3, AfterGetPhase
  <2>5. call' = [call EXCEPT ![r] = AfterGet(i)] /\ Grows
    BY <1>4, UnchangedGrows DEF GetFrom, i
  <2>6. k.op \notin Rollbacks
    BY <1>1, <2>2 DEF CallPhase
  <2> QED
    BY <2>3, <2>4, <2>5, <2>6, GrowingStep DEF SameWrites
<1>5. CASE GetFails(r)
  <2> DEFINE i == [k EXCEPT !.pending = {}, !.out = "rejected"]
  <2>1. call' = [call EXCEPT ![r] = i] /\ Grows
    BY <1>5, UnchangedGrows DEF GetFails, StoreTypeOK
  <2>2. k.op \notin Rollbacks /\ k.op # "none"
    BY <1>1, <1>2, <1>5 DEF GetFails, CallPhase
  <2>3. CallPhase(i) /\ SameWrites(i, k)
    BY <1>1, <2>2 DEF CallPhase, SameWrites, Call
  <2> QED
    BY <2>1, <2>2, <2>3, GrowingStep DEF SameWrites
<1>6. CASE PutLands(r)
  <2> DEFINE i == [Answered(r, "put") EXCEPT !.held = @ \union {"put"}]
  <2>1. "put" \in k.pending /\ "put" \notin Drops /\ "put" \in Writes
    BY <1>6 DEF PutLands, Drops, Writes
  <2>2. /\ i \in Call
        /\ CallPhase(i)
        /\ i.op \notin Rollbacks
        /\ i.op # "none"
        /\ i.into = k.into
        /\ i.from = k.from
        /\ i.held = k.held \union {"put"}
    BY <1>1, <2>1, AnsweredPhase DEF Call, CallPhase, SameWrites
  <2> HIDE DEF i
  <2>3. /\ CallPhase(AfterWrite(i))
        /\ AfterWrite(i).op \in Rollbacks \/ SameWrites(AfterWrite(i), i)
    BY <2>2, AfterWritePhase
  <2>4. call' = [call EXCEPT ![r] = AfterWrite(i)] /\ AddVersion(r, k.into, k.body)
    BY <1>6 DEF PutLands, i
  <2>5. Grows /\ HasVersion(bucket'[k.into], r)
    BY <1>1, <2>4, AddVersionGrows
  <2>6. k.op \notin Rollbacks
    BY <1>1, <2>1 DEF CallPhase
  <2> QED
    <3> DEFINE j == AfterWrite(i)
    <3>1. CallPhase(j) /\ call' = [call EXCEPT ![r] = j] /\ Grows
      BY <2>3, <2>4, <2>5
    <3>2. j.op \in Rollbacks \/ SameWrites(j, i)
      BY <2>3
    <3> HIDE DEF j
    <3>3. CASE j.op \in Rollbacks
      BY <3>1, <3>3, GrowingStep
    <3>4. CASE SameWrites(j, i)
      <4>1. j.held = k.held \union {"put"} /\ j.into = k.into /\ j.from = k.from
        BY <2>2, <3>4 DEF SameWrites
      <4> QED
        BY <2>5, <2>6, <3>1, <4>1, GrowingStep
    <3> QED
      BY <3>2, <3>3, <3>4
<1>7. CASE PutFails(r)
  <2>1. "put" \in k.pending /\ "put" \notin Drops
    BY <1>7 DEF PutFails, Drops
  <2>2. LET i == Answered(r, "put")
        IN i \in Call /\ CallPhase(i) /\ i.op \notin Rollbacks /\ i.op # "none" /\ SameWrites(i, k)
    BY <1>1, <2>1, AnsweredPhase
  <2>3. LET i == AfterWrite(Answered(r, "put"))
        IN CallPhase(i) /\ (i.op \in Rollbacks \/ SameWrites(i, Answered(r, "put")))
    BY <2>2, AfterWritePhase
  <2>4. call' = [call EXCEPT ![r] = AfterWrite(Answered(r, "put"))] /\ Grows
    BY <1>1, <1>7, LostGrows DEF PutFails
  <2>5. k.op \notin Rollbacks
    BY <1>1, <2>1 DEF CallPhase
  <2> QED
    BY <2>2, <2>3, <2>4, <2>5, GrowingStep DEF SameWrites
<1>8. CASE MarkLands(r)
  <2> DEFINE i == [Answered(r, "mark") EXCEPT !.held = @ \union {"mark"}]
  <2>1. "mark" \in k.pending /\ "mark" \notin Drops /\ "mark" \in Writes
    BY <1>8 DEF MarkLands, Drops, Writes
  <2>2. /\ i \in Call
        /\ CallPhase(i)
        /\ i.op \notin Rollbacks
        /\ i.op # "none"
        /\ i.into = k.into
        /\ i.from = k.from
        /\ i.held = k.held \union {"mark"}
    BY <1>1, <2>1, AnsweredPhase DEF Call, CallPhase, SameWrites
  <2> HIDE DEF i
  <2>3. /\ CallPhase(AfterWrite(i))
        /\ AfterWrite(i).op \in Rollbacks \/ SameWrites(AfterWrite(i), i)
    BY <2>2, AfterWritePhase
  <2>4. call' = [call EXCEPT ![r] = AfterWrite(i)] /\ AddVersion(r, k.from, DeleteMarker)
    BY <1>8 DEF MarkLands, i
  <2>5. Grows /\ HasVersion(bucket'[k.from], r)
    BY <1>1, <2>4, AddVersionGrows
  <2>6. k.op \notin Rollbacks
    BY <1>1, <2>1 DEF CallPhase
  <2> QED
    <3> DEFINE j == AfterWrite(i)
    <3>1. CallPhase(j) /\ call' = [call EXCEPT ![r] = j] /\ Grows
      BY <2>3, <2>4, <2>5
    <3>2. j.op \in Rollbacks \/ SameWrites(j, i)
      BY <2>3
    <3> HIDE DEF j
    <3>3. CASE j.op \in Rollbacks
      BY <3>1, <3>3, GrowingStep
    <3>4. CASE SameWrites(j, i)
      <4>1. j.held = k.held \union {"mark"} /\ j.into = k.into /\ j.from = k.from
        BY <2>2, <3>4 DEF SameWrites
      <4> QED
        BY <2>5, <2>6, <3>1, <4>1, GrowingStep
    <3> QED
      BY <3>2, <3>3, <3>4
<1>9. CASE MarkFails(r)
  <2> DEFINE i == [Answered(r, "mark") EXCEPT !.out = "rejected"]
  <2>1. "mark" \in k.pending /\ "mark" \notin Drops
    BY <1>9 DEF MarkFails, Drops
  <2>2. CallPhase(i) /\ i.op \notin Rollbacks /\ SameWrites(i, k)
    BY <1>1, <2>1, AnsweredPhase DEF Call, CallPhase, SameWrites
  <2>3. call' = [call EXCEPT ![r] = i] /\ Grows
    BY <1>1, <1>9, LostGrows DEF MarkFails
  <2>4. k.op \notin Rollbacks
    BY <1>1, <2>1 DEF CallPhase
  <2> QED
    BY <2>2, <2>3, <2>4, GrowingStep DEF SameWrites
<1>10. ASSUME NEW drop \in Drops, DropLands(r, drop) PROVE StoreInv'
  <2>1. LET i == Answered(r, drop) IN i \in Call /\ CallPhase(i) /\ i.op \in Rollbacks
    BY <1>1, <1>10, AnsweredPhase DEF DropLands
  <2>2. LET i == AfterDrop(Answered(r, drop)) IN CallPhase(i) /\ i.op \in Rollbacks
    BY <2>1, AfterDropPhase
  <2>3. DroppedKey(r, drop) \in Codes
    BY <1>1 DEF DroppedKey
  <2> QED
    BY <1>10, <2>2, <2>3, ErasingStep DEF DropLands
<1>11. ASSUME NEW drop \in Drops, DropFails(r, drop) PROVE StoreInv'
  <2> DEFINE i == [Answered(r, drop) EXCEPT !.out = "rejected"]
  <2>1. LET j == Answered(r, drop) IN j \in Call /\ CallPhase(j) /\ j.op \in Rollbacks /\ j.op # "none"
    BY <1>1, <1>11, AnsweredPhase DEF DropFails
  <2>2. CallPhase(i) /\ i.op \in Rollbacks
    BY <2>1 DEF Call, CallPhase
  <2>3. DroppedKey(r, drop) \in Codes
    BY <1>1 DEF DroppedKey
  <2>4. call' = [call EXCEPT ![r] = i]
    BY <1>11 DEF DropFails
  <2>5. Grows \/ EraseVersion(r, DroppedKey(r, drop))
    BY <1>11, UnchangedGrows DEF DropFails, NotDone, Lost
  <2> QED
    BY <2>2, <2>3, <2>4, <2>5, ErasingStep, GrowingStep
<1> QED
  BY <1>3, <1>4, <1>5, <1>6, <1>7, <1>8, <1>9, <1>10, <1>11 DEF StoreAnswers

\* A call moves on only when it waited for an answer, and at most into the
\* rollback of absorb.
LEMMA StoreAnswersOp ==
    ASSUME StoreTypeOK, NEW r \in Requests, StoreAnswers(r)
    PROVE  /\ call[r].pending # {}
           /\ call'[r].op = call[r].op \/ call'[r].op = "revert"
           /\ \A q \in Requests \ {r} : call'[q] = call[q]
<1>1. call \in [Requests -> Call] /\ call[r] \in Call
  BY DEF StoreTypeOK
<1>2. ASSUME NEW k \in Call PROVE AfterGet(k).op = k.op
  BY DEF AfterGet, PatchMerge, AbsorbMerge, Call
<1>3. ASSUME NEW k \in Call PROVE AfterWrite(k).op = k.op \/ AfterWrite(k).op = "revert"
  BY DEF AfterWrite, Unwind, Call
<1>4. ASSUME NEW k \in Call PROVE AfterDrop(k).op = k.op
  BY DEF AfterDrop, Call
<1>5. ASSUME NEW step PROVE Answered(r, step) \in Call /\ Answered(r, step).op = call[r].op
  BY <1>1 DEF Answered, Call
<1>6. CASE GetInto(r)
  <2> DEFINE i == [Answered(r, "getInto") EXCEPT !.seen.into = Read(bucket[call[r].into])]
  <2>1. Read(bucket[call[r].into]) \in Bodies
    BY <1>1, ReadType DEF Call, StoreTypeOK
  <2>2. i \in Call /\ i.op = call[r].op
    BY <1>5, <2>1 DEF Call
  <2> QED
    BY <1>1, <1>2, <1>6, <2>2 DEF GetInto
<1>7. CASE GetFrom(r)
  <2> DEFINE i == [Answered(r, "getFrom") EXCEPT !.seen.from = Read(bucket[call[r].from])]
  <2>1. Read(bucket[call[r].from]) \in Bodies
    BY <1>1, ReadType DEF Call, StoreTypeOK
  <2>2. i \in Call /\ i.op = call[r].op
    BY <1>5, <2>1 DEF Call
  <2> QED
    BY <1>1, <1>2, <1>7, <2>2 DEF GetFrom
<1>8. CASE GetFails(r)
  BY <1>1, <1>8 DEF GetFails, Call
<1>9. CASE PutLands(r)
  <2> DEFINE i == [Answered(r, "put") EXCEPT !.held = @ \union {"put"}]
  <2>1. i \in Call /\ i.op = call[r].op
    BY <1>5 DEF Call, Writes
  <2> QED
    BY <1>1, <1>3, <1>9, <2>1 DEF PutLands
<1>10. CASE PutFails(r)
  BY <1>1, <1>3, <1>5, <1>10 DEF PutFails
<1>11. CASE MarkLands(r)
  <2> DEFINE i == [Answered(r, "mark") EXCEPT !.held = @ \union {"mark"}]
  <2>1. i \in Call /\ i.op = call[r].op
    BY <1>5 DEF Call, Writes
  <2> QED
    BY <1>1, <1>3, <1>11, <2>1 DEF MarkLands
<1>12. CASE MarkFails(r)
  <2>1. [Answered(r, "mark") EXCEPT !.out = "rejected"].op = call[r].op
    BY <1>5 DEF Call
  <2> QED
    BY <1>1, <1>12, <2>1 DEF MarkFails
<1>13. CASE \E drop \in Drops : DropLands(r, drop)
  BY <1>1, <1>4, <1>5, <1>13 DEF DropLands
<1>14. CASE \E drop \in Drops : DropFails(r, drop)
  <2>1. \A drop : [Answered(r, drop) EXCEPT !.out = "rejected"].op = call[r].op
    BY <1>5 DEF Call
  <2> QED
    BY <1>1, <1>14, <2>1 DEF DropFails
<1> QED
  BY <1>6, <1>7, <1>8, <1>9, <1>10, <1>11, <1>12, <1>13, <1>14 DEF StoreAnswers

LEMMA StartSafe ==
    ASSUME StoreTypeOK, StoreInv, NEW r \in Requests, NEW k, Start(r, k), CallPhase(k),
           k.op \in Rollbacks \/ k.held = {}
    PROVE  StoreInv'
BY UnchangedGrows, GrowingStep DEF Start

LEMMA StoreUnchangedSafe == ASSUME StoreInv, UNCHANGED storeVars PROVE StoreInv'
BY DEF StoreInv, HeldStands, WroteVersion, storeVars

LEMMA NewCallPhase ==
    ASSUME NEW op \in {"post", "patch", "delete", "absorb"}, NEW into, NEW from, NEW body,
           NEW pending \in SUBSET (Gets \union Writes)
    PROVE  CallPhase(NewCall(op, into, from, body, pending))
           /\ NewCall(op, into, from, body, pending).held = {}
BY DEF NewCall, CallPhase, Rollbacks, Gets, Writes, Drops

LEMMA UndoSafe == ASSUME StoreTypeOK, StoreInv, NEW r \in Requests, Undo(r) PROVE StoreInv'
<1>1. CallPhase(Unwind(call[r], "undo", "fulfilled"))
      /\ Unwind(call[r], "undo", "fulfilled").op \in Rollbacks
  BY UnwindPhase DEF StoreTypeOK, Rollbacks
<1> QED
  BY <1>1, StartSafe DEF Undo

LEMMA CallsSafe ==
    ASSUME StoreTypeOK, StoreInv, NEW r \in Requests, NEW c, NEW d, NEW body,
           \/ Post(r, c, body)
           \/ Patch(r, c, body)
           \/ Delete(r, c)
           \/ Absorb(r, c, d)
    PROVE  StoreInv'
<1>1. CASE Post(r, c, body)
  BY <1>1, NewCallPhase, StartSafe DEF Post, Writes
<1>2. CASE Patch(r, c, body)
  BY <1>2, NewCallPhase, StartSafe DEF Patch, Gets
<1>3. CASE Delete(r, c)
  BY <1>3, NewCallPhase, StartSafe DEF Delete, Writes
<1>4. CASE Absorb(r, c, d)
  BY <1>4, NewCallPhase, StartSafe DEF Absorb
<1> QED
  BY <1>1, <1>2, <1>3, <1>4

LEMMA InitSafe == Init => StoreInv /\ HandlerInv
<1> SUFFICES ASSUME Init, NEW r \in Requests
             PROVE  CallPhase(call[r]) /\ HeldStands(r) /\ HandlerPhase(r)
  BY DEF StoreInv, HandlerInv
<1>1. call[r] = NoCall /\ req[r] = NoRequest
  BY DEF Init, StoreInit
<1> QED
  BY <1>1, NoCallType, NoRequestType
     DEF CallPhase, HeldStands, HandlerPhase, Acknowledged, Rollbacks, Drops

\* What a step of r leaves behind for r is all there is to show.
OthersStay(r) == \A q \in Requests \ {r} : call'[q] = call[q] /\ req'[q] = req[q]

LEMMA HandlerInvStep ==
    ASSUME HandlerInv, NEW r \in Requests, OthersStay(r), HandlerPhase(r)' PROVE HandlerInv'
BY DEF HandlerInv, HandlerPhase, OthersStay, Acknowledged

LEMMA BecomeAlone ==
    ASSUME TypeOK, NEW r \in Requests, NEW k, Become(r, k),
           UNCHANGED call \/ \E j : Start(r, j)
    PROVE  OthersStay(r) /\ req'[r] = k /\ \A j : Start(r, j) => call'[r] = j
BY DEF TypeOK, StoreTypeOK, Become, Start, OthersStay

\* Once a handler has answered with an error nothing more is asked of it.
LEMMA FailedPhase ==
    ASSUME NEW r \in Requests, req'[r].pc \in {"undo", "end", "crashed"},
           req'[r].pc # "crashed" => req'[r].status \notin Success
    PROVE  HandlerPhase(r)'
BY DEF HandlerPhase, Acknowledged

LEMMA FailureNotSuccess == Failures \cap Success = {} /\ Failures \subseteq Success \union Failures
BY DEF Failures, Success

LEMMA RefuseSafe ==
    ASSUME TypeOK, StoreInv, HandlerInv, NEW r \in Requests, NEW status \in Failures,
           Answer(r, status), UNCHANGED storeVars
    PROVE  StoreInv' /\ HandlerInv'
<1>1. RequestOK(req[r])
  BY TypeSplit DEF RequestsOK
<1>2. LET k == Conclude(req[r], "end", status) IN k.pc = "end" /\ k.status = status
  BY <1>1, ConcludeType DEF Pcs
<1>3. OthersStay(r) /\ req'[r] = Conclude(req[r], "end", status)
  BY BecomeAlone DEF Answer, storeVars
<1>4. HandlerPhase(r)'
  BY <1>2, <1>3, FailedPhase, FailureNotSuccess
<1> QED
  BY <1>3, <1>4, HandlerInvStep, StoreUnchangedSafe

LEMMA FailWithSafe ==
    ASSUME TypeOK, StoreInv, HandlerInv, NEW r \in Requests, NEW k, RequestOK(k),
           NEW status \in Failures, FailWith(r, k, status)
    PROVE  StoreInv' /\ HandlerInv'
<1> DEFINE pc == IF k.method = "ABSORB" \/ call[r].op = "none" THEN "end" ELSE "undo"
           j == Conclude(k, pc, status)
<1>1. pc \in Pcs /\ pc \in {"undo", "end"}
  BY DEF Pcs
<1>2. j.pc = pc /\ j.status = status
  BY <1>1, ConcludeType, FailureNotSuccess
<1>3. Become(r, j)
  BY DEF FailWith
<1>4. UNCHANGED call \/ \E i : Start(r, i)
  BY DEF FailWith, storeVars, Undo
<1>5. OthersStay(r) /\ req'[r] = j
  BY <1>3, <1>4, BecomeAlone
<1>6. HandlerPhase(r)'
  BY <1>1, <1>2, <1>5, FailedPhase, FailureNotSuccess
<1>7. StoreInv'
  BY TypeSplit, UndoSafe, StoreUnchangedSafe DEF FailWith
<1> QED
  BY <1>5, <1>6, <1>7, HandlerInvStep

LEMMA FailSafe ==
    ASSUME TypeOK, StoreInv, HandlerInv, NEW r \in Requests, NEW status \in Failures, Fail(r, status)
    PROVE  StoreInv' /\ HandlerInv'
BY FailWithSafe, TypeSplit DEF Fail, RequestsOK

\* A handler that acknowledges has done so on a call that stands.
LEMMA SucceedSafe ==
    ASSUME TypeOK, StoreInv, HandlerInv, NEW r \in Requests, NEW status \in Success,
           DocsWritten(r), Answer(r, status), UNCHANGED storeVars
    PROVE  StoreInv' /\ HandlerInv'
<1>1. RequestOK(req[r])
  BY TypeSplit DEF RequestsOK
<1>2. LET k == Conclude(req[r], "end", status) IN k.pc = "end" /\ k.status = status
  BY <1>1, ConcludeType DEF Pcs
<1>3. OthersStay(r) /\ req'[r] = Conclude(req[r], "end", status)
  BY BecomeAlone DEF Answer, storeVars
<1>4. call[r].op \notin Rollbacks /\ call[r].out \in {"none", "fulfilled"}
  BY DEF DocsWritten, HandlerInv, HandlerPhase, StoreInv, CallPhase, Rollbacks
<1>5. HandlerPhase(r)'
  BY <1>2, <1>3, <1>4 DEF HandlerPhase, storeVars
<1> QED
  BY <1>3, <1>5, HandlerInvStep, StoreUnchangedSafe

\* The first part of a handler leaves a call that may be acknowledged.
LEMMA BeginSafe ==
    ASSUME TypeOK, StoreInv, HandlerInv, NEW r \in Requests, NEW k, RequestOK(k), k.pc = "docs",
           Become(r, k),
           \/ UNCHANGED storeVars /\ call[r].op = "none"
           \/ \E c, d, b : Post(r, c, b) \/ Patch(r, c, b) \/ Delete(r, c) \/ Absorb(r, c, d)
    PROVE  StoreInv' /\ HandlerInv'
<1> USE TypeSplit
<1>1. StoreInv'
  BY CallsSafe, StoreUnchangedSafe
<1>2. UNCHANGED call \/ \E j : Start(r, j)
  BY DEF storeVars, Post, Patch, Delete, Absorb
<1>3. OthersStay(r) /\ req'[r] = k /\ \A j : Start(r, j) => call'[r] = j
  BY <1>2, BecomeAlone
<1>4. ASSUME NEW op \in {"post", "patch", "delete", "absorb"}, NEW into, NEW from, NEW body, NEW pending
      PROVE  NewCall(op, into, from, body, pending).op # "undo"
  BY DEF NewCall
<1>5. call'[r].op # "undo"
  <2>1. CASE UNCHANGED storeVars /\ call[r].op = "none"
    BY <2>1 DEF storeVars
  <2>2. CASE \E c, d, b : Post(r, c, b) \/ Patch(r, c, b) \/ Delete(r, c) \/ Absorb(r, c, d)
    <3>1. PICK c, d, b : Post(r, c, b) \/ Patch(r, c, b) \/ Delete(r, c) \/ Absorb(r, c, d)
      BY <2>2
    <3>2. CASE Post(r, c, b)
      BY <1>3, <1>4, <3>2 DEF Post
    <3>3. CASE Patch(r, c, b)
      BY <1>3, <1>4, <3>3 DEF Patch
    <3>4. CASE Delete(r, c)
      BY <1>3, <1>4, <3>4 DEF Delete
    <3>5. CASE Absorb(r, c, d)
      BY <1>3, <1>4, <3>5 DEF Absorb
    <3> QED
      BY <3>1, <3>2, <3>3, <3>4, <3>5
  <2> QED
    BY <2>1, <2>2
<1>6. HandlerPhase(r)'
  BY <1>3, <1>5 DEF HandlerPhase, Acknowledged
<1> QED
  BY <1>1, <1>3, <1>6, HandlerInvStep

LEMMA BeginCreateSafe ==
    ASSUME TypeOK, StoreInv, HandlerInv, NEW r \in Requests, NEW k, RequestOK(k),
           call[r].op = "none", BeginCreate(r, k)
    PROVE  StoreInv' /\ HandlerInv'
<1>1. CASE r \notin MayCreate
  <2> DEFINE j == Conclude(k, "end", 400)
  <2>1. j.pc = "end" /\ j.status \notin Success
    BY ConcludeType DEF Pcs, Failures, Success
  <2>2. OthersStay(r) /\ req'[r] = j
    BY <1>1, BecomeAlone DEF BeginCreate, storeVars
  <2>3. HandlerPhase(r)'
    BY <2>1, <2>2, FailedPhase
  <2> QED
    BY <1>1, <2>2, <2>3, HandlerInvStep, StoreUnchangedSafe DEF BeginCreate
<1>2. CASE r \in MayCreate
  <2> DEFINE i == [k EXCEPT !.pc = "docs"]
             j == [k EXCEPT !.pc = "docs", !.flags = @ \union {"create"}]
  <2>1. i \in Request /\ i.pc = "docs" /\ i.flags \in SUBSET {"edits", "create", "late"}
    BY PcField DEF RequestOK, Pcs, Request
  <2>2. j = [i EXCEPT !.flags = @ \union {"create"}]
    OBVIOUS
  <2> HIDE DEF i
  <2>3. RequestOK(j) /\ j.pc = "docs"
    BY <2>1, <2>2, FlagsField DEF RequestOK
  <2>4. Become(r, j)
    BY <1>2 DEF BeginCreate
  <2> HIDE DEF j
  <2> QED
    BY <1>2, <2>3, <2>4, BeginSafe DEF BeginCreate
<1> QED
  BY <1>1, <1>2
LEMMA ArrivesSafe ==
    ASSUME WritesInv, NEW r \in Requests, Arrives(r) PROVE StoreInv' /\ HandlerInv'
<1> USE TypeSplit DEF WritesInv
<1>1. req[r].pc = "idle" /\ call[r].op = "none"
  BY DEF Arrives, ArrivePost, ArrivePatch, ArriveDelete, ArriveAbsorb, HandlerInv, HandlerPhase
<1>2. CASE ArrivePost(r)
  <2>1. PICK code \in Codes, docs \in Drafts \union {EmptyBody} :
            BeginCreate(r, NewRequest("POST", code, code, docs, {}))
    BY <1>2 DEF ArrivePost
  <2>2. RequestOK(NewRequest("POST", code, code, docs, {}))
    BY DraftType, NewRequestType DEF Methods
  <2> QED
    BY <1>1, <2>1, <2>2, BeginCreateSafe
<1>3. ASSUME NEW k, k.pc = "preflight", Become(r, k), UNCHANGED storeVars
      PROVE  StoreInv' /\ HandlerInv'
  <2>1. OthersStay(r) /\ req'[r] = k
    BY <1>3, BecomeAlone DEF storeVars
  <2>2. HandlerPhase(r)'
    BY <1>1, <1>3, <2>1 DEF HandlerPhase, Acknowledged, storeVars
  <2> QED
    BY <1>3, <2>1, <2>2, HandlerInvStep, StoreUnchangedSafe
<1>4. ASSUME NEW method, NEW code, NEW other, NEW docs, NEW flags
      PROVE  NewRequest(method, code, other, docs, flags).pc = "preflight"
  BY DEF NewRequest
<1>5. CASE ArrivePatch(r) \/ ArriveDelete(r) \/ ArriveAbsorb(r)
  BY <1>3, <1>4, <1>5 DEF ArrivePatch, ArriveDelete, ArriveAbsorb
<1> QED
  BY <1>2, <1>5 DEF Arrives

\* The preflight ends in an answer or in the first call of the store.
LEMMA PreflightSafe ==
    ASSUME WritesInv, NEW r \in Requests,
           PatchPreflight(r) \/ DeletePreflight(r) \/ \E c \in Codes : FetchNode(r, c)
    PROVE  StoreInv' /\ HandlerInv'
<1> USE TypeSplit DEF WritesInv
<1>1. /\ RequestOK(req[r]) /\ req[r] \in Request
      /\ req[r].pc = "preflight"
      /\ call[r].op = "none"
  BY DEF RequestsOK, RequestOK, PatchPreflight, DeletePreflight, FetchNode, HandlerInv, HandlerPhase
<1>2. ASSUME NEW k, RequestOK(k)
      PROVE  RequestOK([k EXCEPT !.pc = "docs"]) /\ [k EXCEPT !.pc = "docs"].pc = "docs"
  BY <1>2, PcField DEF RequestOK, Pcs
<1>3. CASE PatchPreflight(r)
  <2>1. CASE req[r].code \notin nodes
    BY <1>1, <1>3, <2>1, BeginCreateSafe DEF PatchPreflight
  <2>2. CASE req[r].code \in nodes
    BY <1>1, <1>2, <1>3, <2>2, BeginSafe DEF PatchPreflight
  <2> QED
    BY <2>1, <2>2
<1>4. CASE DeletePreflight(r)
  <2>1. CASE req[r].code \in nodes \ linked
    BY <1>1, <1>2, <1>4, <2>1, BeginSafe DEF DeletePreflight
  <2>2. CASE req[r].code \notin nodes \ linked
    <3>1. (IF req[r].code \in nodes THEN 409 ELSE 404) \in Failures
      BY DEF Failures
    <3> QED
      BY <1>4, <2>2, <3>1, RefuseSafe DEF DeletePreflight
  <2> QED
    BY <2>1, <2>2
<1>5. ASSUME NEW c \in Codes, FetchNode(r, c) PROVE StoreInv' /\ HandlerInv'
  <2>1. CASE c \notin nodes
    <3>1. 404 \in Failures
      BY DEF Failures
    <3>2. Answer(r, 404) /\ UNCHANGED storeVars
      BY <1>5, <2>1 DEF FetchNode
    <3> QED
      BY <3>1, <3>2, RefuseSafe
  <2>2. CASE c \in nodes /\ req[r].fetched = {}
    <3> DEFINE k == [req[r] EXCEPT !.fetched = {c}]
    <3>1. k.pc = "preflight"
      BY <1>1 DEF Request
    <3>2. Become(r, k) /\ UNCHANGED storeVars
      BY <1>5, <2>2 DEF FetchNode
    <3> HIDE DEF k
    <3>3. OthersStay(r) /\ req'[r] = k
      BY <3>2, BecomeAlone DEF storeVars
    <3>4. HandlerPhase(r)'
      BY <1>1, <3>1, <3>2, <3>3 DEF HandlerPhase, Acknowledged, storeVars
    <3> QED
      BY <3>2, <3>3, <3>4, HandlerInvStep, StoreUnchangedSafe
  <2>3. CASE c \in nodes /\ req[r].fetched # {}
    <3> DEFINE i == [req[r] EXCEPT !.fetched = @ \union {c}]
               j == [i EXCEPT !.pc = "docs"]
    <3>1. RequestOK(i)
      BY <1>1 DEF RequestOK, Request
    <3>2. j = [req[r] EXCEPT !.fetched = @ \union {c}, !.pc = "docs"]
      OBVIOUS
    <3> HIDE DEF i
    <3>3. RequestOK(j) /\ j.pc = "docs"
      BY <1>2, <3>1
    <3> HIDE DEF j
    <3>4. Become(r, j) /\ Absorb(r, req[r].other, req[r].code)
      BY <1>5, <2>3, <3>2 DEF FetchNode
    <3> QED
      BY <3>3, <3>4, BeginSafe
  <2> QED
    BY <2>1, <2>2, <2>3
<1> QED
  BY <1>3, <1>4, <1>5

LEMMA HandlerStepSafe ==
    ASSUME WritesInv, "listener" \notin Faults, NEW r \in Requests, HandlerStep(r)
    PROVE  StoreInv' /\ HandlerInv'
<1> USE TypeSplit DEF WritesInv
<1>1. RequestOK(req[r]) /\ req[r] \in Request
  BY DEF RequestsOK, RequestOK
<1>2. CASE PreflightFails(r) \/ DocsRejected(r)
  BY <1>2, RefuseSafe DEF PreflightFails, DocsRejected, Failures
<1>3. CASE Commit(r)
  <2>1. SuccessStatus(r) \in Success
    BY DEF SuccessStatus, Success
  <2> QED
    BY <1>3, <2>1, SucceedSafe DEF Commit
<1>4. CASE PatchDocsOnly(r)
  BY <1>4, SucceedSafe DEF PatchDocsOnly, Success
<1>5. CASE QueryRefused(r)
  BY <1>5, FailSafe DEF QueryRefused, Failures
<1>6. CASE QueryFails(r)
  BY <1>6, FailSafe DEF QueryFails, Failures
<1>7. CASE QueryTimesOut(r)
  <2>1. RequestOK([req[r] EXCEPT !.flags = @ \union {"late"}])
    BY <1>1, FlagsField DEF RequestOK, Request
  <2> QED
    BY <1>1, <1>7, <2>1, FailWithSafe DEF QueryTimesOut, Failures
<1>8. CASE UndoAnswered(r)
  <2> DEFINE status == IF call[r].out = "rejected" THEN 500 ELSE req[r].status
  <2>1. req[r].status \notin Success /\ req[r].status # 0
    BY <1>1, <1>8 DEF UndoAnswered, RequestOK, HandlerInv, HandlerPhase
  <2>2. status \in Failures
    BY <1>1, <2>1 DEF Request, Statuses, Failures
  <2> QED
    BY <1>8, <2>2, RefuseSafe DEF UndoAnswered
<1>9. ~ ListenerThrows(r)
  BY DEF ListenerThrows
<1> QED
  BY <1>2, <1>3, <1>4, <1>5, <1>6, <1>7, <1>8, <1>9, PreflightSafe DEF HandlerStep

\* An acknowledged request waits for nothing, so neither an answer of S3 nor a
\* crash concerns it.
LEMMA AcknowledgedIdle ==
    ASSUME WritesInv, NEW r \in Requests, Acknowledged(r)
    PROVE  call[r].pending = {} /\ ~ Busy(r)
<1>1. call[r].out \in {"none", "fulfilled"} /\ CallPhase(call[r])
  BY DEF WritesInv, HandlerInv, HandlerPhase, StoreInv
<1>2. call[r].pending = {}
  BY <1>1 DEF WritesInv, TypeOK, StoreTypeOK, CallPhase
<1> QED
  BY <1>1, <1>2 DEF Acknowledged, Busy, Settled

LEMMA StoreStepSafe ==
    ASSUME WritesInv, NEW r \in Requests, StoreStep(r) PROVE StoreInv' /\ HandlerInv'
<1> USE DEF WritesInv
<1>1. StoreAnswers(r) /\ req' = req /\ StoreTypeOK
  BY DEF StoreStep, handlerVars, TypeOK
<1>2. StoreInv'
  BY <1>1, StoreAnswersSafe
<1>3. /\ call[r].pending # {}
      /\ call'[r].op = call[r].op \/ call'[r].op = "revert"
      /\ OthersStay(r)
  BY <1>1, StoreAnswersOp DEF OthersStay
<1>4. ~ Acknowledged(r) /\ call[r].op # "none"
  BY <1>3, AcknowledgedIdle DEF StoreInv, CallPhase
<1>5. HandlerPhase(r)'
  BY <1>1, <1>3, <1>4 DEF HandlerInv, HandlerPhase, Acknowledged
<1> QED
  BY <1>2, <1>3, <1>5, HandlerInvStep

LEMMA EnvironmentSafe ==
    ASSUME WritesInv, NEW r \in Requests, LateQueryEnds(r) \/ Crash(r)
    PROVE  StoreInv' /\ HandlerInv'
<1> USE TypeSplit DEF WritesInv
<1>1. req[r] \in Request /\ call[r] \in Call
  BY DEF RequestsOK, RequestOK, StoreTypeOK
<1>2. CASE LateQueryEnds(r)
  <2> DEFINE k == [req[r] EXCEPT !.flags = @ \ {"late"}]
  <2>1. k.pc = req[r].pc /\ k.status = req[r].status
    BY <1>1, FlagsField DEF Request
  <2>2. Become(r, k) /\ UNCHANGED storeVars
    BY <1>2 DEF LateQueryEnds
  <2> HIDE DEF k
  <2>3. OthersStay(r) /\ req'[r] = k
    BY <2>2, BecomeAlone DEF storeVars
  <2>4. HandlerPhase(r)'
    BY <2>1, <2>2, <2>3 DEF HandlerInv, HandlerPhase, Acknowledged, storeVars
  <2> QED
    BY <2>2, <2>3, <2>4, HandlerInvStep, StoreUnchangedSafe
<1>3. CASE Crash(r)
  <2> DEFINE k == IF req[r].pc = "end" THEN req[r] ELSE [req[r] EXCEPT !.pc = "crashed"]
             j == [call[r] EXCEPT !.pending = {},
                                  !.out = IF @ = "waiting" THEN "rejected" ELSE @]
  <2>1. k.pc \in {"end", "crashed"} /\ (k.pc = "end" => k = req[r])
    BY <1>1 DEF Request
  <2>2. Become(r, k) /\ Start(r, j)
    BY <1>3 DEF Crash
  <2>3. OthersStay(r) /\ req'[r] = k
    BY <2>2, BecomeAlone
  <2>4. req[r].pc = "end" => req[r].status \notin Success
    BY <1>3, AcknowledgedIdle DEF Crash, Acknowledged
  <2>5. HandlerPhase(r)'
    BY <2>1, <2>3, <2>4, FailedPhase
  <2>6. CallPhase(call[r]) /\ HeldStands(r)
    BY DEF StoreInv
  <2>7. CallPhase(j) /\ j.op = call[r].op /\ SameWrites(j, call[r])
    BY <1>1, <2>6 DEF CallPhase, SameWrites, Call
  <2> HIDE DEF j
  <2>8. StoreInv'
    BY <2>2, <2>6, <2>7, UnchangedGrows, GrowingStep DEF Start, SameWrites
  <2> QED
    BY <2>3, <2>5, <2>8, HandlerInvStep
<1> QED
  BY <1>2, <1>3

LEMMA WritesStep ==
    ASSUME "listener" \notin Faults, WritesInv, [Next]_vars PROVE WritesInv'
<1>1. TypeOK'
  BY NextType DEF WritesInv
<1>2. ASSUME req' = req, UNCHANGED storeVars PROVE StoreInv' /\ HandlerInv'
  <2>1. UNCHANGED storeVars /\ req' = req /\ call' = call
    BY <1>2 DEF storeVars
  <2>2. HandlerInv'
    BY <2>1 DEF WritesInv, HandlerInv, HandlerPhase, Acknowledged
  <2> QED
    BY <2>1, <2>2, StoreUnchangedSafe DEF WritesInv
<1>3. ASSUME Next PROVE StoreInv' /\ HandlerInv'
  <2>1. ASSUME NEW c \in Codes, Relate(c) PROVE StoreInv' /\ HandlerInv'
    BY <1>2, <2>1 DEF Relate
  <2>2. ASSUME NEW r \in Requests,
               Arrives(r) \/ HandlerStep(r) \/ StoreStep(r) \/ LateQueryEnds(r) \/ Crash(r)
        PROVE  StoreInv' /\ HandlerInv'
    BY <2>2, ArrivesSafe, HandlerStepSafe, StoreStepSafe, EnvironmentSafe
  <2> QED
    BY <1>3, <2>1, <2>2 DEF Next
<1>4. ASSUME UNCHANGED vars PROVE StoreInv' /\ HandlerInv'
  BY <1>2, <1>4 DEF vars, storeVars
<1> QED
  BY <1>1, <1>3, <1>4 DEF WritesInv

\* What an acknowledged request wrote to the document store stays there,
\* whatever other handlers fail, undo, time out or crash, as long as no listener
\* throws out of broadcast (absorb would undo its documents and answer 200).
THEOREM AcknowledgedWritesStand ==
    ASSUME "listener" \notin Faults
    PROVE  Spec => []AcknowledgedWritesSurvive
<1>1. Init => WritesInv
  BY InitType, InitSafe DEF WritesInv
<1>2. WritesInv /\ [Next]_vars => WritesInv'
  BY WritesStep
<1>3. WritesInv => AcknowledgedWritesSurvive
  BY DEF WritesInv, HandlerInv, HandlerPhase, StoreInv, HeldStands, AcknowledgedWritesSurvive
<1> QED
  BY <1>1, <1>2, <1>3, PTL DEF Spec
-----------------------------------------------------------------------------
(* The store on its own. *)

LEMMA StoreNextType == ASSUME StoreTypeOK, [StoreNext]_storeVars PROVE StoreTypeOK'
<1>1. ASSUME NEW r \in Requests, CallStore(r) PROVE StoreTypeOK'
  <2>1. ASSUME NEW c \in Codes, NEW b \in Drafts, Post(r, c, b) \/ Patch(r, c, b) PROVE StoreTypeOK'
    <3>1. b \in Bodies
      BY DraftType
    <3> QED
      BY <2>1, <3>1, CallTypes, StartType DEF Post, Patch
  <2>2. ASSUME NEW c \in Codes, Delete(r, c) PROVE StoreTypeOK'
    BY <2>2, EmptyBodyType, CallTypes, StartType DEF Delete
  <2>3. ASSUME NEW from \in Codes, NEW into \in Codes, Absorb(r, from, into) PROVE StoreTypeOK'
    BY <2>3, EmptyBodyType, CallTypes, StartType DEF Absorb
  <2> QED
    BY <1>1, <2>1, <2>2, <2>3 DEF CallStore
<1>2. ASSUME NEW r \in Requests, CallUndo(r) PROVE StoreTypeOK'
  BY <1>2, UndoType DEF CallUndo
<1> QED
  BY <1>1, <1>2, StoreAnswersType, StoreUnchanged DEF StoreNext

LEMMA StoreNextSafe == ASSUME StoreTypeOK, StoreInv, [StoreNext]_storeVars PROVE StoreInv'
<1>1. ASSUME NEW r \in Requests, CallStore(r) PROVE StoreInv'
  BY <1>1, CallsSafe DEF CallStore
<1>2. ASSUME NEW r \in Requests, CallUndo(r) PROVE StoreInv'
  BY <1>2, UndoSafe DEF CallUndo
<1> QED
  BY <1>1, <1>2, StoreAnswersSafe, StoreUnchangedSafe DEF StoreNext

\* A version that goes belongs to a call that is being rolled back.
LEMMA ErasureIsOwn ==
    ASSUME StoreTypeOK, StoreInv, NEW r \in Requests, StoreAnswers(r),
           NEW c \in Codes, NEW v \in bucket[c] \ bucket'[c]
    PROVE  v.id = r /\ call[r].op \in Rollbacks
<1>1. call[r] \in Call /\ CallPhase(call[r])
  BY DEF StoreTypeOK, StoreInv
<1>2. ~ Grows
  BY DEF Grows
<1>3. call[r].into \in Codes /\ call[r].from \in Codes
  BY <1>1 DEF Call
<1>4. ~ (GetInto(r) \/ GetFrom(r) \/ GetFails(r) \/ PutLands(r) \/ MarkLands(r))
  BY <1>2, <1>3, UnchangedGrows, AddVersionGrows
     DEF GetInto, GetFrom, GetFails, PutLands, MarkLands
<1>5. ~ (PutFails(r) \/ MarkFails(r))
  BY <1>2, <1>3, LostGrows DEF PutFails, MarkFails
<1>6. PICK drop \in Drops : drop \in call[r].pending /\ EraseVersion(r, DroppedKey(r, drop))
  <2>1. PICK drop \in Drops : DropLands(r, drop) \/ DropFails(r, drop)
    BY <1>4, <1>5 DEF StoreAnswers
  <2> QED
    BY <1>2, <2>1, UnchangedGrows DEF DropLands, DropFails, NotDone, Lost
<1>7. call[r].op \in Rollbacks
  BY <1>1, <1>6 DEF CallPhase
<1>8. v.id = r
  BY <1>3, <1>6 DEF EraseVersion, DropVersion, DroppedKey, StoreTypeOK
<1> QED
  BY <1>7, <1>8

\* Whatever S3 refuses, delays or carries out without saying so, a version only
\* leaves the bucket in a rollback or an undo of the call that wrote it.
THEOREM ErasuresAreOwn == StoreSpec => OnlyOwnUndoErases
<1>1. StoreInit => StoreInv
  BY NoCallType DEF StoreInit, StoreInv, CallPhase, HeldStands, Rollbacks
<1>2. StoreTypeOK /\ StoreInv /\ [StoreNext]_storeVars => StoreTypeOK' /\ StoreInv'
  BY StoreNextType, StoreNextSafe
<1>3. StoreTypeOK /\ StoreInv /\ [StoreNext]_storeVars
      => [\A c \in Codes : \A v \in bucket[c] \ bucket'[c] :
             v.id \in Requests /\ call[v.id].op \in {"undo", "revert"}]_storeVars
  <2>1. ASSUME StoreTypeOK, StoreInv, StoreNext,
               NEW c \in Codes, NEW v \in bucket[c] \ bucket'[c]
        PROVE  v.id \in Requests /\ call[v.id].op \in {"undo", "revert"}
    <3>1. PICK r \in Requests : CallStore(r) \/ CallUndo(r) \/ StoreAnswers(r)
      BY <2>1 DEF StoreNext
    <3>2. ~ (CallStore(r) \/ CallUndo(r))
      BY <2>1 DEF CallStore, CallUndo, Post, Patch, Delete, Absorb, Undo, Start
    <3> QED
      BY <2>1, <3>1, <3>2, ErasureIsOwn DEF Rollbacks
  <2> QED
    BY <2>1
<1> QED
  BY <1>1, <1>2, <1>3, StoreInitType, PTL DEF StoreSpec, OnlyOwnUndoErases
=============================================================================
