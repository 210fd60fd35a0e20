------------------------ MODULE RecordDocumentsProofs ------------------------
(***************************************************************************)
(* Theorems about what the handlers leave in the document store: the texts *)
(* of an absorb, the documents of a record that was created, and nothing   *)
(* of a request that failed.                                               *)
(***************************************************************************)
EXTENDS RecordHandlersProofs

-----------------------------------------------------------------------------
(* The inductive invariant. *)

\* The faults after which nobody is left who could undo a write: a delete
\* marker or an undo that S3 refuses, an answer that hides a write, a crash.
CleanFaults == Faults \cap {"mark", "drop", "lost", "crash"} = {}

\* A call reads before it writes, and writes what it has read.
DocsPhase(k) ==
    /\ k.pending \cap Gets # {} =>
          /\ k.pending \subseteq Gets
          /\ k.held = {}
          /\ k.op \in {"patch", "absorb"}
          /\ k.out = "waiting"
    /\ k.op = "none" => k.held = {}
    /\ k.op = "post" =>
          /\ k.pending \subseteq {"put"}
          /\ "put" \notin Faults /\ k.out = "fulfilled" => "put" \in k.held
    /\ k.op = "absorb" =>
          /\ "put" \in k.pending \union k.held => k.body = Overlay(k.seen.into, k.seen.from)
          /\ k.out = "fulfilled" /\ k.seen.from # EmptyBody /\ AbsorbNeedsPut(k) => "put" \in k.held

\* Only a rollback is rejected with writes that stand or are on their way.
CleanPhase(k) == k.op \notin Rollbacks /\ k.out = "rejected" => k.held = {} /\ k.pending = {}

HasBody(versions, r, body) == \E v \in versions : v.id = r /\ v.body = body

\* What a call has uploaded is in the bucket until it is rolled back.
DocsStand(r) ==
    call[r].op \notin Rollbacks /\ "put" \in call[r].held =>
        HasBody(bucket[call[r].into], r, call[r].body)

\* The keys where call k may have a version: those of the writes it holds, and
\* during a rollback those whose deletion S3 has not answered.
Left(k, c) ==
    IF k.op \in Rollbacks
    THEN ("dropPut" \in k.pending /\ c = k.into) \/ ("dropMark" \in k.pending /\ c = k.from)
    ELSE ("put" \in k.held /\ c = k.into) \/ ("mark" \in k.held /\ c = k.from)

Accounted(r) == \A c \in Codes : HasVersion(bucket[c], r) => Left(call[r], c)

StoreDocs ==
    \A r \in Requests :
        /\ DocsPhase(call[r])
        /\ DocsStand(r)
        /\ CleanFaults => CleanPhase(call[r]) /\ Accounted(r)

\* What a handler that creates a record has done with the documents.
CreatePhase(r) ==
    Creates(r) /\ req[r].docs # EmptyBody /\ (req[r].pc = "docs" \/ Acknowledged(r)) =>
        /\ call[r].op = "post"
        /\ call[r].into = req[r].code
        /\ call[r].body = req[r].docs
        /\ Acknowledged(r) => call[r].out = "fulfilled"

\* A handler that ends with an error has no call, one it has undone or one that
\* was rejected.
RequestPhase(r) ==
    /\ req[r].pc \in {"idle", "preflight"} => call[r].op = "none" /\ ~ Creates(r)
    /\ req[r].pc = "docs" => call[r].op # "undo"
    /\ req[r].pc = "undo" => call[r].op = "undo" /\ req[r].status \notin Success
    /\ req[r].pc = "end" /\ req[r].status \notin Success =>
          call[r].op \in {"none", "undo"} \/ call[r].out = "rejected"
    /\ Creates(r) => req[r].method \in {"POST", "PATCH"}
    /\ CreatePhase(r)

RequestDocs == \A r \in Requests : RequestPhase(r)

DocsInv == TypeOK /\ StoreInv /\ StoreDocs /\ RequestDocs

-----------------------------------------------------------------------------
(* What a call becomes when an answer has come in. *)

LEMMA PutIsNoGet == "put" \notin Gets /\ "mark" \notin Gets /\ Gets \cap Drops = {} /\ Writes \cap Drops = {}
BY DEF Gets, Writes, Drops

LEMMA AfterGetDocs ==
    ASSUME NEW k \in Call, k.pending \subseteq Gets, k.held = {},
           k.op \in {"patch", "absorb"}, k.out = "waiting"
    PROVE  /\ DocsPhase(AfterGet(k))
           /\ AfterGet(k).held = {}
           /\ AfterGet(k).out # "rejected"
<1>1. CASE k.pending # {}
  BY <1>1, PutIsNoGet DEF AfterGet, DocsPhase
<1>2. CASE k.pending = {} /\ k.op = "patch"
  <2>1. AfterGet(k) = PatchMerge(k)
    BY <1>2 DEF AfterGet
  <2>2. LET j == PatchMerge(k)
        IN  /\ j.pending \cap Gets = {}
            /\ j.held = {}
            /\ j.op = "patch"
            /\ j.out # "rejected"
    BY <1>2, PutIsNoGet DEF PatchMerge, Call
  <2> QED
    BY <2>1, <2>2 DEF DocsPhase
<1>3. CASE k.pending = {} /\ k.op = "absorb"
  <2> DEFINE j == AbsorbMerge(k)
  <2>1. AfterGet(k) = j
    BY <1>3 DEF AfterGet
  <2>2. CASE k.seen.from = EmptyBody
    <3>1. /\ j.pending = {}
          /\ j.held = {}
          /\ j.op = "absorb"
          /\ j.out = "fulfilled"
          /\ j.seen = k.seen
      BY <1>3, <2>2 DEF AbsorbMerge, Call
    <3> QED
      BY <2>1, <2>2, <3>1 DEF DocsPhase
  <2>3. CASE k.seen.from # EmptyBody
    <3>1. /\ j.pending \cap Gets = {}
          /\ j.held = {}
          /\ j.op = "absorb"
          /\ j.out = "waiting"
          /\ j.seen = k.seen
          /\ j.body = Overlay(k.seen.into, k.seen.from)
      BY <1>3, <2>3, PutIsNoGet DEF AbsorbMerge, Call
    <3> QED
      BY <2>1, <3>1 DEF DocsPhase
  <2> QED
    BY <2>2, <2>3
<1> QED
  BY <1>1, <1>2, <1>3

\* j goes on from the writes of k: as the same call, or as their rollback.
GoesOn(j, k) ==
    /\ SameWrites(j, k)
    /\ \/ j.op = k.op /\ j.body = k.body
       \/ j.op \in Rollbacks /\ j.pending = DropsFor(k.held)

LEMMA UnwindDocs ==
    ASSUME NEW k \in Call, NEW op \in Rollbacks, NEW outcome \in {"fulfilled", "rejected"}
    PROVE  LET j == Unwind(k, op, outcome)
           IN  DocsPhase(j) /\ CleanPhase(j) /\ GoesOn(j, k)
<1> DEFINE j == Unwind(k, op, outcome)
<1>1. j.op = op /\ SameWrites(j, k) /\ j.pending = DropsFor(k.held)
  BY DEF Unwind, SameWrites, Call
<1>2. j.pending \cap Gets = {}
  BY <1>1 DEF DropsFor, Gets
<1>3. j.op \notin {"none", "post", "absorb"}
  BY <1>1 DEF Rollbacks
<1> HIDE DEF j
<1> QED
  BY <1>1, <1>2, <1>3 DEF DocsPhase, CleanPhase, GoesOn, j

LEMMA AfterWriteDocs ==
    ASSUME NEW k \in Call, DocsPhase(k), k.op \notin Rollbacks,
           k.op = "post" /\ "put" \notin Faults /\ k.pending = {} => "put" \in k.held
    PROVE  /\ DocsPhase(AfterWrite(k))
           /\ CleanPhase(k) => CleanPhase(AfterWrite(k))
           /\ GoesOn(AfterWrite(k), k)
<1>1. CASE k.pending # {} \/ k.out # "waiting"
  BY <1>1 DEF AfterWrite, GoesOn, SameWrites
<1>2. CASE /\ k.pending = {} /\ k.out = "waiting"
           /\ k.op # "absorb" \/ ("mark" \in k.held /\ (AbsorbNeedsPut(k) => "put" \in k.held))
  <2> DEFINE j == [k EXCEPT !.out = "fulfilled"]
  <2>1. AfterWrite(k) = j
    BY <1>2 DEF AfterWrite
  <2>2. /\ j.op = k.op /\ j.body = k.body /\ j.pending = {} /\ j.held = k.held
        /\ j.out = "fulfilled" /\ j.seen = k.seen /\ j.into = k.into /\ j.from = k.from
    BY <1>2 DEF Call
  <2>3. AbsorbNeedsPut(j) <=> AbsorbNeedsPut(k)
    BY <2>2 DEF AbsorbNeedsPut
  <2> HIDE DEF j
  <2>4. DocsPhase(j)
    BY <1>2, <2>2, <2>3 DEF DocsPhase
  <2> QED
    BY <2>1, <2>2, <2>4 DEF CleanPhase, GoesOn, SameWrites
<1>3. CASE /\ k.pending = {} /\ k.out = "waiting"
           /\ ~ (k.op # "absorb" \/ ("mark" \in k.held /\ (AbsorbNeedsPut(k) => "put" \in k.held)))
  <2>1. AfterWrite(k) = Unwind(k, "revert", "rejected")
    BY <1>3 DEF AfterWrite
  <2> QED
    BY <2>1, UnwindDocs DEF Rollbacks
<1> QED
  BY <1>1, <1>2, <1>3

LEMMA AfterDropDocs ==
    ASSUME NEW k \in Call, k.op \in Rollbacks, k.pending \subseteq Drops
    PROVE  LET j == AfterDrop(k)
           IN  /\ DocsPhase(j) /\ CleanPhase(j)
               /\ j.op = k.op /\ j.pending = k.pending /\ SameWrites(j, k)
<1> DEFINE j == AfterDrop(k)
<1>1. j.op = k.op /\ j.pending = k.pending /\ SameWrites(j, k)
  BY DEF AfterDrop, SameWrites, Call
<1>2. j.pending \cap Gets = {}
  BY <1>1, PutIsNoGet
<1> HIDE DEF j
<1> QED
  BY <1>1, <1>2 DEF DocsPhase, CleanPhase, Rollbacks, j

\* A rollback sends a drop for every write.
LEMMA LeftGoesOn ==
    ASSUME NEW j, NEW k, GoesOn(j, k), k.op \notin Rollbacks, NEW c, Left(k, c)
    PROVE  Left(j, c)
BY DEF Left, GoesOn, SameWrites, DropsFor

-----------------------------------------------------------------------------
(* Steps of the store. *)

\* A step of r leaves the versions of all others alone.
OnlyOwnVersions(r) ==
    \A c \in Codes : \A v : v.id # r => (v \in bucket'[c] <=> v \in bucket[c])

LEMMA UnchangedOwn == ASSUME NEW r, UNCHANGED <<bucket, clock>> PROVE OnlyOwnVersions(r)
BY DEF OnlyOwnVersions

LEMMA AddVersionOwn ==
    ASSUME StoreTypeOK, NEW r \in Requests, NEW code \in Codes, NEW body, AddVersion(r, code, body)
    PROVE  /\ OnlyOwnVersions(r)
           /\ HasBody(bucket'[code], r, body)
           /\ \A c \in Codes \ {code} : bucket'[c] = bucket[c]
<1> DEFINE new == Version(r, clock[code] + 1, body)
<1>1. new.id = r /\ new.body = body
  BY DEF Version
<1> HIDE DEF new
<1>2. bucket' = [bucket EXCEPT ![code] = @ \union {new}] /\ bucket \in [Codes -> SUBSET VersionSet(Ids)]
  BY DEF AddVersion, new, StoreTypeOK
<1>3. bucket'[code] = bucket[code] \union {new} /\ \A c \in Codes \ {code} : bucket'[c] = bucket[c]
  BY <1>2
<1> QED
  BY <1>1, <1>3 DEF OnlyOwnVersions, HasBody

LEMMA EraseVersionOwn ==
    ASSUME StoreTypeOK, NEW r \in Requests, NEW code \in Codes, EraseVersion(r, code)
    PROVE  /\ OnlyOwnVersions(r)
           /\ ~ HasVersion(bucket'[code], r)
           /\ \A c \in Codes \ {code} : bucket'[c] = bucket[c]
<1>1. bucket' = [bucket EXCEPT ![code] = DropVersion(@, r)] /\ bucket \in [Codes -> SUBSET VersionSet(Ids)]
  BY DEF EraseVersion, StoreTypeOK
<1>2. bucket'[code] = DropVersion(bucket[code], r) /\ \A c \in Codes \ {code} : bucket'[c] = bucket[c]
  BY <1>1
<1> QED
  BY <1>2 DEF OnlyOwnVersions, HasVersion, DropVersion

\* All there is to show of a step of r is what becomes of its own call.
LEMMA DocsStep ==
    ASSUME StoreTypeOK, StoreDocs, NEW r \in Requests, NEW k, call' = [call EXCEPT ![r] = k],
           OnlyOwnVersions(r), DocsPhase(k),
           k.op \notin Rollbacks /\ "put" \in k.held => HasBody(bucket'[k.into], r, k.body),
           CleanFaults => CleanPhase(k) /\ \A c \in Codes : HasVersion(bucket'[c], r) => Left(k, c)
    PROVE  StoreDocs'
<1>1. call \in [Requests -> Call]
  BY DEF StoreTypeOK
<1>2. call'[r] = k
  BY <1>1
<1>3. CleanFaults' <=> CleanFaults
  BY DEF CleanFaults
<1>4. ASSUME NEW q \in Requests, q # r
      PROVE  /\ DocsPhase(call[q])' /\ DocsStand(q)'
             /\ CleanFaults => CleanPhase(call[q])' /\ Accounted(q)'
  <2>1. call'[q] = call[q] /\ call[q].into \in Codes
    BY <1>1, <1>4 DEF Call
  <2>2. DocsPhase(call[q]) /\ DocsStand(q) /\ (CleanFaults => CleanPhase(call[q]) /\ Accounted(q))
    BY DEF StoreDocs
  <2>3. \A c \in Codes : \A v : v.id = q => (v \in bucket'[c] <=> v \in bucket[c])
    BY <1>4 DEF OnlyOwnVersions
  <2>4. DocsStand(q)'
    BY <2>1, <2>2, <2>3 DEF DocsStand, HasBody
  <2>5. CleanFaults => Accounted(q)'
    BY <2>1, <2>2, <2>3 DEF Accounted, HasVersion
  <2> QED
    BY <2>1, <2>2, <2>4, <2>5
<1>5. DocsPhase(call[r])' /\ DocsStand(r)' /\ (CleanFaults => CleanPhase(call[r])' /\ Accounted(r)')
  BY <1>2 DEF DocsStand, Accounted
<1> QED
  BY <1>3, <1>4, <1>5 DEF StoreDocs

LEMMA GetsDocs ==
    ASSUME StoreTypeOK, StoreInv, StoreDocs, NEW r \in Requests, NEW step \in Gets,
           step \in call[r].pending, NEW seen \in [into : Bodies, from : Bodies],
           call' = [call EXCEPT ![r] = AfterGet([Answered(r, step) EXCEPT !.seen = seen])],
           UNCHANGED <<bucket, clock>>
    PROVE  StoreDocs'
<1> DEFINE k == call[r]
           i == [Answered(r, step) EXCEPT !.seen = seen]
           j == AfterGet(i)
<1>1. k \in Call /\ DocsPhase(k) /\ CallPhase(k)
  BY DEF StoreTypeOK, StoreDocs, StoreInv
<1>2. /\ k.pending \subseteq Gets /\ k.held = {} /\ k.op \in {"patch", "absorb"} /\ k.out = "waiting"
  BY <1>1 DEF DocsPhase
<1>3. /\ i \in Call /\ i.pending = k.pending \ {step}
      /\ i.held = {} /\ i.op = k.op /\ i.out = "waiting"
  BY <1>1, <1>2 DEF Answered, Call
<1> HIDE DEF i
<1>4. DocsPhase(j) /\ j.held = {} /\ j.out # "rejected"
  BY <1>2, <1>3, AfterGetDocs
<1>5. call' = [call EXCEPT ![r] = j]
  BY DEF i
<1>6. ASSUME CleanFaults, NEW c \in Codes PROVE ~ HasVersion(bucket'[c], r)
  <2>1. Accounted(r)
    BY <1>6 DEF StoreDocs
  <2> QED
    BY <1>2, <2>1 DEF Accounted, Left, Rollbacks
<1> HIDE DEF j
<1> QED
  BY <1>4, <1>5, <1>6, UnchangedOwn, DocsStep DEF CleanPhase

\* A write that lands, with the version it adds.
LEMMA LandsDocs ==
    ASSUME StoreTypeOK, StoreInv, StoreDocs, NEW r \in Requests, NEW step \in Writes,
           step \in call[r].pending, NEW code \in Codes, NEW body,
           IF step = "put" THEN code = call[r].into /\ body = call[r].body ELSE code = call[r].from,
           AddVersion(r, code, body),
           call' = [call EXCEPT ![r] = AfterWrite([Answered(r, step) EXCEPT !.held = @ \union {step}])]
    PROVE  StoreDocs'
<1> DEFINE k == call[r]
           i == [Answered(r, step) EXCEPT !.held = @ \union {step}]
           j == AfterWrite(i)
<1>1. k \in Call /\ DocsPhase(k) /\ CallPhase(k) /\ DocsStand(r)
  BY DEF StoreTypeOK, StoreDocs, StoreInv
<1>2. step \notin Gets /\ step \notin Drops
  BY PutIsNoGet DEF Writes
<1>3. k.op \notin Rollbacks
  BY <1>1, <1>2 DEF CallPhase
<1>4. /\ i \in Call /\ i.pending = k.pending \ {step} /\ i.held = k.held \union {step}
      /\ i.op = k.op /\ i.body = k.body /\ i.into = k.into /\ i.from = k.from
      /\ i.out = k.out /\ i.seen = k.seen
  BY <1>1 DEF Answered, Call
<1> HIDE DEF i
<1>5. k.pending \cap Gets = {}
  BY <1>1, <1>2 DEF DocsPhase
<1>6. k.op # "none" /\ k.out # "fulfilled"
  BY <1>1 DEF CallPhase, StoreTypeOK
<1>7. k.op = "post" => step = "put"
  BY <1>1 DEF DocsPhase
<1>8. DocsPhase(i)
  <2>1. AbsorbNeedsPut(i) <=> AbsorbNeedsPut(k)
    BY <1>4 DEF AbsorbNeedsPut
  <2>2. "put" \in i.pending \union i.held => "put" \in k.pending \union k.held
    BY <1>4
  <2> QED
    BY <1>1, <1>4, <1>5, <1>6, <1>7, <2>1, <2>2 DEF DocsPhase
<1>9. DocsPhase(j) /\ (CleanPhase(i) => CleanPhase(j)) /\ GoesOn(j, i)
  BY <1>3, <1>4, <1>7, <1>8, AfterWriteDocs
<1>10. call' = [call EXCEPT ![r] = j]
  BY DEF i
<1> HIDE DEF j
<1>11. /\ OnlyOwnVersions(r) /\ HasBody(bucket'[code], r, body)
       /\ \A c \in Codes \ {code} : bucket'[c] = bucket[c]
       /\ Grows
  BY AddVersionOwn, AddVersionGrows
<1>12. j.op \notin Rollbacks /\ "put" \in j.held => HasBody(bucket'[j.into], r, j.body)
  <2>1. SUFFICES ASSUME j.op \notin Rollbacks, "put" \in j.held PROVE HasBody(bucket'[k.into], r, k.body)
    BY <1>4, <1>9 DEF GoesOn, SameWrites
  <2>2. CASE step = "put"
    BY <1>11, <2>2
  <2>3. CASE step # "put"
    <3>1. "put" \in k.held
      BY <1>4, <1>9, <2>1, <2>3 DEF GoesOn, SameWrites
    <3>2. HasBody(bucket[k.into], r, k.body)
      BY <1>1, <1>3, <3>1 DEF DocsStand
    <3>3. k.into \in Codes
      BY <1>1 DEF Call
    <3> QED
      BY <1>11, <3>2, <3>3 DEF HasBody, Grows
  <2> QED
    BY <2>2, <2>3
<1>13. ASSUME CleanFaults PROVE CleanPhase(i)
  <2>1. CleanPhase(k)
    BY <1>13 DEF StoreDocs
  <2> QED
    BY <1>3, <1>4, <2>1 DEF CleanPhase
<1>14. ASSUME CleanFaults, NEW c \in Codes, HasVersion(bucket'[c], r) PROVE Left(j, c)
  <2>1. c = code \/ HasVersion(bucket[c], r)
    BY <1>11, <1>14
  <2>2. c = code \/ Left(k, c)
    BY <1>14, <2>1 DEF StoreDocs, Accounted
  <2>3. Left(i, c)
    BY <1>3, <1>4, <2>2 DEF Left, Writes
  <2> QED
    BY <1>3, <1>4, <1>9, <2>3, LeftGoesOn
<1> QED
  BY <1>9, <1>10, <1>11, <1>12, <1>13, <1>14, DocsStep

\* A write that S3 refuses, or seems to refuse.
LEMMA WriteFailsDocs ==
    ASSUME StoreTypeOK, StoreInv, StoreDocs, NEW r \in Requests, PutFails(r) \/ MarkFails(r)
    PROVE  StoreDocs'
<1> DEFINE k == call[r]
<1>1. /\ k \in Call /\ DocsPhase(k) /\ CallPhase(k) /\ DocsStand(r)
      /\ k.into \in Codes /\ k.from \in Codes
  BY DEF StoreTypeOK, StoreDocs, StoreInv, Call
<1>2. OnlyOwnVersions(r) /\ Grows
  <2>1. \E c \in Codes : \E body : NotDone \/ Lost(AddVersion(r, c, body))
    BY <1>1 DEF PutFails, MarkFails
  <2> QED
    BY <2>1, UnchangedOwn, AddVersionOwn, LostGrows DEF NotDone, Lost
<1>3. PICK step \in Writes :
          /\ step \in k.pending
          /\ step = "put" => "put" \in Faults
          /\ step = "mark" => ~ CleanFaults
          /\ CleanFaults => UNCHANGED <<bucket, clock>>
          /\ \/ step = "put" /\ call' = [call EXCEPT ![r] = AfterWrite(Answered(r, step))]
             \/ /\ step = "mark"
                /\ call' = [call EXCEPT ![r] = [Answered(r, step) EXCEPT !.out = "rejected"]]
  BY DEF PutFails, MarkFails, Writes, CleanFaults, NotDone, Lost
<1> DEFINE i == Answered(r, step)
<1>4. step \notin Gets /\ step \notin Drops
  BY PutIsNoGet DEF Writes
<1>5. k.op \notin Rollbacks /\ k.op # "none" /\ k.out # "fulfilled" /\ k.pending \cap Gets = {}
  BY <1>1, <1>3, <1>4 DEF CallPhase, DocsPhase, StoreTypeOK
<1>6. /\ i \in Call /\ i.pending = k.pending \ {step} /\ i.held = k.held
      /\ i.op = k.op /\ i.body = k.body /\ i.into = k.into /\ i.from = k.from
      /\ i.out = k.out /\ i.seen = k.seen
  BY <1>1 DEF Answered, Call
<1>7. step = "put" => call' = [call EXCEPT ![r] = AfterWrite(i)]
  BY <1>3
<1>8. step = "mark" => call' = [call EXCEPT ![r] = [i EXCEPT !.out = "rejected"]]
  BY <1>3
<1> HIDE DEF i
<1>9. HasBody(bucket'[k.into], r, k.body) \/ "put" \notin k.held
  BY <1>1, <1>2, <1>5 DEF DocsStand, HasBody, Grows
<1>10. AbsorbNeedsPut(i) <=> AbsorbNeedsPut(k)
  BY <1>6 DEF AbsorbNeedsPut
<1>11. CASE step = "put"
  <2> DEFINE j == AfterWrite(i)
  <2>1. DocsPhase(i)
    BY <1>1, <1>3, <1>5, <1>6, <1>10, <1>11 DEF DocsPhase
  <2>2. DocsPhase(j) /\ (CleanPhase(i) => CleanPhase(j)) /\ GoesOn(j, i)
    BY <1>3, <1>5, <1>6, <1>11, <2>1, AfterWriteDocs
  <2>3. call' = [call EXCEPT ![r] = j]
    BY <1>7, <1>11
  <2> HIDE DEF j
  <2>4. j.op \notin Rollbacks /\ "put" \in j.held => HasBody(bucket'[j.into], r, j.body)
    BY <1>6, <1>9, <2>2 DEF GoesOn, SameWrites
  <2>5. ASSUME CleanFaults PROVE CleanPhase(i)
    <3>1. CleanPhase(k)
      BY <2>5 DEF StoreDocs
    <3> QED
      BY <1>3, <1>6, <3>1 DEF CleanPhase
  <2>6. ASSUME CleanFaults, NEW c \in Codes, HasVersion(bucket'[c], r) PROVE Left(j, c)
    <3>1. Left(k, c)
      BY <1>3, <2>6 DEF StoreDocs, Accounted
    <3>2. Left(i, c)
      BY <1>5, <1>6, <3>1 DEF Left
    <3> QED
      BY <1>5, <1>6, <2>2, <3>2, LeftGoesOn
  <2> QED
    BY <1>2, <2>2, <2>3, <2>4, <2>5, <2>6, DocsStep
<1>12. CASE step = "mark"
  <2> DEFINE j == [i EXCEPT !.out = "rejected"]
  <2>1. call' = [call EXCEPT ![r] = j]
    BY <1>8, <1>12
  <2>2. /\ j.pending = k.pending \ {"mark"} /\ j.held = k.held /\ j.op = k.op /\ j.into = k.into
        /\ j.body = k.body /\ j.seen = k.seen /\ j.out = "rejected"
    BY <1>6, <1>12 DEF Call
  <2> HIDE DEF j
  <2>3. DocsPhase(j)
    BY <1>1, <1>3, <1>5, <1>12, <2>2 DEF DocsPhase
  <2> QED
    BY <1>2, <1>3, <1>9, <1>12, <2>1, <2>2, <2>3, DocsStep
<1> QED
  BY <1>3, <1>11, <1>12 DEF Writes

\* An undo or a rollback deletes one of its versions, or fails to.
LEMMA DropsDocs ==
    ASSUME StoreTypeOK, StoreInv, StoreDocs, NEW r \in Requests, NEW drop \in Drops,
           DropLands(r, drop) \/ DropFails(r, drop)
    PROVE  StoreDocs'
<1> DEFINE k == call[r]
           i == Answered(r, drop)
           key == DroppedKey(r, drop)
<1>1. /\ k \in Call /\ CallPhase(k) /\ k.into \in Codes /\ k.from \in Codes
      /\ drop \in k.pending /\ k.op \in Rollbacks
  BY DEF StoreTypeOK, StoreInv, Call, CallPhase, DropLands, DropFails
<1>2. key \in Codes
  BY <1>1 DEF DroppedKey
<1>3. i \in Call /\ i.pending = k.pending \ {drop} /\ i.op = k.op /\ i.into = k.into /\ i.from = k.from
  BY <1>1 DEF Answered, Call
<1>4. k.pending \subseteq Drops
  BY <1>1 DEF CallPhase
<1>5. CASE DropLands(r, drop)
  <2> DEFINE j == AfterDrop(i)
  <2>1. call' = [call EXCEPT ![r] = j] /\ EraseVersion(r, key)
    BY <1>5 DEF DropLands
  <2> HIDE DEF i, key
  <2>2. DocsPhase(j) /\ CleanPhase(j) /\ j.op = i.op /\ j.pending = i.pending /\ SameWrites(j, i)
    BY <1>1, <1>3, <1>4, AfterDropDocs
  <2> HIDE DEF j
  <2>3. /\ OnlyOwnVersions(r) /\ ~ HasVersion(bucket'[key], r)
        /\ \A c \in Codes \ {key} : bucket'[c] = bucket[c]
    BY <1>2, <2>1, EraseVersionOwn
  <2>4. ASSUME CleanFaults, NEW c \in Codes, HasVersion(bucket'[c], r) PROVE Left(j, c)
    <3>1. c # key /\ HasVersion(bucket[c], r)
      BY <2>3, <2>4
    <3>2. Left(k, c)
      BY <2>4, <3>1 DEF StoreDocs, Accounted
    <3> QED
      BY <1>1, <1>3, <2>2, <3>1, <3>2 DEF Left, SameWrites, key, DroppedKey, Drops
  <2> QED
    BY <1>1, <1>3, <2>1, <2>2, <2>3, <2>4, DocsStep
<1>6. CASE DropFails(r, drop)
  <2> DEFINE j == [i EXCEPT !.out = "rejected"]
  <2>1. call' = [call EXCEPT ![r] = j] /\ (NotDone \/ EraseVersion(r, key)) /\ ~ CleanFaults
    BY <1>6 DEF DropFails, Lost, CleanFaults
  <2>2. j.pending = k.pending \ {drop} /\ j.op = k.op
    BY <1>3 DEF Call
  <2> HIDE DEF i, j, key
  <2>3. DocsPhase(j)
    BY <1>1, <1>4, <2>2, PutIsNoGet DEF DocsPhase, Rollbacks
  <2>4. OnlyOwnVersions(r)
    BY <1>2, <2>1, UnchangedOwn, EraseVersionOwn DEF NotDone
  <2> QED
    BY <1>1, <2>1, <2>2, <2>3, <2>4, DocsStep
<1> QED
  BY <1>5, <1>6

LEMMA StoreAnswersDocs ==
    ASSUME StoreTypeOK, StoreInv, StoreDocs, NEW r \in Requests, StoreAnswers(r) PROVE StoreDocs'
<1> DEFINE k == call[r]
<1>1. k \in Call /\ DocsPhase(k) /\ CallPhase(k) /\ k.into \in Codes /\ k.from \in Codes
  BY DEF StoreTypeOK, StoreDocs, StoreInv, Call
<1>2. k.seen \in [into : Bodies, from : Bodies]
  BY <1>1 DEF Call
<1>3. \A c \in Codes : Read(bucket[c]) \in Bodies
  BY ReadType DEF StoreTypeOK
<1>4. CASE GetInto(r)
  <2> DEFINE seen == [k.seen EXCEPT !.into = Read(bucket[k.into])]
  <2>1. seen \in [into : Bodies, from : Bodies]
    BY <1>1, <1>2, <1>3
  <2>2. call' = [call EXCEPT ![r] = AfterGet([Answered(r, "getInto") EXCEPT !.seen = seen])]
    BY <1>1, <1>4 DEF GetInto, Answered, Call
  <2> HIDE DEF seen
  <2> QED
    BY <1>4, <2>1, <2>2, GetsDocs DEF GetInto, Gets
<1>5. CASE GetFrom(r)
  <2> DEFINE seen == [k.seen EXCEPT !.from = Read(bucket[k.from])]
  <2>1. seen \in [into : Bodies, from : Bodies]
    BY <1>1, <1>2, <1>3
  <2>2. call' = [call EXCEPT ![r] = AfterGet([Answered(r, "getFrom") EXCEPT !.seen = seen])]
    BY <1>1, <1>5 DEF GetFrom, Answered, Call
  <2> HIDE DEF seen
  <2> QED
    BY <1>5, <2>1, <2>2, GetsDocs DEF GetFrom, Gets
<1>6. CASE GetFails(r)
  <2> DEFINE j == [k EXCEPT !.pending = {}, !.out = "rejected"]
  <2>1. call' = [call EXCEPT ![r] = j] /\ UNCHANGED <<bucket, clock>>
    BY <1>6 DEF GetFails, StoreTypeOK
  <2>2. k.held = {} /\ k.op \in {"patch", "absorb"}
    BY <1>1, <1>6 DEF GetFails, DocsPhase
  <2>3. j.pending = {} /\ j.held = {} /\ j.op = k.op /\ j.out = "rejected"
    BY <1>1, <2>2 DEF Call
  <2> HIDE DEF j
  <2>4. DocsPhase(j) /\ CleanPhase(j)
    BY <2>2, <2>3 DEF DocsPhase, CleanPhase
  <2>5. ASSUME CleanFaults, NEW c \in Codes PROVE ~ HasVersion(bucket'[c], r)
    BY <2>1, <2>2, <2>5 DEF StoreDocs, Accounted, Left, Rollbacks
  <2> QED
    BY <2>1, <2>3, <2>4, <2>5, UnchangedOwn, DocsStep
<1>7. CASE PutLands(r)
  BY <1>1, <1>7, LandsDocs DEF PutLands, Writes
<1>8. CASE MarkLands(r)
  BY <1>1, <1>8, LandsDocs DEF MarkLands, Writes
<1> QED
  BY <1>4, <1>5, <1>6, <1>7, <1>8, WriteFailsDocs, DropsDocs DEF StoreAnswers

LEMMA StoreUnchangedDocs == ASSUME StoreDocs, UNCHANGED storeVars PROVE StoreDocs'
BY DEF StoreDocs, DocsStand, Accounted, CleanFaults, storeVars

LEMMA BeginsDocs ==
    ASSUME StoreTypeOK, StoreDocs, NEW r \in Requests, call[r].op = "none", NEW c, NEW d, NEW body,
           \/ Post(r, c, body)
           \/ Patch(r, c, body)
           \/ Delete(r, c)
           \/ Absorb(r, c, d)
    PROVE  StoreDocs'
<1>1. PICK k : /\ Start(r, k) /\ k.held = {} /\ k.out = "waiting" /\ k.op \notin Rollbacks \union {"none"}
               /\ k.pending \cap Gets # {} => k.pending \subseteq Gets /\ k.op \in {"patch", "absorb"}
               /\ k.op = "post" => k.pending = {"put"}
               /\ k.op = "absorb" => k.pending = Gets
  <2>1. CASE Post(r, c, body)
    BY <2>1, PutIsNoGet DEF Post, NewCall, Rollbacks
  <2>2. CASE Patch(r, c, body)
    BY <2>2 DEF Patch, NewCall, Rollbacks, Gets
  <2>3. CASE Delete(r, c)
    BY <2>3, PutIsNoGet DEF Delete, NewCall, Rollbacks
  <2>4. CASE Absorb(r, c, d)
    BY <2>4 DEF Absorb, NewCall, Rollbacks
  <2> QED
    BY <2>1, <2>2, <2>3, <2>4
<1>2. DocsPhase(k) /\ CleanPhase(k)
  BY <1>1, PutIsNoGet DEF DocsPhase, CleanPhase
<1>3. ASSUME CleanFaults, NEW e \in Codes PROVE ~ HasVersion(bucket[e], r)
  BY <1>3 DEF StoreDocs, DocsPhase, Accounted, Left, Rollbacks
<1>4. OnlyOwnVersions(r) /\ bucket' = bucket /\ call' = [call EXCEPT ![r] = k]
  BY <1>1, UnchangedOwn DEF Start
<1> QED
  BY <1>1, <1>2, <1>3, <1>4, DocsStep

LEMMA UndoDocs ==
    ASSUME StoreTypeOK, StoreDocs, NEW r \in Requests, call[r].op \notin Rollbacks, Undo(r)
    PROVE  StoreDocs'
<1> DEFINE k == call[r]
           j == Unwind(k, "undo", "fulfilled")
<1>1. call' = [call EXCEPT ![r] = j] /\ UNCHANGED <<bucket, clock>> /\ k \in Call
  BY DEF Undo, Start, StoreTypeOK
<1>2. DocsPhase(j) /\ CleanPhase(j) /\ GoesOn(j, k) /\ j.op = "undo"
  BY <1>1, UnwindDocs DEF Unwind, Call, Rollbacks
<1> HIDE DEF j
<1>3. ASSUME CleanFaults, NEW c \in Codes, HasVersion(bucket'[c], r) PROVE Left(j, c)
  BY <1>1, <1>2, <1>3, LeftGoesOn DEF StoreDocs, Accounted
<1> QED
  BY <1>1, <1>2, <1>3, UnchangedOwn, DocsStep DEF Rollbacks

LEMMA CrashDocs ==
    ASSUME StoreTypeOK, StoreDocs, NEW r \in Requests, Crash(r) PROVE StoreDocs'
<1> DEFINE k == call[r]
           j == [k EXCEPT !.pending = {}, !.out = IF @ = "waiting" THEN "rejected" ELSE @]
<1>1. /\ call' = [call EXCEPT ![r] = j] /\ UNCHANGED <<bucket, clock>>
      /\ k \in Call /\ DocsPhase(k) /\ DocsStand(r)
      /\ ~ CleanFaults
  BY DEF Crash, Start, StoreTypeOK, StoreDocs, CleanFaults
<1>2. /\ j.pending = {} /\ j.out = (IF k.out = "waiting" THEN "rejected" ELSE k.out)
      /\ j.op = k.op /\ j.held = k.held /\ j.into = k.into /\ j.body = k.body /\ j.seen = k.seen
  BY <1>1 DEF Call
<1> HIDE DEF j
<1>3. AbsorbNeedsPut(j) <=> AbsorbNeedsPut(k)
  BY <1>2 DEF AbsorbNeedsPut
<1>4. DocsPhase(j)
  BY <1>1, <1>2, <1>3 DEF DocsPhase
<1> QED
  BY <1>1, <1>2, <1>4, UnchangedOwn, DocsStep DEF DocsStand

-----------------------------------------------------------------------------
(* Steps of the handlers. *)

LEMMA RequestDocsStep ==
    ASSUME RequestDocs, NEW r \in Requests, OthersStay(r), RequestPhase(r)' PROVE RequestDocs'
BY DEF RequestDocs, RequestPhase, CreatePhase, OthersStay, Acknowledged, Creates

LEMMA ConcludeKeeps ==
    ASSUME NEW k, RequestOK(k), NEW pc, NEW status
    PROVE  LET j == Conclude(k, pc, status)
           IN  j.method = k.method /\ j.code = k.code /\ j.docs = k.docs /\ j.flags = k.flags
BY DEF Conclude, RequestOK, Request

LEMMA RefuseDocs ==
    ASSUME DocsInv, NEW r \in Requests, NEW status \in Failures, Answer(r, status),
           UNCHANGED storeVars, call[r].op \in {"none", "undo"} \/ call[r].out = "rejected"
    PROVE  StoreDocs' /\ RequestDocs'
<1> USE TypeSplit DEF DocsInv
<1> DEFINE j == Conclude(req[r], "end", status)
<1>1. RequestOK(req[r]) /\ status \in Success \union Failures /\ "end" \in Pcs
  BY DEF RequestsOK, Pcs
<1>2. j.pc = "end" /\ j.status = status /\ j.method = req[r].method /\ j.flags = req[r].flags
  BY <1>1, ConcludeType, ConcludeKeeps
<1>3. OthersStay(r) /\ req'[r] = j /\ call' = call
  BY BecomeAlone DEF Answer, storeVars
<1> HIDE DEF j
<1>4. RequestPhase(r)'
  BY <1>2, <1>3, FailureNotSuccess DEF RequestDocs, RequestPhase, CreatePhase, Creates, Acknowledged
<1> QED
  BY <1>3, <1>4, RequestDocsStep, StoreUnchangedDocs

LEMMA SucceedDocs ==
    ASSUME DocsInv, NEW r \in Requests, NEW status \in Success, DocsWritten(r),
           Answer(r, status), UNCHANGED storeVars
    PROVE  StoreDocs' /\ RequestDocs'
<1> USE TypeSplit DEF DocsInv
<1> DEFINE j == Conclude(req[r], "end", status)
<1>1. RequestOK(req[r]) /\ status \in Success \union Failures /\ "end" \in Pcs
  BY DEF RequestsOK, Pcs
<1>2. /\ j.pc = "end" /\ j.status = status /\ j.method = req[r].method /\ j.flags = req[r].flags
      /\ j.code = req[r].code /\ j.docs = req[r].docs
  BY <1>1, ConcludeType, ConcludeKeeps
<1>3. OthersStay(r) /\ req'[r] = j /\ call' = call
  BY BecomeAlone DEF Answer, storeVars
<1> HIDE DEF j
<1>4. RequestPhase(r) /\ CallPhase(call[r]) /\ req[r].pc = "docs" /\ call[r].out \in {"none", "fulfilled"}
  BY DEF RequestDocs, StoreInv, DocsWritten
<1>5. CreatePhase(r)'
  BY <1>2, <1>3, <1>4 DEF RequestPhase, CreatePhase, CallPhase, Creates, Acknowledged
<1>6. RequestPhase(r)'
  BY <1>2, <1>3, <1>4, <1>5 DEF RequestPhase, Creates
<1> QED
  BY <1>3, <1>6, RequestDocsStep, StoreUnchangedDocs

\* The catch blocks; only an absorb answers 200 all the same.
LEMMA FailWithDocs ==
    ASSUME DocsInv, NEW r \in Requests, NEW k, RequestOK(k), k.method = req[r].method,
           "create" \in k.flags => Creates(r), DocsWritten(r),
           NEW status \in Failures \union Success,
           status \in Success => k.method = "ABSORB",
           FailWith(r, k, status)
    PROVE  StoreDocs' /\ RequestDocs'
<1> USE TypeSplit DEF DocsInv
<1> DEFINE pc == IF k.method = "ABSORB" \/ call[r].op = "none" THEN "end" ELSE "undo"
           j == Conclude(k, pc, status)
<1>1. pc \in Pcs /\ pc \in {"undo", "end"}
  BY DEF Pcs
<1>2. j.pc = pc /\ j.status = status /\ j.method = k.method /\ j.flags = k.flags
  BY <1>1, ConcludeType, ConcludeKeeps
<1>3. Become(r, j)
  BY DEF FailWith
<1>4. UNCHANGED call \/ \E i : Start(r, i)
  BY DEF FailWith, storeVars, Undo
<1>5. OthersStay(r) /\ req'[r] = j /\ \A i : Start(r, i) => call'[r] = i
  BY <1>3, <1>4, BecomeAlone
<1>6. RequestPhase(r) /\ CallPhase(call[r]) /\ call[r].out \in {"none", "fulfilled"} /\ req[r].pc = "docs"
  BY DEF RequestDocs, StoreInv, DocsWritten
<1>7. call[r].op \notin Rollbacks
  BY <1>6 DEF RequestPhase, CallPhase, Rollbacks
<1>8. IF call[r].op = "none" THEN call' = call ELSE call'[r].op = "undo"
  <2>1. Unwind(call[r], "undo", "fulfilled").op = "undo"
    BY DEF Unwind, TypeOK, StoreTypeOK, Call
  <2> QED
    BY <1>5, <2>1 DEF FailWith, Undo, storeVars
<1>9. StoreDocs'
  BY <1>7, UndoDocs, StoreUnchangedDocs DEF FailWith
<1> HIDE DEF j
<1>10. req'[r].pc = "undo" => call'[r].op = "undo" /\ req'[r].status \notin Success
  BY <1>2, <1>5, <1>8
<1>11. CreatePhase(r)'
  BY <1>1, <1>2, <1>5, <1>6 DEF RequestPhase, CreatePhase, Creates, Acknowledged
<1>12. RequestPhase(r)'
  BY <1>1, <1>2, <1>5, <1>6, <1>8, <1>10, <1>11 DEF RequestPhase, Creates
<1> QED
  BY <1>5, <1>9, <1>12, RequestDocsStep

\* The first call of the store, if the handler needs one.
LEMMA BeginDocs ==
    ASSUME DocsInv, NEW r \in Requests, NEW k, RequestOK(k), k.pc = "docs", Become(r, k),
           call[r].op = "none",
           "create" \in k.flags => k.method \in {"POST", "PATCH"},
           \/ UNCHANGED storeVars
           \/ \E c, d, b : Post(r, c, b) \/ Patch(r, c, b) \/ Delete(r, c) \/ Absorb(r, c, d),
           "create" \in k.flags /\ k.docs # EmptyBody => Post(r, k.code, k.docs)
    PROVE  StoreDocs' /\ RequestDocs'
<1> USE TypeSplit DEF DocsInv
<1>1. StoreDocs'
  BY BeginsDocs, StoreUnchangedDocs
<1>2. UNCHANGED call \/ \E j : Start(r, j)
  BY DEF storeVars, Post, Patch, Delete, Absorb
<1>3. OthersStay(r) /\ req'[r] = k /\ \A j : Start(r, j) => call'[r] = j
  BY <1>2, BecomeAlone
<1>4. call'[r].op # "undo"
  <2>1. ASSUME NEW op, op # "undo", NEW into, NEW from, NEW body, NEW pending
        PROVE  NewCall(op, into, from, body, pending).op # "undo"
    BY <2>1 DEF NewCall
  <2>2. ASSUME NEW c, NEW d, NEW b, Post(r, c, b) \/ Patch(r, c, b) \/ Delete(r, c) \/ Absorb(r, c, d)
        PROVE  call'[r].op # "undo"
    <3>1. CASE Post(r, c, b)
      BY <1>3, <2>1, <3>1 DEF Post
    <3>2. CASE Patch(r, c, b)
      BY <1>3, <2>1, <3>2 DEF Patch
    <3>3. CASE Delete(r, c)
      BY <1>3, <2>1, <3>3 DEF Delete
    <3>4. CASE Absorb(r, c, d)
      BY <1>3, <2>1, <3>4 DEF Absorb
    <3> QED
      BY <2>2, <3>1, <3>2, <3>3, <3>4
  <2> QED
    BY <2>2 DEF storeVars
<1>5. ASSUME "create" \in k.flags, k.docs # EmptyBody
      PROVE  call'[r].op = "post" /\ call'[r].into = k.code /\ call'[r].body = k.docs
  <2>1. call'[r] = NewCall("post", k.code, k.code, k.docs, {"put"})
    BY <1>3, <1>5 DEF Post
  <2> QED
    BY <2>1 DEF NewCall
<1>6. RequestPhase(r)'
  BY <1>3, <1>4, <1>5 DEF RequestPhase, CreatePhase, Creates, Acknowledged
<1> QED
  BY <1>1, <1>3, <1>6, RequestDocsStep

LEMMA BeginCreateDocs ==
    ASSUME DocsInv, NEW r \in Requests, NEW k, RequestOK(k), call[r].op = "none",
           "create" \notin k.flags, k.method \in {"POST", "PATCH"}, BeginCreate(r, k)
    PROVE  StoreDocs' /\ RequestDocs'
<1>1. CASE r \notin MayCreate
  <2> DEFINE j == Conclude(k, "end", 400)
  <2>0. 400 \in Failures /\ 400 \in Success \union Failures /\ "end" \in Pcs
    BY DEF Failures, Pcs
  <2>1. j.pc = "end" /\ j.status = 400 /\ j.flags = k.flags
    BY <2>0, ConcludeType, ConcludeKeeps
  <2>2. OthersStay(r) /\ req'[r] = j /\ UNCHANGED storeVars /\ call' = call
    BY <1>1, BecomeAlone DEF BeginCreate, storeVars, DocsInv
  <2> HIDE DEF j
  <2>3. RequestPhase(r)'
    BY <2>0, <2>1, <2>2, FailureNotSuccess DEF RequestPhase, CreatePhase, Creates, Acknowledged
  <2> QED
    BY <2>2, <2>3, RequestDocsStep, StoreUnchangedDocs DEF DocsInv
<1>2. CASE r \in MayCreate
  <2> DEFINE i == [k EXCEPT !.pc = "docs"]
             j == [i EXCEPT !.flags = @ \union {"create"}]
  <2>1. /\ i \in Request /\ i.pc = "docs" /\ i.flags \in SUBSET {"edits", "create", "late"}
        /\ i.method = k.method /\ i.code = k.code /\ i.docs = k.docs
    BY PcField DEF RequestOK, Pcs, Request
  <2>2. j = [k EXCEPT !.pc = "docs", !.flags = @ \union {"create"}]
    OBVIOUS
  <2> HIDE DEF i
  <2>3. RequestOK(j) /\ j.pc = "docs"
    BY <2>1, FlagsField DEF RequestOK
  <2>4. j.method = k.method /\ j.code = k.code /\ j.docs = k.docs
    BY <2>1 DEF Request
  <2>5. Become(r, j) /\ IF j.docs = EmptyBody THEN UNCHANGED storeVars ELSE Post(r, j.code, j.docs)
    BY <1>2, <2>2, <2>4 DEF BeginCreate
  <2> HIDE DEF j
  <2> QED
    BY <2>3, <2>4, <2>5, BeginDocs
<1> QED
  BY <1>1, <1>2

\* A handler that goes on reading, or has just arrived.
LEMMA ReadingDocs ==
    ASSUME DocsInv, NEW r \in Requests, NEW k, Become(r, k), UNCHANGED storeVars,
           k.pc = "preflight", "create" \notin k.flags, call[r].op = "none"
    PROVE  StoreDocs' /\ RequestDocs'
<1> USE DEF DocsInv
<1>1. OthersStay(r) /\ req'[r] = k /\ call' = call
  BY BecomeAlone DEF storeVars
<1>2. RequestPhase(r)'
  BY <1>1 DEF RequestPhase, CreatePhase, Creates, Acknowledged
<1> QED
  BY <1>1, <1>2, RequestDocsStep, StoreUnchangedDocs

LEMMA ArrivesDocs ==
    ASSUME DocsInv, NEW r \in Requests, Arrives(r) PROVE StoreDocs' /\ RequestDocs'
<1> USE TypeSplit
<1>1. call[r].op = "none"
  BY DEF DocsInv, RequestDocs, RequestPhase, Arrives, ArrivePost, ArrivePatch, ArriveDelete, ArriveAbsorb
<1>2. ASSUME NEW method, NEW code, NEW other, NEW docs, NEW flags
      PROVE  LET k == NewRequest(method, code, other, docs, flags)
             IN  k.pc = "preflight" /\ k.flags = flags /\ k.method = method
  BY DEF NewRequest
<1>3. CASE ArrivePost(r)
  <2>1. PICK code \in Codes, docs \in Drafts \union {EmptyBody} :
            BeginCreate(r, NewRequest("POST", code, code, docs, {}))
    BY <1>3 DEF ArrivePost
  <2>2. RequestOK(NewRequest("POST", code, code, docs, {}))
    BY DraftType, NewRequestType DEF Methods
  <2> QED
    BY <1>1, <1>2, <2>1, <2>2, BeginCreateDocs
<1>4. CASE ArrivePatch(r)
  <2>1. PICK code \in Codes, docs \in Drafts \union {EmptyBody}, flags \in SUBSET {"edits"} :
            Become(r, NewRequest("PATCH", code, code, docs, flags)) /\ UNCHANGED storeVars
    BY <1>4 DEF ArrivePatch
  <2> QED
    BY <1>1, <1>2, <2>1, ReadingDocs
<1>5. CASE ArriveDelete(r) \/ ArriveAbsorb(r)
  <2>1. PICK method, code, other : Become(r, NewRequest(method, code, other, EmptyBody, {}))
                                   /\ UNCHANGED storeVars
    BY <1>5 DEF ArriveDelete, ArriveAbsorb
  <2> QED
    BY <1>1, <1>2, <2>1, ReadingDocs
<1> QED
  BY <1>3, <1>4, <1>5 DEF Arrives

LEMMA PreflightDocs ==
    ASSUME DocsInv, NEW r \in Requests,
           PatchPreflight(r) \/ DeletePreflight(r) \/ \E c \in Codes : FetchNode(r, c)
    PROVE  StoreDocs' /\ RequestDocs'
<1> USE TypeSplit
<1>1. /\ RequestOK(req[r]) /\ req[r] \in Request
      /\ req[r].pc = "preflight"
      /\ call[r].op = "none" /\ "create" \notin req[r].flags
  BY DEF DocsInv, RequestsOK, RequestOK, PatchPreflight, DeletePreflight, FetchNode,
         RequestDocs, RequestPhase, Creates
<1>2. ASSUME NEW k, RequestOK(k)
      PROVE  LET j == [k EXCEPT !.pc = "docs"]
             IN  RequestOK(j) /\ j.pc = "docs" /\ j.flags = k.flags
  BY <1>2, PcField DEF RequestOK, Pcs, Request
<1>3. CASE PatchPreflight(r)
  <2>1. CASE req[r].code \notin nodes
    BY <1>1, <1>3, <2>1, BeginCreateDocs DEF PatchPreflight
  <2>2. CASE req[r].code \in nodes
    BY <1>1, <1>2, <1>3, <2>2, BeginDocs DEF PatchPreflight
  <2> QED
    BY <2>1, <2>2
<1>4. CASE DeletePreflight(r)
  <2>1. CASE req[r].code \in nodes \ linked
    BY <1>1, <1>2, <1>4, <2>1, BeginDocs DEF DeletePreflight
  <2>2. CASE req[r].code \notin nodes \ linked
    <3>1. (IF req[r].code \in nodes THEN 409 ELSE 404) \in Failures
      BY DEF Failures
    <3> QED
      BY <1>1, <1>4, <2>2, <3>1, RefuseDocs DEF DeletePreflight
  <2> QED
    BY <2>1, <2>2
<1>5. ASSUME NEW c \in Codes, FetchNode(r, c) PROVE StoreDocs' /\ RequestDocs'
  <2>1. CASE c \notin nodes
    <3>1. 404 \in Failures
      BY DEF Failures
    <3>2. Answer(r, 404) /\ UNCHANGED storeVars
      BY <1>5, <2>1 DEF FetchNode
    <3> QED
      BY <1>1, <3>1, <3>2, RefuseDocs
  <2>2. CASE c \in nodes /\ req[r].fetched = {}
    <3> DEFINE k == [req[r] EXCEPT !.fetched = {c}]
    <3>1. k.pc = "preflight" /\ k.flags = req[r].flags
      BY <1>1 DEF Request
    <3>2. Become(r, k) /\ UNCHANGED storeVars
      BY <1>5, <2>2 DEF FetchNode
    <3> HIDE DEF k
    <3> QED
      BY <1>1, <3>1, <3>2, ReadingDocs
  <2>3. CASE c \in nodes /\ req[r].fetched # {}
    <3> DEFINE i == [req[r] EXCEPT !.fetched = @ \union {c}]
               j == [i EXCEPT !.pc = "docs"]
    <3>1. RequestOK(i) /\ i.flags = req[r].flags
      BY <1>1 DEF RequestOK, Request
    <3>2. j = [req[r] EXCEPT !.fetched = @ \union {c}, !.pc = "docs"]
      OBVIOUS
    <3> HIDE DEF i
    <3>3. RequestOK(j) /\ j.pc = "docs" /\ j.flags = i.flags
      BY <1>2, <3>1
    <3> HIDE DEF j
    <3>4. Become(r, j) /\ Absorb(r, req[r].other, req[r].code)
      BY <1>5, <2>3, <3>2 DEF FetchNode
    <3> QED
      BY <1>1, <3>1, <3>3, <3>4, BeginDocs
  <2> QED
    BY <2>1, <2>2, <2>3
<1> QED
  BY <1>3, <1>4, <1>5

LEMMA FailDocs ==
    ASSUME DocsInv, NEW r \in Requests, DocsWritten(r), NEW status \in Failures \union Success,
           status \in Success => req[r].method = "ABSORB",
           Fail(r, status)
    PROVE  StoreDocs' /\ RequestDocs'
<1>1. RequestOK(req[r])
  BY TypeSplit DEF DocsInv, RequestsOK
<1> QED
  BY <1>1, FailWithDocs DEF Fail, Creates

LEMMA HandlerStepDocs ==
    ASSUME DocsInv, NEW r \in Requests, HandlerStep(r) PROVE StoreDocs' /\ RequestDocs'
<1> USE TypeSplit
<1>1. RequestOK(req[r]) /\ req[r] \in Request /\ RequestPhase(r)
  BY DEF DocsInv, RequestsOK, RequestOK, RequestDocs
<1>2. {400, 404, 409, 500} = Failures /\ 200 \in Success
  BY DEF Failures, Success
<1>3. CASE PreflightFails(r) \/ DocsRejected(r)
  BY <1>1, <1>2, <1>3, RefuseDocs DEF PreflightFails, DocsRejected, RequestPhase
<1>4. CASE Commit(r)
  <2>1. SuccessStatus(r) \in Success
    BY DEF SuccessStatus, Success
  <2> QED
    BY <1>4, <2>1, SucceedDocs DEF Commit
<1>5. CASE PatchDocsOnly(r)
  BY <1>2, <1>5, SucceedDocs DEF PatchDocsOnly
<1>6. CASE QueryRefused(r)
  BY <1>2, <1>6, FailDocs, FailureNotSuccess DEF QueryRefused
<1>7. CASE QueryFails(r)
  BY <1>2, <1>7, FailDocs, FailureNotSuccess DEF QueryFails
<1>8. CASE QueryTimesOut(r)
  <2> DEFINE k == IF req[r].method = "ABSORB" THEN req[r]
                  ELSE [req[r] EXCEPT !.flags = @ \union {"late"}]
  <2>1. RequestOK(k) /\ k.method = req[r].method /\ ("create" \in k.flags <=> Creates(r))
    BY <1>1, FlagsField DEF RequestOK, Request, Creates
  <2>2. FailWith(r, k, 500) /\ DocsWritten(r)
    BY <1>8 DEF QueryTimesOut
  <2> HIDE DEF k
  <2> QED
    BY <1>2, <2>1, <2>2, FailWithDocs, FailureNotSuccess
<1>9. CASE ListenerThrows(r)
  <2> DEFINE status == IF req[r].method = "ABSORB" THEN 200 ELSE 500
  <2>1. status \in Failures \union Success /\ (status \in Success => req[r].method = "ABSORB")
    BY <1>2, FailureNotSuccess
  <2>2. Fail(r, status) /\ DocsWritten(r)
    BY <1>9 DEF ListenerThrows
  <2> HIDE DEF status
  <2> QED
    BY <2>1, <2>2, FailDocs
<1>10. CASE UndoAnswered(r)
  <2> DEFINE status == IF call[r].out = "rejected" THEN 500 ELSE req[r].status
  <2>1. req[r].status \notin Success /\ req[r].status # 0 /\ call[r].op = "undo"
    BY <1>1, <1>10 DEF UndoAnswered, RequestOK, RequestPhase
  <2>2. status \in Failures
    BY <1>1, <2>1 DEF Request, Statuses, Failures
  <2>3. Answer(r, status) /\ UNCHANGED storeVars
    BY <1>10 DEF UndoAnswered
  <2> HIDE DEF status
  <2> QED
    BY <2>1, <2>2, <2>3, RefuseDocs
<1> QED
  BY <1>3, <1>4, <1>5, <1>6, <1>7, <1>8, <1>9, <1>10, PreflightDocs DEF HandlerStep

\* An answer of S3 leaves a call what it is, but for the rollback of an absorb,
\* and a rejected call rejected.
LEMMA AnswersKeep ==
    ASSUME StoreTypeOK, NEW r \in Requests, CallPhase(call[r]), DocsPhase(call[r]), StoreAnswers(r)
    PROVE  /\ call[r].op \in {"none", "undo", "post"} => call'[r].op = call[r].op
           /\ call[r].out = "rejected" => call'[r].out = "rejected"
           /\ call[r].op = "post" => call'[r].into = call[r].into /\ call'[r].body = call[r].body
<1> DEFINE k == call[r]
<1>1. k \in Call /\ CallPhase(k) /\ DocsPhase(k) /\ call \in [Requests -> Call]
  BY DEF StoreTypeOK
<1>2. ASSUME NEW step
      PROVE  LET i == Answered(r, step)
             IN  i \in Call /\ i.op = k.op /\ i.out = k.out /\ i.into = k.into /\ i.body = k.body
  BY <1>1 DEF Answered, Call
<1>3. CASE GetInto(r) \/ GetFrom(r) \/ GetFails(r)
  <2>1. k.pending \cap Gets # {}
    BY <1>3 DEF GetInto, GetFrom, GetFails, Gets
  <2>2. k.op \in {"patch", "absorb"} /\ k.out = "waiting"
    BY <1>1, <2>1 DEF DocsPhase
  <2> QED
    BY <2>2
<1>4. ASSUME NEW i \in Call, i.op = k.op, i.out = k.out, i.into = k.into, i.body = k.body,
             call' = [call EXCEPT ![r] = AfterWrite(i)], k.op \notin Rollbacks
      PROVE  /\ k.op \in {"none", "undo", "post"} => call'[r].op = k.op
             /\ k.out = "rejected" => call'[r].out = "rejected"
             /\ k.op = "post" => call'[r].into = k.into /\ call'[r].body = k.body
  <2>1. call'[r] = AfterWrite(i)
    BY <1>1, <1>4
  <2>2. CASE i.pending # {} \/ i.out # "waiting"
    BY <1>4, <2>1, <2>2 DEF AfterWrite
  <2>3. CASE i.pending = {} /\ i.out = "waiting" /\ i.op = "post"
    <3>1. AfterWrite(i) = [i EXCEPT !.out = "fulfilled"]
      BY <2>3 DEF AfterWrite
    <3> QED
      BY <1>4, <2>1, <2>3, <3>1 DEF Call
  <2>4. CASE i.pending = {} /\ i.out = "waiting" /\ i.op # "post"
    <3>1. k.op # "none"
      BY <1>1, <1>4, <2>4 DEF CallPhase
    <3> QED
      BY <1>4, <2>4, <3>1 DEF Rollbacks
  <2> QED
    BY <2>2, <2>3, <2>4
<1>5. CASE PutLands(r) \/ MarkLands(r) \/ PutFails(r)
  <2>1. PICK step \in Writes :
            /\ step \in k.pending
            /\ \/ call' = [call EXCEPT ![r] = AfterWrite([Answered(r, step) EXCEPT !.held = @ \union {step}])]
               \/ call' = [call EXCEPT ![r] = AfterWrite(Answered(r, step))]
    BY <1>5 DEF PutLands, MarkLands, PutFails, Writes
  <2>2. k.op \notin Rollbacks
    BY <1>1, <2>1, PutIsNoGet DEF CallPhase
  <2> DEFINE j == Answered(r, step)
             i == [j EXCEPT !.held = @ \union {step}]
  <2>3. j \in Call /\ j.op = k.op /\ j.out = k.out /\ j.into = k.into /\ j.body = k.body
    BY <1>2
  <2>4. call' = [call EXCEPT ![r] = AfterWrite(i)] \/ call' = [call EXCEPT ![r] = AfterWrite(j)]
    BY <2>1
  <2> HIDE DEF j
  <2>5. i \in Call /\ i.op = k.op /\ i.out = k.out /\ i.into = k.into /\ i.body = k.body
    BY <2>3 DEF Call
  <2> HIDE DEF i
  <2> QED
    BY <1>4, <2>2, <2>3, <2>4, <2>5
<1>6. CASE MarkFails(r)
  <2> DEFINE i == Answered(r, "mark")
             j == [i EXCEPT !.out = "rejected"]
  <2>1. call'[r] = j
    BY <1>1, <1>6 DEF MarkFails
  <2>2. i \in Call /\ i.op = k.op /\ i.into = k.into /\ i.body = k.body
    BY <1>2
  <2> HIDE DEF i
  <2>3. j.op = k.op /\ j.out = "rejected" /\ j.into = k.into /\ j.body = k.body
    BY <2>2 DEF Call
  <2> QED
    BY <2>1, <2>3
<1>7. ASSUME NEW drop \in Drops, DropLands(r, drop) \/ DropFails(r, drop)
      PROVE  call'[r].op = k.op /\ k.op \in Rollbacks /\ (k.out = "rejected" => call'[r].out = "rejected")
  <2> DEFINE i == Answered(r, drop)
  <2>1. i \in Call /\ i.op = k.op /\ i.out = k.out
    BY <1>2
  <2>2. k.op \in Rollbacks
    BY <1>1, <1>7 DEF CallPhase, DropLands, DropFails
  <2>3. call'[r] = AfterDrop(i) \/ call'[r] = [i EXCEPT !.out = "rejected"]
    BY <1>1, <1>7 DEF DropLands, DropFails
  <2> HIDE DEF i
  <2>4. AfterDrop(i).op = i.op /\ (i.out = "rejected" => AfterDrop(i).out = "rejected")
    BY <2>1 DEF AfterDrop, Call
  <2>5. [i EXCEPT !.out = "rejected"].op = i.op /\ [i EXCEPT !.out = "rejected"].out = "rejected"
    BY <2>1 DEF Call
  <2> QED
    BY <2>1, <2>2, <2>3, <2>4, <2>5
<1> QED
  BY <1>3, <1>5, <1>6, <1>7 DEF StoreAnswers, Rollbacks

LEMMA StoreStepDocs ==
    ASSUME DocsInv, NEW r \in Requests, StoreStep(r) PROVE StoreDocs' /\ RequestDocs'
<1> USE DEF DocsInv
<1>1. StoreAnswers(r) /\ req' = req /\ StoreTypeOK
  BY DEF StoreStep, handlerVars, TypeOK
<1>2. StoreDocs'
  BY <1>1, StoreAnswersDocs
<1>3. CallPhase(call[r]) /\ DocsPhase(call[r]) /\ RequestPhase(r)
  BY DEF StoreInv, StoreDocs, RequestDocs
<1>4. /\ call[r].pending # {}
      /\ call'[r].op = call[r].op \/ call'[r].op = "revert"
      /\ OthersStay(r)
  BY <1>1, StoreAnswersOp DEF OthersStay
<1>5. call[r].out # "fulfilled" /\ call[r].op # "none"
  BY <1>1, <1>3, <1>4 DEF StoreTypeOK, CallPhase
<1>6. RequestPhase(r)'
  BY <1>1, <1>3, <1>4, <1>5, AnswersKeep DEF RequestPhase, CreatePhase, Creates, Acknowledged
<1> QED
  BY <1>2, <1>4, <1>6, RequestDocsStep

LEMMA EnvironmentDocs ==
    ASSUME DocsInv, NEW r \in Requests, LateQueryEnds(r) \/ Crash(r) PROVE StoreDocs' /\ RequestDocs'
<1> USE TypeSplit DEF DocsInv
<1>1. req[r] \in Request /\ call[r] \in Call /\ RequestPhase(r) /\ CallPhase(call[r])
  BY DEF RequestsOK, RequestOK, StoreTypeOK, RequestDocs, StoreInv
<1>2. CASE LateQueryEnds(r)
  <2> DEFINE k == [req[r] EXCEPT !.flags = @ \ {"late"}]
  <2>1. /\ k.pc = req[r].pc /\ k.status = req[r].status /\ k.method = req[r].method
        /\ k.code = req[r].code /\ k.docs = req[r].docs /\ k.flags = req[r].flags \ {"late"}
    BY <1>1 DEF Request
  <2>2. Become(r, k) /\ UNCHANGED storeVars
    BY <1>2 DEF LateQueryEnds
  <2> HIDE DEF k
  <2>3. OthersStay(r) /\ req'[r] = k /\ call' = call
    BY <2>2, BecomeAlone DEF storeVars
  <2>4. RequestPhase(r)'
    BY <1>1, <2>1, <2>3 DEF RequestPhase, CreatePhase, Creates, Acknowledged
  <2> QED
    BY <2>2, <2>3, <2>4, RequestDocsStep, StoreUnchangedDocs
<1>3. CASE Crash(r)
  <2> DEFINE k == IF req[r].pc = "end" THEN req[r] ELSE [req[r] EXCEPT !.pc = "crashed"]
             j == [call[r] EXCEPT !.pending = {},
                                  !.out = IF @ = "waiting" THEN "rejected" ELSE @]
  <2>1. /\ IF req[r].pc = "end" THEN k.pc = "end" ELSE k.pc = "crashed"
        /\ k.status = req[r].status /\ k.method = req[r].method /\ k.flags = req[r].flags
        /\ k.code = req[r].code /\ k.docs = req[r].docs
    BY <1>1 DEF Request
  <2>2. /\ j.op = call[r].op /\ j.into = call[r].into /\ j.body = call[r].body
        /\ j.out = (IF call[r].out = "waiting" THEN "rejected" ELSE call[r].out)
    BY <1>1 DEF Call
  <2>3. Become(r, k) /\ Start(r, j)
    BY <1>3 DEF Crash
  <2> HIDE DEF k, j
  <2>4. OthersStay(r) /\ req'[r] = k /\ call'[r] = j
    BY <2>3, BecomeAlone
  <2>5. RequestPhase(r)'
    BY <1>1, <2>1, <2>2, <2>4 DEF RequestPhase, CreatePhase, Creates, Acknowledged
  <2> QED
    BY <1>3, <2>4, <2>5, RequestDocsStep, CrashDocs DEF TypeOK
<1> QED
  BY <1>2, <1>3

-----------------------------------------------------------------------------
(* The theorems. *)

\* What a handler does to the store in one step.
LEMMA HandlersMove ==
    ASSUME NEW r \in Requests, Arrives(r) \/ HandlerStep(r) \/ LateQueryEnds(r)
    PROVE  \/ UNCHANGED storeVars
           \/ Undo(r)
           \/ \E c, d, b : Post(r, c, b) \/ Patch(r, c, b) \/ Delete(r, c) \/ Absorb(r, c, d)
<1>1. CASE Arrives(r)
  BY <1>1 DEF Arrives, ArrivePost, ArrivePatch, ArriveDelete, ArriveAbsorb, BeginCreate
<1>2. CASE PatchPreflight(r) \/ DeletePreflight(r) \/ \E c \in Codes : FetchNode(r, c)
  BY <1>2 DEF PatchPreflight, DeletePreflight, FetchNode, BeginCreate
<1>3. CASE \/ PreflightFails(r) \/ DocsRejected(r) \/ Commit(r) \/ PatchDocsOnly(r)
           \/ UndoAnswered(r) \/ LateQueryEnds(r)
  BY <1>3 DEF PreflightFails, DocsRejected, Commit, PatchDocsOnly, UndoAnswered, LateQueryEnds
<1>4. CASE QueryRefused(r) \/ QueryFails(r) \/ QueryTimesOut(r) \/ ListenerThrows(r)
  <2>1. \E k, status : FailWith(r, k, status)
    BY <1>4 DEF QueryRefused, QueryFails, QueryTimesOut, ListenerThrows, Fail
  <2> QED
    BY <2>1 DEF FailWith
<1> QED
  BY <1>1, <1>2, <1>3, <1>4 DEF HandlerStep

\* The store's half of the invariant of RecordHandlersProofs holds whatever
\* listeners do.
LEMMA StoreInvStep == ASSUME TypeOK, StoreInv, [Next]_vars PROVE StoreInv'
<1>1. StoreTypeOK
  BY DEF TypeOK
<1>2. ASSUME NEW r \in Requests, Arrives(r) \/ HandlerStep(r) \/ LateQueryEnds(r) PROVE StoreInv'
  BY <1>1, <1>2, HandlersMove, StoreUnchangedSafe, UndoSafe, CallsSafe
<1>3. ASSUME NEW r \in Requests, Crash(r) PROVE StoreInv'
  <2> DEFINE j == [call[r] EXCEPT !.pending = {},
                                  !.out = IF @ = "waiting" THEN "rejected" ELSE @]
  <2>1. Start(r, j) /\ call[r] \in Call /\ CallPhase(call[r]) /\ HeldStands(r)
    BY <1>1, <1>3 DEF Crash, StoreInv, StoreTypeOK
  <2>2. CallPhase(j) /\ j.op = call[r].op /\ SameWrites(j, call[r])
    BY <2>1 DEF CallPhase, SameWrites, Call
  <2> HIDE DEF j
  <2> QED
    BY <1>1, <2>1, <2>2, UnchangedGrows, GrowingStep DEF Start, SameWrites
<1>4. ASSUME NEW r \in Requests, StoreStep(r) PROVE StoreInv'
  BY <1>1, <1>4, StoreAnswersSafe DEF StoreStep
<1>5. CASE UNCHANGED vars \/ \E c \in Codes : Relate(c)
  BY <1>5, StoreUnchangedSafe DEF vars, Relate, storeVars
<1> QED
  BY <1>2, <1>3, <1>4, <1>5 DEF Next

LEMMA DocsInvInit == Init => DocsInv
<1> SUFFICES ASSUME Init PROVE DocsInv
  OBVIOUS
<1>1. TypeOK /\ StoreInv
  BY InitType, InitSafe
<1>2. ASSUME NEW r \in Requests
      PROVE  /\ DocsPhase(call[r]) /\ DocsStand(r)
             /\ CleanFaults => CleanPhase(call[r]) /\ Accounted(r)
             /\ RequestPhase(r)
  <2>1. call[r] = NoCall /\ req[r] = NoRequest
    BY DEF Init, StoreInit
  <2>2. DocsPhase(call[r]) /\ DocsStand(r) /\ CleanPhase(call[r])
    BY <2>1, NoCallType DEF DocsPhase, DocsStand, CleanPhase
  <2>3. \A c \in Codes : ~ HasVersion(bucket[c], r)
    BY OriginAssumption DEF Init, StoreInit, HasVersion, Version
  <2>4. NoRequest.flags = {} /\ NoRequest.pc = "idle"
    BY DEF NoRequest, NewRequest
  <2>5. RequestPhase(r)
    BY <2>1, <2>4, NoCallType DEF RequestPhase, CreatePhase, Creates, Acknowledged
  <2> QED
    BY <2>2, <2>3, <2>5 DEF Accounted
<1> QED
  BY <1>1, <1>2 DEF DocsInv, StoreDocs, RequestDocs

LEMMA DocsInvStep == ASSUME DocsInv, [Next]_vars PROVE DocsInv'
<1>1. TypeOK' /\ StoreInv'
  BY NextType, StoreInvStep DEF DocsInv
<1>2. CASE UNCHANGED vars \/ \E c \in Codes : Relate(c)
  <2>1. req' = req /\ UNCHANGED storeVars /\ call' = call
    BY <1>2 DEF vars, Relate, storeVars
  <2>2. RequestDocs'
    BY <2>1 DEF DocsInv, RequestDocs, RequestPhase, CreatePhase, Creates, Acknowledged
  <2> QED
    BY <1>1, <2>1, <2>2, StoreUnchangedDocs DEF DocsInv
<1>3. ASSUME NEW r \in Requests,
             Arrives(r) \/ HandlerStep(r) \/ StoreStep(r) \/ LateQueryEnds(r) \/ Crash(r)
      PROVE  StoreDocs' /\ RequestDocs'
  BY <1>3, ArrivesDocs, HandlerStepDocs, StoreStepDocs, EnvironmentDocs
<1> QED
  BY <1>1, <1>2, <1>3 DEF Next, DocsInv

LEMMA DocsInvariant == Spec => []DocsInv
BY DocsInvInit, DocsInvStep, PTL DEF Spec

\* Whatever S3, Neo4j, listeners and crashes do, an absorb that was fulfilled
\* has every text it was to save in the upload it made.
THEOREM AbsorbedTextStays == Spec => []AbsorbCarriesText
<1>1. DocsInv => AbsorbCarriesText
  <2> SUFFICES ASSUME DocsInv, NEW r \in Requests,
                      call[r].op = "absorb", call[r].out = "fulfilled", call[r].seen.from # EmptyBody,
                      NEW n \in Missing(call[r].seen.from, call[r].seen.into)
               PROVE  \E v \in bucket[call[r].into] : v.id = r /\ v.body[n] = call[r].seen.from[n]
    BY DEF AbsorbCarriesText
  <2>1. DocsPhase(call[r]) /\ DocsStand(r)
    BY DEF DocsInv, StoreDocs
  <2>2. AbsorbNeedsPut(call[r])
    BY DEF AbsorbNeedsPut
  <2>3. HasBody(bucket[call[r].into], r, Overlay(call[r].seen.into, call[r].seen.from))
    BY <2>1, <2>2 DEF DocsPhase, DocsStand, Rollbacks
  <2>4. Overlay(call[r].seen.into, call[r].seen.from)[n] = call[r].seen.from[n]
    BY DEF Missing, Overlay
  <2> QED
    BY <2>3, <2>4 DEF HasBody
<1> QED
  BY <1>1, DocsInvariant, PTL

\* When no delete marker and no undo fails, no answer hides a write and no
\* process stops, a call that was rejected or undone leaves no version behind,
\* although gets, uploads, queries and listeners fail and other calls go on.
THEOREM FailedCallsLeaveNothing ==
    ASSUME Faults \cap {"mark", "drop", "lost", "crash"} = {}
    PROVE  Spec => []FailedCallLeavesNothing
<1>1. DocsInv => FailedCallLeavesNothing
  BY DEF DocsInv, StoreDocs, CleanFaults, CleanPhase, Accounted, Left, HasVersion,
         FailedCallLeavesNothing, Settled, Traceless, WroteVersion, Rollbacks
<1> QED
  BY <1>1, DocsInvariant, PTL

\* With the same faults left out, a request that was refused or failed leaves
\* nothing: whenever a handler ends with an error it has made no call, its call
\* was rejected, or it has undone it.
THEOREM FailedRequestsLeaveNoVersion ==
    ASSUME Faults \cap {"mark", "drop", "lost", "crash"} = {}
    PROVE  Spec => []FailedRequestsLeaveNothing
<1>1. ASSUME DocsInv, NEW r \in Requests, req[r].pc = "end", ~ Acknowledged(r), Settled(r),
             NEW c \in Codes
      PROVE  ~ HasVersion(bucket[c], r)
  <2>1. call[r].op \in {"none", "undo"} \/ call[r].out = "rejected"
    BY <1>1 DEF DocsInv, RequestDocs, RequestPhase, Acknowledged
  <2>2. DocsPhase(call[r]) /\ CleanPhase(call[r]) /\ Accounted(r)
    BY <1>1 DEF DocsInv, StoreDocs, CleanFaults
  <2> QED
    BY <1>1, <2>1, <2>2 DEF DocsPhase, CleanPhase, Accounted, Left, Settled, Rollbacks
<1>2. DocsInv => FailedRequestsLeaveNothing
  BY <1>1 DEF FailedRequestsLeaveNothing, Traceless, WroteVersion, HasVersion
<1> QED
  BY <1>2, DocsInvariant, PTL

\* When no upload fails, a request that created a record and was acknowledged
\* has its documents in the bucket, whatever else goes wrong; upload() swallows
\* its error, so it does not hold without the hypothesis.
THEOREM CreatedDocumentsStored ==
    ASSUME "put" \notin Faults
    PROVE  Spec => []AcknowledgedDocumentsStored
<1>1. ASSUME DocsInv, NEW r \in Requests, Acknowledged(r), Creates(r), req[r].docs # EmptyBody
      PROVE  \E v \in bucket[req[r].code] : v.id = r /\ v.body = req[r].docs
  <2>1. /\ call[r].op = "post" /\ call[r].into = req[r].code /\ call[r].body = req[r].docs
        /\ call[r].out = "fulfilled"
    BY <1>1 DEF DocsInv, RequestDocs, RequestPhase, CreatePhase
  <2>2. DocsPhase(call[r]) /\ DocsStand(r)
    BY <1>1 DEF DocsInv, StoreDocs
  <2> QED
    BY <2>1, <2>2 DEF DocsPhase, DocsStand, HasBody, Rollbacks
<1>2. DocsInv => AcknowledgedDocumentsStored
  BY <1>1 DEF AcknowledgedDocumentsStored
<1> QED
  BY <1>2, DocsInvariant, PTL

\* Under the handlers too, whatever fails, a version only leaves the bucket in a
\* rollback or an undo of the call that wrote it.
THEOREM HandlersEraseTheirOwn == Spec => OnlyOwnUndoErases
<1>1. TypeOK /\ StoreInv /\ [Next]_vars
      => [\A c \in Codes : \A v \in bucket[c] \ bucket'[c] :
             v.id \in Requests /\ call[v.id].op \in {"undo", "revert"}]_storeVars
  <2> SUFFICES ASSUME TypeOK, StoreInv, [Next]_vars, NEW c \in Codes, NEW v \in bucket[c] \ bucket'[c]
               PROVE  v.id \in Requests /\ call[v.id].op \in {"undo", "revert"}
    OBVIOUS
  <2>1. PICK r \in Requests :
            Arrives(r) \/ HandlerStep(r) \/ StoreStep(r) \/ LateQueryEnds(r) \/ Crash(r)
    BY DEF Next, Relate, vars, storeVars
  <2>2. ~ (Arrives(r) \/ HandlerStep(r) \/ LateQueryEnds(r) \/ Crash(r))
    BY HandlersMove DEF storeVars, Undo, Post, Patch, Delete, Absorb, Start, Crash
  <2> QED
    BY <2>1, <2>2, ErasureIsOwn DEF StoreStep, TypeOK, Rollbacks
<1>2. DocsInv => TypeOK /\ StoreInv
  BY DEF DocsInv
<1> QED
  BY <1>1, <1>2, DocsInvariant, PTL DEF Spec, OnlyOwnUndoErases
=============================================================================
