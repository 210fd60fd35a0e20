----------------------- MODULE RecordRefinementProofs -----------------------
(***************************************************************************)
(* The handlers implement AtomicRecords: requests that do not overlap,     *)
(* POSTs excepted, change a record and its documents in one step or not at *)
(* all, while reads of S3 and queries fail.                                *)
(***************************************************************************)
EXTENDS RecordDocumentsProofs

-----------------------------------------------------------------------------
(* The inductive invariant. *)

\* Only gets and queries fail, and only POSTs run together on a record.
Orderly ==
    /\ Faults \cap {"put", "mark", "drop", "lost", "crash", "timeout", "listener"} = {}
    /\ \A together \in Overlap : together \subseteq {"POST"}

Scope(r) == {req[r].code, req[r].other}

\* What a request asks for, and the keys its call works on.
RequestShape(r) ==
    /\ IF req[r].method = "ABSORB" THEN req[r].other # req[r].code ELSE req[r].other = req[r].code
    /\ req[r].method = "none" => req[r].pc = "idle"
    /\ "late" \notin req[r].flags
    /\ req[r].pc # "crashed"
    /\ req[r].docs \in Drafts \union {EmptyBody}
    /\ call[r].op # "none" =>
          /\ {call[r].into, call[r].from} \subseteq Scope(r)
          /\ req[r].method = "ABSORB" => call[r].into = req[r].code /\ call[r].from = req[r].other

\* What a call still has to send or has sent; no write is lost.
CallShape(k) ==
    /\ k.op \notin Rollbacks => k.pending \cap k.held = {}
    /\ k.op = "post" => k.pending \union k.held \subseteq {"put"}
    /\ k.op = "patch" => k.pending \union k.held \subseteq {"getInto", "put"}
    /\ k.op = "delete" =>
          /\ k.pending \union k.held \subseteq {"mark"}
          /\ k.out = "fulfilled" => "mark" \in k.held
    /\ k.op = "absorb" =>
          /\ k.into # k.from
          /\ k.pending \cap Gets = {} /\ k.out # "rejected" =>
                IF k.seen.from = EmptyBody THEN k.pending \union k.held = {}
                ELSE /\ "mark" \in k.pending \union k.held
                     /\ AbsorbNeedsPut(k) <=> "put" \in k.pending \union k.held

\* A patch uploads the merged body, or the merged body is what was there.
PatchShape(k, docs) ==
    IF "put" \in k.pending \union k.held
    THEN k.body = Overlay(docs, k.seen.into)
    ELSE k.body = docs /\ (k.out = "fulfilled" => Overlay(docs, k.seen.into) = k.seen.into)

\* Between its preflight and its query a handler has made the call it should,
\* and the record it has found is still there.
DocsMatch(r) ==
    req[r].pc = "docs" =>
        /\ req[r].method = "POST" => Creates(r)
        /\ Creates(r) => call[r].op = IF req[r].docs = EmptyBody THEN "none" ELSE "post"
        /\ Updates(r) =>
              /\ call[r].op = IF req[r].docs = EmptyBody THEN "none" ELSE "patch"
              /\ call[r].op = "patch" => PatchShape(call[r], req[r].docs)
              /\ req[r].code \in nodes
        /\ req[r].method = "DELETE" => call[r].op = "delete" /\ req[r].code \in nodes
        /\ req[r].method = "ABSORB" => call[r].op \in {"absorb", "revert"}

\* What a call has read are the documents of the record, and still are.
SeenCurrent(r) ==
    req[r].pc = "docs" /\ call[r].op \in {"patch", "absorb"} /\ call[r].out # "rejected" =>
        /\ "getInto" \notin call[r].pending =>
              call[r].seen.into = Read(CommittedVersions(call[r].into))
        /\ call[r].op = "absorb" /\ "getFrom" \notin call[r].pending =>
              call[r].seen.from = Read(CommittedVersions(call[r].from))

\* A version of r is the one write the call holds for that key, and newer than
\* all that has been acknowledged, unless another POST has come first.
OwnVersion(r, c, v) ==
    /\ \A w \in bucket[c] : w.id = r => w = v
    /\ \/ "put" \in call[r].held /\ c = call[r].into /\ v.body = call[r].body
       \/ "mark" \in call[r].held /\ c = call[r].from /\ v.body = DeleteMarker
    /\ (req[r].method = "POST" => c \notin nodes) => \A w \in CommittedVersions(c) : w.at < v.at

OwnNewest(r) ==
    req[r].pc = "docs" /\ call[r].op \notin Rollbacks =>
        \A c \in Codes : \A v \in bucket[c] : v.id = r => OwnVersion(r, c, v)

Work(r) ==
    RequestShape(r) /\ CallShape(call[r]) /\ DocsMatch(r) /\ SeenCurrent(r) /\ OwnNewest(r)

\* Requests that work on the same record at the same time are POSTs.
Exclusive ==
    \A r, q \in Requests : r # q /\ Busy(r) /\ Busy(q) /\ Scope(r) \cap Scope(q) # {} =>
        req[r].method = "POST" /\ req[q].method = "POST"

NoCommittedOrphan == \A c \in Codes \ nodes : Read(CommittedVersions(c)) = EmptyBody

AtomicInv ==
    /\ WritesInv
    /\ DocsInv
    /\ \A r \in Requests : Work(r)
    /\ Exclusive
    /\ NoCommittedOrphan

LEMMA OrderlyFaults ==
    ASSUME Orderly
    PROVE  /\ CleanFaults
           /\ \A fault \in {"put", "mark", "drop", "lost", "crash", "timeout", "listener"} :
                 fault \notin Faults
BY DEF Orderly, CleanFaults

-----------------------------------------------------------------------------
(* Bodies and versions. *)

LEMMA OverlayEmpty ==
    ASSUME NEW b \in Bodies PROVE Overlay(EmptyBody, b) = b /\ Overlay(b, EmptyBody) = b
<1>1. \A n \in DocNames : Overlay(EmptyBody, b)[n] = b[n] /\ Overlay(b, EmptyBody)[n] = b[n]
  BY DEF Overlay, EmptyBody
<1>2. b = [n \in DocNames |-> b[n]]
  BY DEF Bodies
<1> QED
  BY <1>1, <1>2 DEF Overlay, EmptyBody

\* A patch that changes nothing need not be uploaded.
LEMMA OverlayChangesNothing ==
    ASSUME NEW a \in Bodies, NEW b \in Bodies, Changed(a, b) = {} PROVE Overlay(a, b) = b
<1>1. \A n \in DocNames : (IF a[n] = NoText THEN b[n] ELSE a[n]) = b[n]
  BY DEF Changed
<1>2. b = [n \in DocNames |-> b[n]]
  BY DEF Bodies
<1> QED
  BY <1>1, <1>2 DEF Overlay

\* An absorb need not upload what is not missing.
LEMMA OverlayMissesNothing ==
    ASSUME NEW a \in Bodies, NEW b \in Bodies, Missing(b, a) = {} PROVE Overlay(a, b) = a
<1>1. \A n \in DocNames : (IF a[n] = NoText THEN b[n] ELSE a[n]) = a[n]
  BY DEF Missing
<1>2. a = [n \in DocNames |-> a[n]]
  BY DEF Bodies
<1> QED
  BY <1>1, <1>2 DEF Overlay

\* A read returns the newest version.
LEMMA ReadNewest ==
    ASSUME NEW versions \in SUBSET VersionSet(Ids), NEW v \in versions,
           \A w \in versions \ {v} : w.at < v.at
    PROVE  Read(versions) = IF v.body = DeleteMarker THEN EmptyBody ELSE v.body
<1>1. \A w \in versions : w.at \in Nat
  BY DEF VersionSet
<1>2. Newest(versions) = {v}
  BY <1>1 DEF Newest
<1> DEFINE found == {w \in Newest(versions) : w.body # DeleteMarker}
<1>3. CASE v.body = DeleteMarker
  BY <1>2, <1>3 DEF Read
<1>4. CASE v.body # DeleteMarker
  <2>1. found = {v}
    BY <1>2, <1>4
  <2>2. (CHOOSE w \in found : TRUE) = v
    BY <2>1
  <2> QED
    BY <1>4, <2>1, <2>2 DEF Read
<1> QED
  BY <1>3, <1>4

LEMMA CommittedType ==
    ASSUME StoreTypeOK, NEW c \in Codes
    PROVE  CommittedVersions(c) \in SUBSET VersionSet(Ids) /\ Read(CommittedVersions(c)) \in Bodies
<1>1. CommittedVersions(c) \in SUBSET VersionSet(Ids)
  BY DEF CommittedVersions, StoreTypeOK
<1> QED
  BY <1>1, ReadType

\* What a request that has not been acknowledged does to its own versions does
\* not show.
LEMMA CommittedStays ==
    ASSUME NEW r \in Requests, ~ Acknowledged(r), OnlyOwnVersions(r),
           \A q \in Requests : Acknowledged(q)' <=> Acknowledged(q)
    PROVE  \A c \in Codes : CommittedVersions(c)' = CommittedVersions(c)
<1> SUFFICES ASSUME NEW c \in Codes PROVE CommittedVersions(c)' = CommittedVersions(c)
  OBVIOUS
<1>1. \A v : v.id # r => (v \in bucket'[c] <=> v \in bucket[c])
  BY DEF OnlyOwnVersions
<1>2. ASSUME NEW v PROVE v \in CommittedVersions(c)' <=> v \in CommittedVersions(c)
  BY <1>1, OriginAssumption DEF CommittedVersions
<1> QED
  BY <1>2 DEF CommittedVersions

-----------------------------------------------------------------------------
(* What follows from the invariant. *)

LEMMA CallFacts ==
    ASSUME Orderly, AtomicInv, NEW r \in Requests
    PROVE  /\ call[r] \in Call /\ call[r].into \in Codes /\ call[r].from \in Codes
           /\ req[r] \in Request /\ req[r].code \in Codes /\ req[r].other \in Codes
           /\ req[r].docs \in Bodies
           /\ CallPhase(call[r]) /\ HeldStands(r) /\ DocsPhase(call[r]) /\ DocsStand(r)
           /\ CleanPhase(call[r]) /\ Accounted(r)
           /\ RequestPhase(r) /\ HandlerPhase(r) /\ Work(r)
           /\ call[r].out = "fulfilled" => call[r].pending = {}
<1>1. StoreTypeOK /\ RequestsOK /\ StoreInv /\ StoreDocs /\ HandlerInv /\ RequestDocs /\ CleanFaults
  BY OrderlyFaults, TypeSplit DEF AtomicInv, WritesInv, DocsInv
<1>2. call[r] \in Call /\ req[r] \in Request
  BY <1>1 DEF StoreTypeOK, RequestsOK
<1>3. /\ call[r].into \in Codes /\ call[r].from \in Codes /\ req[r].docs \in Bodies
      /\ req[r].code \in Codes /\ req[r].other \in Codes
  BY <1>2 DEF Call, Request
<1> QED
  BY <1>1, <1>2, <1>3 DEF AtomicInv, StoreInv, StoreDocs, HandlerInv, RequestDocs, StoreTypeOK

\* A call that waits for the store belongs to a handler that waits for it.
LEMMA WaitingAtDocs ==
    ASSUME Orderly, AtomicInv, NEW r \in Requests, call[r].op \notin Rollbacks, call[r].pending # {}
    PROVE  /\ req[r].pc = "docs" /\ call[r].out = "waiting" /\ call[r].op # "none"
           /\ ~ Acknowledged(r) /\ Busy(r)
<1>1. /\ CallPhase(call[r]) /\ CleanPhase(call[r]) /\ call[r] \in Call
      /\ RequestPhase(r) /\ HandlerPhase(r) /\ Work(r)
      /\ call[r].out = "fulfilled" => call[r].pending = {}
      /\ req[r] \in Request
  BY CallFacts
<1>2. call[r].op # "none" /\ call[r].out = "waiting"
  BY <1>1 DEF CallPhase, CleanPhase, Call
<1>3. req[r].pc = "docs"
  BY <1>1, <1>2 DEF RequestPhase, HandlerPhase, Acknowledged, Work, RequestShape, Request, Pcs, Rollbacks
<1> QED
  BY <1>2, <1>3 DEF Acknowledged, Busy

\* A version of a request that has not been acknowledged is in a record the
\* request still works on.
LEMMA UncommittedIsBusy ==
    ASSUME Orderly, AtomicInv, NEW c \in Codes, NEW v \in bucket[c], v \notin CommittedVersions(c)
    PROVE  v.id \in Requests /\ Busy(v.id) /\ c \in Scope(v.id)
<1>1. bucket[c] \in SUBSET VersionSet(Ids)
  BY DEF AtomicInv, DocsInv, TypeOK, StoreTypeOK
<1> DEFINE q == v.id
<1>2. q \in Requests /\ ~ Acknowledged(q)
  BY <1>1 DEF CommittedVersions, VersionSet, Ids
<1>3. HasVersion(bucket[c], q)
  BY DEF HasVersion
<1> HIDE DEF q
<1>4. /\ call[q] \in Call /\ CallPhase(call[q]) /\ DocsPhase(call[q]) /\ CleanPhase(call[q])
      /\ Accounted(q) /\ RequestPhase(q) /\ Work(q)
  BY <1>2, CallFacts
<1>5. Left(call[q], c)
  BY <1>3, <1>4 DEF Accounted
<1>6. call[q].op # "none" /\ c \in {call[q].into, call[q].from}
  BY <1>4, <1>5 DEF Left, CallPhase, DocsPhase, Rollbacks
<1>7. c \in Scope(q) /\ req[q].pc # "crashed"
  BY <1>4, <1>6 DEF Work, RequestShape
<1>8. ~ (req[q].pc = "end" /\ Settled(q))
  <2> SUFFICES ASSUME req[q].pc = "end", Settled(q) PROVE FALSE
    OBVIOUS
  <2>1. call[q].op = "undo" \/ call[q].out = "rejected"
    BY <1>2, <1>4, <1>6 DEF RequestPhase, Acknowledged
  <2> QED
    BY <1>4, <1>5, <2>1 DEF Settled, Left, CleanPhase, Rollbacks
<1>9. Busy(q)
  BY <1>4, <1>6, <1>7, <1>8 DEF Busy, RequestPhase
<1> QED
  BY <1>2, <1>7, <1>9 DEF q

\* Nobody else has an unacknowledged version of a record on which no POST runs.
LEMMA OthersCommitted ==
    ASSUME Orderly, AtomicInv, NEW r \in Requests, Busy(r), req[r].method # "POST",
           NEW c \in Scope(r), NEW v \in bucket[c], v.id # r
    PROVE  v \in CommittedVersions(c)
<1>1. c \in Codes
  BY CallFacts DEF Scope
<1> QED
  BY <1>1, UncommittedIsBusy DEF AtomicInv, Exclusive

-----------------------------------------------------------------------------
(* Steps: what they leave alone. *)

\* A request whose call, versions and records are left alone keeps its
\* invariant; a POST that comes too late does even when its record is created.
LEMMA WorkStays ==
    ASSUME Orderly, AtomicInv, NEW q \in Requests, call'[q] = call[q], req'[q] = req[q],
           \A c \in Codes : \A v : v.id = q => (v \in bucket'[c] <=> v \in bucket[c]),
           req[q].pc = "docs" =>
              \/ \A c \in Scope(q) : /\ CommittedVersions(c)' = CommittedVersions(c)
                                     /\ c \in nodes' <=> c \in nodes
              \/ req[q].method = "POST" /\ req[q].code \in nodes'
    PROVE  Work(q)'
<1> USE DEF Work
<1>1. Work(q) /\ call[q].into \in Codes /\ call[q].from \in Codes /\ DocsPhase(call[q])
  BY CallFacts
<1>2. RequestShape(q)' /\ CallShape(call[q])'
  BY <1>1 DEF RequestShape, CallShape, AbsorbNeedsPut, Scope
<1>3. CASE req[q].pc # "docs"
  BY <1>2, <1>3 DEF DocsMatch, SeenCurrent, OwnNewest
<1>4. CASE /\ req[q].pc = "docs"
           /\ \A c \in Scope(q) : /\ CommittedVersions(c)' = CommittedVersions(c)
                                  /\ c \in nodes' <=> c \in nodes
  <2>1. req[q].code \in Scope(q)
    BY DEF Scope
  <2>2. DocsMatch(q)'
    BY <1>1, <1>4, <2>1 DEF DocsMatch, Updates, Creates
  <2>3. SeenCurrent(q)'
    BY <1>1, <1>4 DEF SeenCurrent, RequestShape
  <2>4. OwnNewest(q)'
    <3> SUFFICES ASSUME call[q].op \notin Rollbacks, NEW c \in Codes, NEW v \in bucket'[c], v.id = q
                 PROVE  OwnVersion(q, c, v)'
      BY <1>4 DEF OwnNewest
    <3>1. OwnVersion(q, c, v)
      BY <1>1, <1>4 DEF OwnNewest
    <3>2. call[q].op # "none"
      BY <1>1, <3>1 DEF OwnVersion, DocsPhase
    <3>3. c \in Scope(q)
      BY <1>1, <3>1, <3>2 DEF OwnVersion, RequestShape
    <3> QED
      BY <1>4, <3>1, <3>3 DEF OwnVersion
  <2> QED
    BY <1>2, <2>2, <2>3, <2>4
<1>5. CASE req[q].pc = "docs" /\ req[q].method = "POST" /\ req[q].code \in nodes'
  <2>1. Creates(q) /\ call[q].op \in {"none", "post"}
    BY <1>1, <1>5 DEF DocsMatch
  <2>2. DocsMatch(q)' /\ SeenCurrent(q)'
    BY <1>1, <1>5, <2>1 DEF DocsMatch, SeenCurrent, Creates, Updates
  <2>3. OwnNewest(q)'
    <3> SUFFICES ASSUME NEW c \in Codes, NEW v \in bucket'[c], v.id = q
                 PROVE  OwnVersion(q, c, v)'
      BY DEF OwnNewest
    <3>1. OwnVersion(q, c, v)
      BY <1>1, <1>5, <2>1 DEF OwnNewest, Rollbacks
    <3>2. call[q].op # "none"
      BY <1>1, <3>1 DEF OwnVersion, DocsPhase
    <3>3. c = req[q].code
      BY <1>1, <1>5, <3>1, <3>2 DEF OwnVersion, RequestShape, Scope
    <3> QED
      BY <1>5, <3>1, <3>3 DEF OwnVersion
  <2> QED
    BY <1>2, <2>2, <2>3
<1> QED
  BY <1>1, <1>3, <1>4, <1>5

\* Who is busy with what changes only when a request arrives.
LEMMA ExclusiveStays ==
    ASSUME Exclusive, NEW r \in Requests, OthersStay(r), Busy(r)' => Busy(r),
           req'[r].code = req[r].code, req'[r].other = req[r].other, req'[r].method = req[r].method
    PROVE  Exclusive'
<1>1. \A q \in Requests \ {r} :
          /\ Busy(q)' <=> Busy(q)
          /\ Scope(q)' = Scope(q)
          /\ req'[q].method = req[q].method
  BY DEF OthersStay, Busy, Settled, Scope
<1>2. Scope(r)' = Scope(r)
  BY DEF Scope
<1> QED
  BY <1>1, <1>2 DEF Exclusive

\* A step of r that leaves the graph alone and acknowledges nothing.
LEMMA SilentStep ==
    ASSUME Orderly, AtomicInv, NEW r \in Requests, OthersStay(r), OnlyOwnVersions(r), nodes' = nodes,
           ~ Acknowledged(r), ~ Acknowledged(r)'
    PROVE  /\ \A c \in Codes : CommittedVersions(c)' = CommittedVersions(c)
           /\ \A q \in Requests \ {r} : Work(q)'
           /\ NoCommittedOrphan'
<1>1. \A q \in Requests : Acknowledged(q)' <=> Acknowledged(q)
  BY DEF OthersStay, Acknowledged
<1>2. \A c \in Codes : CommittedVersions(c)' = CommittedVersions(c)
  BY <1>1, CommittedStays
<1>3. ASSUME NEW q \in Requests \ {r} PROVE Work(q)'
  <2>1. call'[q] = call[q] /\ req'[q] = req[q]
    BY DEF OthersStay
  <2>2. \A c \in Codes : \A v : v.id = q => (v \in bucket'[c] <=> v \in bucket[c])
    BY DEF OnlyOwnVersions
  <2>3. Scope(q) \subseteq Codes
    BY CallFacts DEF Scope
  <2> QED
    BY <1>2, <2>1, <2>2, <2>3, WorkStays
<1>4. NoCommittedOrphan'
  BY <1>2 DEF NoCommittedOrphan, AtomicInv
<1> QED
  BY <1>2, <1>3, <1>4

\* A step of r that neither acknowledges r nor changes a record.
NothingShows(r) ==
    /\ OthersStay(r)
    /\ ~ Acknowledged(r)'
    /\ \A c \in Codes : CommittedVersions(c)' = CommittedVersions(c)
    /\ \A q \in Requests : Work(q)'
    /\ Exclusive' /\ NoCommittedOrphan'

-----------------------------------------------------------------------------
(* Steps of the store. *)

\* What is known of a request whose call waits for gets.
LEMMA GetsAreExclusive ==
    ASSUME Orderly, AtomicInv, NEW r \in Requests, call[r].pending \cap Gets # {}
    PROVE  /\ call[r].pending \subseteq Gets /\ call[r].held = {} /\ call[r].op \in {"patch", "absorb"}
           /\ req[r].method # "POST" /\ (call[r].op = "patch" <=> Updates(r))
           /\ \A c \in Codes : ~ HasVersion(bucket[c], r)
           /\ \A c \in Scope(r) : bucket[c] = CommittedVersions(c)
<1>1. /\ DocsPhase(call[r]) /\ Accounted(r) /\ Work(r) /\ RequestPhase(r)
      /\ req[r] \in Request /\ req[r].code \in Codes /\ req[r].other \in Codes
  BY CallFacts
<1>2. call[r].pending \subseteq Gets /\ call[r].held = {} /\ call[r].op \in {"patch", "absorb"}
  BY <1>1 DEF DocsPhase
<1>3. req[r].pc = "docs" /\ Busy(r)
  BY <1>2, WaitingAtDocs DEF Rollbacks
<1>4. req[r].method # "POST" /\ (call[r].op = "patch" <=> Updates(r))
  BY <1>1, <1>2, <1>3 DEF Work, DocsMatch, RequestShape, Updates, Request, Methods
<1>5. \A c \in Codes : ~ HasVersion(bucket[c], r)
  BY <1>1, <1>2 DEF Accounted, Left, Rollbacks
<1>6. ASSUME NEW c \in Scope(r) PROVE bucket[c] = CommittedVersions(c)
  <2>1. \A v \in bucket[c] : v.id # r
    BY <1>1, <1>5 DEF HasVersion, Scope
  <2>2. \A v \in bucket[c] : v \in CommittedVersions(c)
    BY <1>3, <1>4, <2>1, OthersCommitted
  <2> QED
    BY <2>2 DEF CommittedVersions
<1> QED
  BY <1>2, <1>4, <1>5, <1>6

LEMMA AfterGetShape ==
    ASSUME NEW k \in Call, k.pending \subseteq Gets, k.held = {}, k.out = "waiting",
           \/ k.op = "patch" /\ k.pending \subseteq {"getInto"}
           \/ k.op = "absorb" /\ k.into # k.from
    PROVE  LET j == AfterGet(k)
           IN  /\ CallShape(j)
               /\ j.op = k.op /\ j.into = k.into /\ j.from = k.from /\ j.seen = k.seen
               /\ \A get \in Gets : get \in j.pending <=> get \in k.pending
               /\ k.op = "patch" => PatchShape(j, k.body)
<1> DEFINE j == AfterGet(k)
<1>1. CASE k.pending # {}
  <2>1. j = k /\ "put" \notin k.pending
    BY <1>1, PutIsNoGet DEF AfterGet
  <2>2. k.pending \cap Gets # {}
    BY <1>1
  <2> QED
    BY <2>1, <2>2 DEF CallShape, PatchShape
<1>2. CASE k.pending = {} /\ k.op = "patch"
  <2>1. j = PatchMerge(k) /\ k.body \in Bodies /\ k.seen.into \in Bodies
    BY <1>2 DEF AfterGet, Call
  <2> HIDE DEF j
  <2>2. CASE Changed(k.body, k.seen.into) = {}
    <3>1. Overlay(k.body, k.seen.into) = k.seen.into
      BY <2>1, <2>2, OverlayChangesNothing
    <3>2. /\ j.op = "patch" /\ j.into = k.into /\ j.from = k.from /\ j.seen = k.seen
          /\ j.pending = {} /\ j.held = {} /\ j.body = k.body
      BY <1>2, <2>1, <2>2 DEF PatchMerge, Call
    <3> QED
      BY <1>2, <3>1, <3>2 DEF CallShape, PatchShape, j
  <2>3. CASE Changed(k.body, k.seen.into) # {}
    <3>1. /\ j.op = "patch" /\ j.into = k.into /\ j.from = k.from /\ j.seen = k.seen
          /\ j.pending = {"put"} /\ j.held = {} /\ j.body = Overlay(k.body, k.seen.into)
      BY <1>2, <2>1, <2>3 DEF PatchMerge, Call
    <3> QED
      BY <1>2, <3>1, PutIsNoGet DEF CallShape, PatchShape, j
  <2> QED
    BY <2>2, <2>3
<1>3. CASE k.pending = {} /\ k.op = "absorb"
  <2>1. j = AbsorbMerge(k) /\ k.into # k.from
    BY <1>3 DEF AfterGet
  <2> HIDE DEF j
  <2>2. CASE k.seen.from = EmptyBody
    <3>1. /\ j.op = "absorb" /\ j.into = k.into /\ j.from = k.from /\ j.seen = k.seen
          /\ j.pending = {} /\ j.held = {}
      BY <1>3, <2>1, <2>2 DEF AbsorbMerge, Call
    <3> QED
      BY <1>3, <2>1, <2>2, <3>1 DEF CallShape, j
  <2>3. CASE k.seen.from # EmptyBody
    <3>1. /\ j.op = "absorb" /\ j.into = k.into /\ j.from = k.from /\ j.seen = k.seen
          /\ j.pending = {"mark"} \union (IF AbsorbNeedsPut(k) THEN {"put"} ELSE {})
          /\ j.held = {}
      BY <1>3, <2>1, <2>3 DEF AbsorbMerge, Call
    <3>2. AbsorbNeedsPut(j) <=> AbsorbNeedsPut(k)
      BY <3>1 DEF AbsorbNeedsPut
    <3>3. \A get \in Gets : get \notin j.pending
      BY <3>1, PutIsNoGet
    <3>4. "mark" \in j.pending \union j.held /\ (AbsorbNeedsPut(j) <=> "put" \in j.pending \union j.held)
      BY <3>1, <3>2
    <3>5. CallShape(j)
      BY <2>1, <2>3, <3>1, <3>4 DEF CallShape
    <3> QED
      BY <1>3, <3>1, <3>3, <3>5 DEF j
  <2> QED
    BY <2>2, <2>3
<1> QED
  BY <1>1, <1>2, <1>3

LEMMA GetsWork ==
    ASSUME Orderly, AtomicInv, NEW r \in Requests, NEW step \in Gets, step \in call[r].pending,
           NEW seen \in [into : Bodies, from : Bodies],
           seen.into = IF step = "getInto" THEN Read(bucket[call[r].into]) ELSE call[r].seen.into,
           seen.from = IF step = "getFrom" THEN Read(bucket[call[r].from]) ELSE call[r].seen.from,
           call' = [call EXCEPT ![r] = AfterGet([Answered(r, step) EXCEPT !.seen = seen])],
           bucket' = bucket, req' = req, nodes' = nodes,
           \A c \in Codes : CommittedVersions(c)' = CommittedVersions(c)
    PROVE  Work(r)'
<1> DEFINE k == call[r]
           i == [Answered(r, step) EXCEPT !.seen = seen]
           j == AfterGet(i)
<1>1. /\ k \in Call /\ Work(r) /\ k.into \in Codes /\ k.from \in Codes /\ req[r].docs \in Bodies
      /\ call \in [Requests -> Call]
  BY CallFacts DEF AtomicInv, DocsInv, TypeOK, StoreTypeOK
<1>2. /\ k.pending \subseteq Gets /\ k.held = {} /\ k.op \in {"patch", "absorb"}
      /\ req[r].method # "POST" /\ (k.op = "patch" <=> Updates(r))
      /\ \A c \in Codes : ~ HasVersion(bucket[c], r)
      /\ \A c \in Scope(r) : bucket[c] = CommittedVersions(c)
  BY GetsAreExclusive
<1>3. req[r].pc = "docs" /\ k.out = "waiting"
  BY <1>2, WaitingAtDocs DEF Rollbacks
<1>4. /\ i \in Call /\ i.pending = k.pending \ {step} /\ i.held = {} /\ i.op = k.op
      /\ i.into = k.into /\ i.from = k.from /\ i.body = k.body /\ i.seen = seen
      /\ i.out = "waiting"
  BY <1>1, <1>2, <1>3 DEF Answered, Call
<1> HIDE DEF i
<1>5. \/ i.op = "patch" /\ i.pending \subseteq {"getInto"}
      \/ i.op = "absorb" /\ i.into # i.from
  <2>1. CallShape(k)
    BY <1>1 DEF Work
  <2> QED
    BY <1>2, <1>4, <2>1, PutIsNoGet DEF CallShape
<1>6. /\ CallShape(j)
      /\ j.op = k.op /\ j.into = k.into /\ j.from = k.from /\ j.seen = seen
      /\ \A get \in Gets : get \in j.pending <=> get \in k.pending \ {step}
      /\ k.op = "patch" => PatchShape(j, k.body)
  BY <1>2, <1>4, <1>5, AfterGetShape
<1> HIDE DEF j
<1>7. call'[r] = j
  BY <1>1 DEF i, j
<1>8. RequestShape(r)'
  BY <1>1, <1>2, <1>6, <1>7 DEF Work, RequestShape, Scope
<1>9. DocsMatch(r)'
  <2>1. k.op = "patch" => k.body = req[r].docs
    BY <1>1, <1>2, <1>3, PutIsNoGet DEF Work, DocsMatch, PatchShape
  <2> QED
    BY <1>1, <1>6, <1>7, <2>1 DEF Work, DocsMatch, Creates, Updates
<1>10. SeenCurrent(r)'
  <2>1. k.into \in Scope(r) /\ k.from \in Scope(r)
    BY <1>1, <1>2 DEF Work, RequestShape
  <2>2. k.pending \cap Gets # {}
    OBVIOUS
  <2>3. "getInto" \in Gets /\ "getFrom" \in Gets
    BY DEF Gets
  <2>4. "getInto" \notin j.pending => seen.into = Read(CommittedVersions(k.into))
    BY <1>1, <1>2, <1>3, <1>6, <2>1, <2>3 DEF Work, SeenCurrent
  <2>5. k.op = "absorb" /\ "getFrom" \notin j.pending => seen.from = Read(CommittedVersions(k.from))
    BY <1>1, <1>2, <1>3, <1>6, <2>1, <2>3 DEF Work, SeenCurrent
  <2> QED
    BY <1>1, <1>6, <1>7, <2>4, <2>5 DEF SeenCurrent
<1>11. OwnNewest(r)'
  BY <1>2 DEF OwnNewest, HasVersion
<1> QED
  BY <1>6, <1>7, <1>8, <1>9, <1>10, <1>11 DEF Work

LEMMA GetFailsWork ==
    ASSUME Orderly, AtomicInv, NEW r \in Requests, GetFails(r), req' = req, nodes' = nodes
    PROVE  Work(r)'
<1> DEFINE k == call[r]
           j == [k EXCEPT !.pending = {}, !.out = "rejected"]
<1>1. k \in Call /\ Work(r) /\ call \in [Requests -> Call]
  BY CallFacts DEF AtomicInv, DocsInv, TypeOK, StoreTypeOK
<1>2. k.pending \subseteq Gets /\ k.held = {} /\ k.op \in {"patch", "absorb"}
      /\ \A c \in Codes : ~ HasVersion(bucket[c], r)
  BY GetsAreExclusive DEF GetFails
<1>3. call'[r] = j /\ bucket' = bucket
  BY <1>1 DEF GetFails
<1>4. /\ j.pending = {} /\ j.held = {} /\ j.out = "rejected" /\ j.op = k.op
      /\ j.into = k.into /\ j.from = k.from /\ j.body = k.body /\ j.seen = k.seen
  BY <1>1, <1>2 DEF Call
<1> HIDE DEF j
<1>5. RequestShape(r)' /\ CallShape(j)
  BY <1>1, <1>2, <1>3, <1>4 DEF Work, RequestShape, CallShape, Scope
<1>6. DocsMatch(r)'
  BY <1>1, <1>2, <1>3, <1>4, PutIsNoGet DEF Work, DocsMatch, PatchShape, Creates, Updates
<1>7. SeenCurrent(r)' /\ OwnNewest(r)'
  BY <1>2, <1>3, <1>4 DEF SeenCurrent, OwnNewest, HasVersion
<1> QED
  BY <1>3, <1>5, <1>6, <1>7 DEF Work

\* A write that lands is the only version of its call under that key, and the
\* newest version of all.
LEMMA LandedVersion ==
    ASSUME Orderly, AtomicInv, NEW r \in Requests, NEW step \in Writes, step \in call[r].pending,
           NEW code \in Codes, code = IF step = "put" THEN call[r].into ELSE call[r].from,
           NEW body, AddVersion(r, code, body)
    PROVE  /\ \A c \in Codes \ {code} : bucket'[c] = bucket[c]
           /\ \A v \in bucket'[code] : v.id = r =>
                 /\ v.body = body
                 /\ \A w \in bucket'[code] : w.id = r => w = v
                 /\ \A w \in bucket'[code] : w.id # r => w.at < v.at
<1> DEFINE new == Version(r, clock[code] + 1, body)
<1>1. /\ bucket \in [Codes -> SUBSET VersionSet(Ids)]
      /\ \A v \in bucket[code] : v.at \in Nat /\ v.at <= clock[code]
      /\ clock[code] \in Nat
  BY DEF AtomicInv, DocsInv, TypeOK, StoreTypeOK, VersionSet
<1>2. new.id = r /\ new.at = clock[code] + 1 /\ new.body = body
  BY DEF Version
<1>3. bucket' = [bucket EXCEPT ![code] = @ \union {new}]
  BY DEF AddVersion
<1> HIDE DEF new
<1>4. bucket'[code] = bucket[code] \union {new} /\ \A c \in Codes \ {code} : bucket'[c] = bucket[c]
  BY <1>1, <1>3
<1>5. ASSUME NEW v \in bucket[code], v.id = r PROVE FALSE
  <2>1. step \notin Drops
    BY PutIsNoGet
  <2>2. call[r].op \notin Rollbacks /\ Work(r) /\ DocsPhase(call[r])
    BY <2>1, CallFacts DEF CallPhase
  <2>3. req[r].pc = "docs"
    BY <2>2, WaitingAtDocs
  <2>4. OwnVersion(r, code, v) /\ CallShape(call[r])
    BY <1>5, <2>2, <2>3 DEF Work, OwnNewest
  <2>5. step \notin call[r].held
    BY <2>2, <2>4 DEF CallShape
  <2>6. call[r].op \in {"post", "patch", "delete", "absorb"}
    BY <2>2, <2>3, WaitingAtDocs, CallFacts DEF Call, Ops, Rollbacks
  <2> QED
    BY <2>4, <2>5, <2>6 DEF OwnVersion, CallShape, Writes
<1>6. \A w \in bucket[code] : w.at < new.at
  BY <1>1, <1>2
<1> QED
  BY <1>2, <1>4, <1>5, <1>6

LEMMA AfterWriteShape ==
    ASSUME NEW k \in Call, k.op \notin Rollbacks
    PROVE  LET j == AfterWrite(k)
           IN  /\ j.into = k.into /\ j.from = k.from
               /\ \/ /\ j.op = k.op /\ j.pending = k.pending /\ j.held = k.held
                     /\ j.body = k.body /\ j.seen = k.seen
                     /\ j.out # k.out => j.out = "fulfilled"
                  \/ k.op = "absorb" /\ j.op = "revert"
<1>1. CASE k.pending # {} \/ k.out # "waiting"
  BY <1>1 DEF AfterWrite
<1>2. CASE ~ (k.pending # {} \/ k.out # "waiting")
  BY <1>2 DEF AfterWrite, Unwind, Call
<1> QED
  BY <1>1, <1>2

LEMMA LandsWork ==
    ASSUME Orderly, AtomicInv, NEW r \in Requests, NEW step \in Writes,
           step \in call[r].pending, NEW code \in Codes, NEW body,
           IF step = "put" THEN code = call[r].into /\ body = call[r].body
                           ELSE code = call[r].from /\ body = DeleteMarker,
           AddVersion(r, code, body),
           call' = [call EXCEPT ![r] = AfterWrite([Answered(r, step) EXCEPT !.held = @ \union {step}])],
           req' = req, nodes' = nodes,
           \A c \in Codes : CommittedVersions(c)' = CommittedVersions(c)
    PROVE  Work(r)'
<1> DEFINE k == call[r]
           i == [Answered(r, step) EXCEPT !.held = @ \union {step}]
           j == AfterWrite(i)
<1>1. /\ k \in Call /\ Work(r) /\ DocsPhase(k) /\ CallPhase(k) /\ k.into \in Codes /\ k.from \in Codes
      /\ call \in [Requests -> Call]
  BY CallFacts DEF AtomicInv, DocsInv, TypeOK, StoreTypeOK
<1>2. step \notin Gets /\ step \notin Drops
  BY PutIsNoGet DEF Writes
<1>3. k.op \notin Rollbacks /\ k.pending \cap Gets = {}
  BY <1>1, <1>2 DEF CallPhase, DocsPhase
<1>4. req[r].pc = "docs" /\ k.out = "waiting" /\ k.op # "none" /\ ~ Acknowledged(r)
  BY <1>3, WaitingAtDocs
<1>5. /\ i \in Call /\ i.pending = k.pending \ {step} /\ i.held = k.held \union {step}
      /\ i.op = k.op /\ i.body = k.body /\ i.into = k.into /\ i.from = k.from
      /\ i.out = k.out /\ i.seen = k.seen
  BY <1>1 DEF Answered, Call
<1> HIDE DEF i
<1>6. /\ j.into = k.into /\ j.from = k.from
      /\ \/ /\ j.op = k.op /\ j.pending = k.pending \ {step} /\ j.held = k.held \union {step}
            /\ j.body = k.body /\ j.seen = k.seen
            /\ j.out \in {"waiting", "fulfilled"}
         \/ k.op = "absorb" /\ j.op = "revert"
  BY <1>3, <1>4, <1>5, AfterWriteShape
<1> HIDE DEF j
<1>7. call'[r] = j
  BY <1>1 DEF i, j
<1>8. RequestShape(r)'
  BY <1>1, <1>4, <1>6, <1>7 DEF Work, RequestShape, Scope
<1>9. CASE k.op = "absorb" /\ j.op = "revert"
  <2>1. CallShape(j)
    BY <1>9 DEF CallShape, Rollbacks
  <2>2. DocsMatch(r)'
    BY <1>1, <1>4, <1>7, <1>9 DEF Work, DocsMatch, Creates, Updates
  <2>3. SeenCurrent(r)' /\ OwnNewest(r)'
    BY <1>7, <1>9 DEF SeenCurrent, OwnNewest, Rollbacks
  <2> QED
    BY <1>7, <1>8, <2>1, <2>2, <2>3 DEF Work
<1>10. CASE /\ j.op = k.op /\ j.pending = k.pending \ {step} /\ j.held = k.held \union {step}
            /\ j.body = k.body /\ j.seen = k.seen
            /\ j.out \in {"waiting", "fulfilled"}
  <2>1. j.pending \union j.held = k.pending \union k.held
    BY <1>10
  <2>2. AbsorbNeedsPut(j) <=> AbsorbNeedsPut(k)
    BY <1>10 DEF AbsorbNeedsPut
  <2>3. CallShape(j)
    <3>1. CallShape(k)
      BY <1>1 DEF Work
    <3>2. k.op = "delete" => step = "mark"
      BY <3>1 DEF CallShape
    <3>3. j.op = "delete" => "mark" \in j.held
      BY <1>10, <3>2
    <3> QED
      BY <1>3, <1>4, <1>6, <1>10, <2>1, <2>2, <3>1, <3>3 DEF CallShape
  <2>4. DocsMatch(r)'
    <3>1. k.op = "patch" => step = "put"
      BY <1>1, <1>2 DEF Work, CallShape, Gets
    <3>2. \A docs : k.op = "patch" /\ PatchShape(k, docs) => PatchShape(j, docs)
      BY <1>10, <2>1, <3>1 DEF PatchShape
    <3> QED
      BY <1>1, <1>7, <1>10, <3>2 DEF Work, DocsMatch, Creates, Updates
  <2>5. SeenCurrent(r)'
    BY <1>1, <1>2, <1>3, <1>4, <1>6, <1>7, <1>10 DEF Work, SeenCurrent, Gets
  <2>6. OwnNewest(r)'
    <3> SUFFICES ASSUME NEW c \in Codes, NEW v \in bucket'[c], v.id = r
                 PROVE  OwnVersion(r, c, v)'
      BY DEF OwnNewest
    <3>1. /\ \A d \in Codes \ {code} : bucket'[d] = bucket[d]
          /\ \A u \in bucket'[code] : u.id = r =>
                /\ u.body = body
                /\ \A w \in bucket'[code] : w.id = r => w = u
                /\ \A w \in bucket'[code] : w.id # r => w.at < u.at
      BY LandedVersion
    <3>2. CASE c = code
      <4>1. \A w \in CommittedVersions(c)' : w \in bucket'[c] /\ w.id # r
        BY <1>4, OriginAssumption DEF CommittedVersions, Acknowledged
      <4>2. \A w \in CommittedVersions(c)' : w.at < v.at
        BY <3>1, <3>2, <4>1
      <4>3. \/ "put" \in j.held /\ c = j.into /\ v.body = j.body
            \/ "mark" \in j.held /\ c = j.from /\ v.body = DeleteMarker
        BY <1>6, <1>10, <3>1, <3>2 DEF Writes
      <4> QED
        BY <1>7, <3>1, <3>2, <4>2, <4>3 DEF OwnVersion
    <3>3. CASE c # code
      <4>1. OwnVersion(r, c, v)
        BY <1>1, <1>3, <1>4, <3>1, <3>3 DEF Work, OwnNewest
      <4> QED
        BY <1>6, <1>7, <1>10, <3>1, <3>3, <4>1 DEF OwnVersion
    <3> QED
      BY <3>2, <3>3
  <2> QED
    BY <1>7, <1>8, <2>3, <2>4, <2>5, <2>6 DEF Work
<1> QED
  BY <1>6, <1>9, <1>10

LEMMA DropsWork ==
    ASSUME Orderly, AtomicInv, NEW r \in Requests, NEW drop \in Drops, DropLands(r, drop),
           req' = req, nodes' = nodes
    PROVE  Work(r)'
<1> DEFINE k == call[r]
           i == Answered(r, drop)
           j == AfterDrop(i)
<1>1. k \in Call /\ Work(r) /\ CallPhase(k) /\ call \in [Requests -> Call] /\ RequestPhase(r)
  BY CallFacts DEF AtomicInv, DocsInv, TypeOK, StoreTypeOK
<1>2. k.op \in Rollbacks
  BY <1>1 DEF DropLands, CallPhase
<1>3. i \in Call /\ i.op = k.op /\ i.into = k.into /\ i.from = k.from
  BY <1>1 DEF Answered, Call
<1>4. call'[r] = j
  BY <1>1 DEF DropLands
<1> HIDE DEF i
<1>5. j.op = k.op /\ j.into = k.into /\ j.from = k.from
  BY <1>3 DEF AfterDrop, Call
<1> HIDE DEF j
<1>6. RequestShape(r)' /\ CallShape(j)
  BY <1>1, <1>2, <1>4, <1>5 DEF Work, RequestShape, CallShape, Scope, Rollbacks
<1>7. DocsMatch(r)'
  BY <1>1, <1>2, <1>4, <1>5 DEF Work, DocsMatch, Creates, Updates, Rollbacks
<1>8. SeenCurrent(r)' /\ OwnNewest(r)'
  BY <1>2, <1>4, <1>5 DEF SeenCurrent, OwnNewest, Rollbacks
<1> QED
  BY <1>4, <1>6, <1>7, <1>8 DEF Work

LEMMA StoreStepOwn ==
    ASSUME Orderly, AtomicInv, NEW r \in Requests, StoreAnswers(r)
    PROVE  /\ OnlyOwnVersions(r)
           /\ ~ (PutFails(r) \/ MarkFails(r) \/ \E drop \in Drops : DropFails(r, drop))
<1>1. StoreTypeOK /\ call[r].into \in Codes /\ call[r].from \in Codes
  BY CallFacts DEF AtomicInv, DocsInv, TypeOK
<1>2. ~ (PutFails(r) \/ MarkFails(r) \/ \E drop \in Drops : DropFails(r, drop))
  BY OrderlyFaults DEF PutFails, MarkFails, DropFails
<1>3. CASE GetInto(r) \/ GetFrom(r) \/ GetFails(r)
  BY <1>2, <1>3, UnchangedOwn DEF GetInto, GetFrom, GetFails
<1>4. CASE PutLands(r) \/ MarkLands(r)
  BY <1>1, <1>2, <1>4, AddVersionOwn DEF PutLands, MarkLands
<1>5. ASSUME NEW drop \in Drops, DropLands(r, drop) PROVE OnlyOwnVersions(r)
  BY <1>1, <1>5, EraseVersionOwn DEF DropLands, DroppedKey
<1> QED
  BY <1>2, <1>3, <1>4, <1>5 DEF StoreAnswers

LEMMA StoreStepWork ==
    ASSUME Orderly, AtomicInv, NEW r \in Requests, StoreStep(r)
    PROVE  NothingShows(r)
<1> DEFINE k == call[r]
<1>1. /\ StoreAnswers(r) /\ req' = req /\ nodes' = nodes /\ StoreTypeOK
      /\ bucket \in [Codes -> SUBSET VersionSet(Ids)]
  BY DEF StoreStep, handlerVars, AtomicInv, DocsInv, TypeOK, StoreTypeOK
<1>2. /\ k \in Call /\ k.into \in Codes /\ k.from \in Codes /\ CallPhase(k) /\ RequestPhase(r)
      /\ k.seen \in [into : Bodies, from : Bodies]
      /\ \A c \in Codes : Read(bucket[c]) \in Bodies
  BY <1>1, CallFacts, ReadType DEF Call
<1>3. k.pending # {} /\ OthersStay(r)
  BY <1>1, <1>2, StoreAnswersOp DEF OthersStay, AtomicInv, DocsInv
<1>4. ~ Acknowledged(r) /\ ~ Acknowledged(r)'
  BY <1>1, <1>3, AcknowledgedIdle DEF AtomicInv, Acknowledged
<1>5. /\ \A c \in Codes : CommittedVersions(c)' = CommittedVersions(c)
      /\ \A q \in Requests \ {r} : Work(q)'
      /\ NoCommittedOrphan'
  BY <1>1, <1>3, <1>4, StoreStepOwn, SilentStep
<1>6. Exclusive'
  <2>1. Busy(r)' => Busy(r)
    BY <1>1, <1>3 DEF Busy, Settled
  <2> QED
    BY <1>1, <1>3, <2>1, ExclusiveStays DEF AtomicInv
<1>7. Work(r)'
  <2>1. CASE GetInto(r)
    <3> DEFINE seen == [k.seen EXCEPT !.into = Read(bucket[k.into])]
    <3>1. /\ seen \in [into : Bodies, from : Bodies]
          /\ seen.into = Read(bucket[k.into]) /\ seen.from = k.seen.from
      BY <1>2
    <3>2. call' = [call EXCEPT ![r] = AfterGet([Answered(r, "getInto") EXCEPT !.seen = seen])]
      BY <1>2, <2>1 DEF GetInto, Answered, Call
    <3>3. "getInto" \in Gets /\ "getInto" \in k.pending /\ bucket' = bucket
      BY <2>1 DEF GetInto, Gets
    <3> HIDE DEF seen
    <3> QED
      BY <1>1, <1>5, <3>1, <3>2, <3>3, GetsWork
  <2>2. CASE GetFrom(r)
    <3> DEFINE seen == [k.seen EXCEPT !.from = Read(bucket[k.from])]
    <3>1. /\ seen \in [into : Bodies, from : Bodies]
          /\ seen.from = Read(bucket[k.from]) /\ seen.into = k.seen.into
      BY <1>2
    <3>2. call' = [call EXCEPT ![r] = AfterGet([Answered(r, "getFrom") EXCEPT !.seen = seen])]
      BY <1>2, <2>2 DEF GetFrom, Answered, Call
    <3>3. "getFrom" \in Gets /\ "getFrom" \in k.pending /\ bucket' = bucket
      BY <2>2 DEF GetFrom, Gets
    <3> HIDE DEF seen
    <3> QED
      BY <1>1, <1>5, <3>1, <3>2, <3>3, GetsWork
  <2>3. CASE GetFails(r)
    BY <1>1, <2>3, GetFailsWork
  <2>4. CASE PutLands(r)
    BY <1>1, <1>2, <1>5, <2>4, LandsWork DEF PutLands, Writes
  <2>5. CASE MarkLands(r)
    BY <1>1, <1>2, <1>5, <2>5, LandsWork DEF MarkLands, Writes
  <2>6. ASSUME NEW drop \in Drops, DropLands(r, drop) PROVE Work(r)'
    BY <1>1, <2>6, DropsWork
  <2> QED
    BY <1>1, <2>1, <2>2, <2>3, <2>4, <2>5, <2>6, StoreStepOwn DEF StoreAnswers
<1> QED
  BY <1>3, <1>4, <1>5, <1>6, <1>7 DEF NothingShows

-----------------------------------------------------------------------------
(* Steps of a handler before its query. *)

\* The request as a client sends it, whatever has become of it since.
Asks(k) ==
    /\ IF k.method = "ABSORB" THEN k.other # k.code ELSE k.other = k.code
    /\ k.method # "none"
    /\ "late" \notin k.flags
    /\ k.docs \in Drafts \union {EmptyBody}

LEMMA ConcludeAsks ==
    ASSUME NEW k, RequestOK(k), Asks(k), NEW pc \in Pcs, NEW status \in Success \union Failures
    PROVE  LET j == Conclude(k, pc, status)
           IN  /\ Asks(j) /\ j.pc = pc /\ j.status = status
               /\ j.code = k.code /\ j.other = k.other /\ j.method = k.method
<1> DEFINE j == Conclude(k, pc, status)
<1>1. j.pc = pc /\ j.status = status
  BY ConcludeType
<1>2. j.method = k.method /\ j.code = k.code /\ j.docs = k.docs /\ j.flags = k.flags /\ j.other = k.other
  BY DEF Conclude, RequestOK, Request
<1> HIDE DEF j
<1> QED
  BY <1>1, <1>2 DEF Asks, j

LEMMA AsksShape ==
    ASSUME NEW r \in Requests, Asks(req'[r]), req'[r].pc # "crashed", call'[r].op = "none", call'[r].held = {}
    PROVE  RequestShape(r)' /\ CallShape(call[r])'
BY DEF Asks, RequestShape, CallShape, Rollbacks

\* A handler that has not yet called the store has nothing in the bucket.
LEMMA FreshStep ==
    ASSUME Orderly, AtomicInv, NEW r \in Requests, OthersStay(r), nodes' = nodes,
           UNCHANGED <<bucket, clock>>,
           req[r].pc \in {"idle", "preflight"}, ~ Acknowledged(r)',
           RequestShape(r)', CallShape(call[r])', DocsMatch(r)',
           call'[r].op \in {"patch", "absorb"} => "getInto" \in call'[r].pending,
           call'[r].op = "absorb" => "getFrom" \in call'[r].pending
    PROVE  /\ \A c \in Codes : CommittedVersions(c)' = CommittedVersions(c)
           /\ \A q \in Requests : Work(q)'
           /\ NoCommittedOrphan'
<1>1. RequestPhase(r) /\ DocsPhase(call[r]) /\ Accounted(r)
  BY CallFacts
<1>2. \A c \in Codes : ~ HasVersion(bucket[c], r)
  BY <1>1 DEF RequestPhase, DocsPhase, Accounted, Left, Rollbacks
<1>3. ~ Acknowledged(r)
  BY DEF Acknowledged
<1>4. /\ \A c \in Codes : CommittedVersions(c)' = CommittedVersions(c)
      /\ \A q \in Requests \ {r} : Work(q)'
      /\ NoCommittedOrphan'
  BY <1>3, UnchangedOwn, SilentStep
<1>5. SeenCurrent(r)' /\ OwnNewest(r)'
  BY <1>2 DEF SeenCurrent, OwnNewest, HasVersion
<1> QED
  BY <1>4, <1>5 DEF Work

LEMMA BeginCreateWork ==
    ASSUME Orderly, AtomicInv, NEW r \in Requests, NEW k, RequestOK(k), Asks(k),
           k.method \in {"POST", "PATCH"}, k.pc = "preflight", req[r].pc \in {"idle", "preflight"},
           BeginCreate(r, k), nodes' = nodes
    PROVE  /\ \A c \in Codes : CommittedVersions(c)' = CommittedVersions(c)
           /\ \A q \in Requests : Work(q)'
           /\ NoCommittedOrphan' /\ ~ Acknowledged(r)'
           /\ OthersStay(r) /\ req'[r].code = k.code /\ req'[r].other = k.other
           /\ req'[r].method = k.method
<1>1. TypeOK /\ call[r].op = "none" /\ call[r].held = {} /\ call \in [Requests -> Call]
  BY CallFacts DEF RequestPhase, DocsPhase, AtomicInv, DocsInv, TypeOK, StoreTypeOK
<1>2. CASE r \notin MayCreate
  <2> DEFINE j == Conclude(k, "end", 400)
  <2>1. 400 \in Success \union Failures /\ 400 \notin Success /\ "end" \in Pcs
    BY DEF Success, Failures, Pcs
  <2>2. /\ Asks(j) /\ j.pc = "end" /\ j.status = 400
        /\ j.code = k.code /\ j.other = k.other /\ j.method = k.method
    BY <2>1, ConcludeAsks
  <2> HIDE DEF j
  <2>3. OthersStay(r) /\ req'[r] = j /\ call'[r] = call[r] /\ UNCHANGED <<bucket, clock>>
    BY <1>1, <1>2, BecomeAlone DEF BeginCreate, storeVars, j
  <2>4. RequestShape(r)' /\ CallShape(call[r])' /\ DocsMatch(r)' /\ ~ Acknowledged(r)'
    BY <1>1, <2>1, <2>2, <2>3, AsksShape DEF DocsMatch, Acknowledged
  <2> QED
    BY <1>1, <2>2, <2>3, <2>4, FreshStep
<1>3. CASE r \in MayCreate
  <2> DEFINE j == [k EXCEPT !.pc = "docs", !.flags = @ \union {"create"}]
             i == NewCall("post", k.code, k.code, k.docs, {"put"})
  <2>1. /\ j.pc = "docs" /\ j.flags = k.flags \union {"create"}
        /\ j.code = k.code /\ j.other = k.other /\ j.method = k.method /\ j.docs = k.docs
    BY DEF RequestOK, Request
  <2>2. i.op = "post" /\ i.into = k.code /\ i.from = k.code /\ i.pending = {"put"} /\ i.held = {}
    BY DEF NewCall
  <2> HIDE DEF j, i
  <2>3. Become(r, j) /\ IF k.docs = EmptyBody THEN UNCHANGED storeVars ELSE Start(r, i)
    BY <1>3 DEF BeginCreate, Post, i, j
  <2>4. /\ OthersStay(r) /\ req'[r] = j /\ UNCHANGED <<bucket, clock>>
        /\ call'[r] = IF k.docs = EmptyBody THEN call[r] ELSE i
    BY <1>1, <2>3, BecomeAlone DEF storeVars, Start
  <2>5. Asks(j)
    BY <2>1 DEF Asks
  <2>6. CASE k.docs = EmptyBody
    <3>1. RequestShape(r)' /\ CallShape(call[r])'
      BY <1>1, <2>1, <2>4, <2>5, <2>6, AsksShape
    <3>2. DocsMatch(r)' /\ ~ Acknowledged(r)'
      BY <1>1, <2>1, <2>4, <2>6 DEF DocsMatch, Acknowledged, Creates, Updates
    <3> QED
      BY <1>1, <2>1, <2>4, <2>6, <3>1, <3>2, FreshStep
  <2>7. CASE k.docs # EmptyBody
    <3>1. RequestShape(r)'
      BY <2>1, <2>2, <2>4, <2>5, <2>7 DEF RequestShape, Asks, Scope
    <3>2. CallShape(call[r])'
      BY <2>2, <2>4, <2>7 DEF CallShape
    <3>3. DocsMatch(r)' /\ ~ Acknowledged(r)'
      BY <2>1, <2>2, <2>4, <2>7 DEF DocsMatch, Acknowledged, Creates, Updates
    <3> QED
      BY <2>1, <2>2, <2>4, <2>7, <3>1, <3>2, <3>3, FreshStep
  <2> QED
    BY <2>6, <2>7
<1> QED
  BY <1>2, <1>3

\* A request arrives only when MayRun lets it.
LEMMA ExclusiveArrives ==
    ASSUME Orderly, Exclusive, NEW r \in Requests, OthersStay(r), NEW method, NEW codes,
           MayRun(method, codes), Scope(r)' = codes, req'[r].method = method
    PROVE  Exclusive'
<1>1. \A q \in Requests \ {r} :
          /\ Busy(q)' <=> Busy(q)
          /\ Scope(q)' = Scope(q)
          /\ req'[q].method = req[q].method
  BY DEF OthersStay, Busy, Settled, Scope
<1>2. \A q \in Requests : Busy(q) /\ Scope(q) \cap codes # {} => method = "POST" /\ req[q].method = "POST"
  BY DEF MayRun, Orderly, Scope
<1> QED
  BY <1>1, <1>2 DEF Exclusive

LEMMA ArrivesWork ==
    ASSUME Orderly, AtomicInv, NEW r \in Requests, Arrives(r)
    PROVE  NothingShows(r)
<1>1. req[r].pc = "idle" /\ nodes' = nodes
  BY DEF Arrives, ArrivePost, ArrivePatch, ArriveDelete, ArriveAbsorb
<1>2. TypeOK /\ call[r].op = "none" /\ call[r].held = {} /\ Exclusive
  BY <1>1, CallFacts DEF RequestPhase, DocsPhase, AtomicInv, DocsInv
<1>3. ASSUME NEW method \in Methods, NEW code \in Codes, NEW other \in Codes,
             NEW docs \in Drafts \union {EmptyBody}, NEW flags \in SUBSET {"edits"},
             IF method = "ABSORB" THEN other # code ELSE other = code
      PROVE  LET k == NewRequest(method, code, other, docs, flags)
             IN  /\ RequestOK(k) /\ Asks(k) /\ k.pc = "preflight" /\ k.status = 0
                 /\ k.code = code /\ k.other = other /\ k.method = method
  <2> DEFINE k == NewRequest(method, code, other, docs, flags)
  <2>1. RequestOK(k) /\ k.pc = "preflight" /\ k.status = 0
    BY NewRequestType, DraftType
  <2>2. k.method = method /\ k.code = code /\ k.other = other /\ k.docs = docs /\ k.flags = flags
    BY DEF NewRequest
  <2> HIDE DEF k
  <2>3. method # "none"
    BY DEF Methods
  <2> QED
    BY <1>3, <2>1, <2>2, <2>3 DEF Asks, k
<1>4. "POST" \in Methods /\ "PATCH" \in Methods /\ "DELETE" \in Methods /\ "ABSORB" \in Methods
  BY DEF Methods
<1>0. EmptyBody \in Drafts \union {EmptyBody} /\ {} \in SUBSET {"edits"}
  OBVIOUS
<1>5. CASE ArrivePost(r)
  <2>1. PICK code \in Codes, docs \in Drafts \union {EmptyBody} :
            MayRun("POST", {code}) /\ BeginCreate(r, NewRequest("POST", code, code, docs, {}))
    BY <1>5 DEF ArrivePost
  <2> DEFINE k == NewRequest("POST", code, code, docs, {})
  <2>2. /\ RequestOK(k) /\ Asks(k) /\ k.pc = "preflight"
        /\ k.code = code /\ k.other = code /\ k.method = "POST"
    BY <1>3, <1>4
  <2> HIDE DEF k
  <2>3. /\ \A c \in Codes : CommittedVersions(c)' = CommittedVersions(c)
        /\ \A q \in Requests : Work(q)'
        /\ NoCommittedOrphan' /\ ~ Acknowledged(r)'
        /\ OthersStay(r) /\ req'[r].code = code /\ req'[r].other = code /\ req'[r].method = "POST"
    BY <1>1, <2>1, <2>2, BeginCreateWork DEF k
  <2>4. Scope(r)' = {code}
    BY <2>3 DEF Scope
  <2> QED
    BY <1>2, <2>1, <2>3, <2>4, ExclusiveArrives DEF NothingShows
<1>6. ASSUME NEW k, RequestOK(k), Asks(k), k.pc = "preflight", Become(r, k), UNCHANGED storeVars,
             MayRun(k.method, {k.code, k.other})
      PROVE  NothingShows(r)
  <2>1. OthersStay(r) /\ req'[r] = k /\ call' = call /\ UNCHANGED <<bucket, clock>>
    BY <1>2, <1>6, BecomeAlone DEF storeVars
  <2>2. RequestShape(r)' /\ CallShape(call[r])'
    BY <1>2, <1>6, <2>1, AsksShape
  <2>3. DocsMatch(r)' /\ ~ Acknowledged(r)'
    BY <1>6, <2>1 DEF DocsMatch, Acknowledged
  <2>4. Scope(r)' = {k.code, k.other}
    BY <2>1 DEF Scope
  <2> QED
    BY <1>1, <1>2, <1>6, <2>1, <2>2, <2>3, <2>4, FreshStep, ExclusiveArrives DEF NothingShows
<1>7. CASE ArrivePatch(r)
  <2>1. PICK code \in Codes, docs \in Drafts \union {EmptyBody}, flags \in SUBSET {"edits"} :
            MayRun("PATCH", {code}) /\ Become(r, NewRequest("PATCH", code, code, docs, flags))
    BY <1>7 DEF ArrivePatch
  <2> DEFINE k == NewRequest("PATCH", code, code, docs, flags)
  <2>0. docs \in Drafts \union {EmptyBody} /\ flags \in SUBSET {"edits"} /\ "PATCH" # "ABSORB"
    OBVIOUS
  <2>2. /\ RequestOK(k) /\ Asks(k) /\ k.pc = "preflight"
        /\ k.code = code /\ k.other = code /\ k.method = "PATCH"
    BY <1>3, <1>4, <2>0
  <2> HIDE DEF k
  <2> QED
    BY <1>6, <1>7, <2>1, <2>2 DEF ArrivePatch, k
<1>8. CASE ArriveDelete(r)
  <2>1. PICK code \in Codes :
            MayRun("DELETE", {code}) /\ Become(r, NewRequest("DELETE", code, code, EmptyBody, {}))
    BY <1>8 DEF ArriveDelete
  <2> DEFINE k == NewRequest("DELETE", code, code, EmptyBody, {})
  <2>2. /\ RequestOK(k) /\ Asks(k) /\ k.pc = "preflight"
        /\ k.code = code /\ k.other = code /\ k.method = "DELETE"
    BY <1>0, <1>3, <1>4
  <2> HIDE DEF k
  <2> QED
    BY <1>6, <1>8, <2>1, <2>2 DEF ArriveDelete, k
<1>9. CASE ArriveAbsorb(r)
  <2>1. PICK code \in Codes, other \in Codes :
            /\ code # other
            /\ MayRun("ABSORB", {code, other})
            /\ Become(r, NewRequest("ABSORB", code, other, EmptyBody, {}))
    BY <1>9 DEF ArriveAbsorb
  <2> DEFINE k == NewRequest("ABSORB", code, other, EmptyBody, {})
  <2>2. /\ RequestOK(k) /\ Asks(k) /\ k.pc = "preflight"
        /\ k.code = code /\ k.other = other /\ k.method = "ABSORB"
    BY <1>0, <1>3, <1>4, <2>1
  <2> HIDE DEF k
  <2> QED
    BY <1>6, <1>9, <2>1, <2>2 DEF ArriveAbsorb, k
<1> QED
  BY <1>5, <1>7, <1>8, <1>9 DEF Arrives

LEMMA RequestAsks ==
    ASSUME Orderly, AtomicInv, NEW r \in Requests, req[r].pc # "idle"
    PROVE  Asks(req[r]) /\ RequestOK(req[r]) /\ TypeOK /\ call \in [Requests -> Call]
<1>1. RequestOK(req[r]) /\ TypeOK /\ call \in [Requests -> Call]
  BY TypeSplit DEF AtomicInv, DocsInv, RequestsOK, TypeOK, StoreTypeOK
<1>2. Work(r)
  BY DEF AtomicInv
<1> QED
  BY <1>1, <1>2 DEF Work, RequestShape, Asks

\* A handler that answers with an error, and undoes its call if it has made one.
LEMMA GivesUp ==
    ASSUME Orderly, AtomicInv, NEW r \in Requests, OthersStay(r), nodes' = nodes,
           UNCHANGED <<bucket, clock>>,
           req[r].pc \in {"preflight", "docs", "undo"}, req'[r].pc \in {"undo", "end"},
           Asks(req'[r]), req'[r].status \notin Success,
           req'[r].code = req[r].code, req'[r].other = req[r].other, req'[r].method = req[r].method,
           \/ call'[r] = call[r]
           \/ call[r].op # "none" /\ call'[r] = Unwind(call[r], "undo", "fulfilled")
    PROVE  NothingShows(r)
<1>1. call[r] \in Call /\ Work(r)
  BY CallFacts
<1>2. /\ call'[r].into = call[r].into /\ call'[r].from = call[r].from
      /\ call'[r] = call[r] \/ (call[r].op # "none" /\ call'[r].op = "undo")
  BY <1>1 DEF Unwind, Call
<1>3. ~ Acknowledged(r) /\ ~ Acknowledged(r)'
  BY DEF Acknowledged
<1>4. /\ \A c \in Codes : CommittedVersions(c)' = CommittedVersions(c)
      /\ \A q \in Requests \ {r} : Work(q)'
      /\ NoCommittedOrphan'
  BY <1>3, UnchangedOwn, SilentStep
<1>5. Exclusive'
  BY ExclusiveStays DEF AtomicInv, Busy
<1>6. RequestShape(r)'
  BY <1>1, <1>2 DEF Work, RequestShape, Asks, Scope
<1>7. CallShape(call[r])'
  BY <1>1, <1>2 DEF Work, CallShape, Rollbacks, AbsorbNeedsPut
<1>8. DocsMatch(r)' /\ SeenCurrent(r)' /\ OwnNewest(r)'
  BY DEF DocsMatch, SeenCurrent, OwnNewest
<1> QED
  BY <1>3, <1>4, <1>5, <1>6, <1>7, <1>8 DEF Work, NothingShows

LEMMA RefuseWork ==
    ASSUME Orderly, AtomicInv, NEW r \in Requests, NEW status \in Failures, Answer(r, status),
           req[r].pc \in {"preflight", "docs", "undo"}, UNCHANGED storeVars, nodes' = nodes
    PROVE  NothingShows(r)
<1> DEFINE j == Conclude(req[r], "end", status)
<1>1. Asks(req[r]) /\ RequestOK(req[r]) /\ TypeOK
  BY RequestAsks
<1>2. status \in Success \union Failures /\ status \notin Success /\ "end" \in Pcs
  BY FailureNotSuccess DEF Pcs
<1>3. /\ Asks(j) /\ j.pc = "end" /\ j.status = status
      /\ j.code = req[r].code /\ j.other = req[r].other /\ j.method = req[r].method
  BY <1>1, <1>2, ConcludeAsks
<1> HIDE DEF j
<1>4. OthersStay(r) /\ req'[r] = j /\ call' = call /\ UNCHANGED <<bucket, clock>>
  BY <1>1, BecomeAlone DEF Answer, storeVars, j
<1> QED
  BY <1>2, <1>3, <1>4, GivesUp

LEMMA FailWork ==
    ASSUME Orderly, AtomicInv, NEW r \in Requests, NEW status \in Failures, Fail(r, status),
           req[r].pc = "docs", nodes' = nodes
    PROVE  NothingShows(r)
<1> DEFINE pc == IF req[r].method = "ABSORB" \/ call[r].op = "none" THEN "end" ELSE "undo"
           j == Conclude(req[r], pc, status)
           i == Unwind(call[r], "undo", "fulfilled")
<1>1. Asks(req[r]) /\ RequestOK(req[r]) /\ TypeOK /\ call \in [Requests -> Call]
  BY RequestAsks
<1>2. status \in Success \union Failures /\ status \notin Success /\ pc \in Pcs
  BY FailureNotSuccess DEF Pcs
<1>3. /\ Asks(j) /\ j.pc = pc /\ j.status = status
      /\ j.code = req[r].code /\ j.other = req[r].other /\ j.method = req[r].method
  BY <1>1, <1>2, ConcludeAsks
<1>4. pc \in {"undo", "end"}
  OBVIOUS
<1>5. /\ Become(r, j)
      /\ IF call[r].op = "none" THEN UNCHANGED storeVars ELSE Start(r, i)
  BY DEF Fail, FailWith, Undo
<1> HIDE DEF j, i, pc
<1>6. OthersStay(r) /\ req'[r] = j /\ UNCHANGED <<bucket, clock>>
  BY <1>1, <1>5, BecomeAlone DEF storeVars, Start
<1>7. call'[r] = call[r] \/ (call[r].op # "none" /\ call'[r] = i)
  BY <1>1, <1>5 DEF storeVars, Start
<1> QED
  BY <1>2, <1>3, <1>4, <1>6, <1>7, GivesUp DEF i

\* A handler that has read what it needs and goes on to its query.
LEMMA CallsWork ==
    ASSUME Orderly, AtomicInv, NEW r \in Requests, NEW k, Become(r, k), nodes' = nodes,
           req[r].pc = "preflight", k.pc \in {"preflight", "docs"}, Asks(k),
           k.code = req[r].code, k.other = req[r].other, k.method = req[r].method,
           NEW i, Start(r, i) \/ (UNCHANGED storeVars /\ i = call[r]),
           i.held = {},
           i.op # "none" => /\ i.op \in {"patch", "delete", "absorb"}
                            /\ {i.into, i.from} \subseteq {k.code, k.other}
                            /\ k.method = "ABSORB" => i.into = k.code /\ i.from = k.other,
           i.op = "patch" => i.pending = {"getInto"} /\ i.body = k.docs /\ i.out = "waiting",
           i.op = "delete" => i.pending = {"mark"} /\ i.out = "waiting",
           i.op = "absorb" => i.pending = Gets /\ k.method = "ABSORB",
           k.pc = "docs" =>
              /\ "create" \notin k.flags /\ k.method # "POST"
              /\ k.method # "ABSORB" => k.code \in nodes
              /\ k.method = "PATCH" => i.op = IF k.docs = EmptyBody THEN "none" ELSE "patch"
              /\ k.method = "DELETE" => i.op = "delete"
              /\ k.method = "ABSORB" => i.op = "absorb"
    PROVE  NothingShows(r)
<1>1. TypeOK /\ call \in [Requests -> Call] /\ call[r].op = "none" /\ call[r].held = {}
  BY CallFacts DEF RequestPhase, DocsPhase, AtomicInv, DocsInv, TypeOK, StoreTypeOK
<1>2. OthersStay(r) /\ req'[r] = k /\ call'[r] = i /\ UNCHANGED <<bucket, clock>>
  BY <1>1, BecomeAlone DEF storeVars, Start
<1>3. Exclusive'
  BY <1>2, ExclusiveStays DEF AtomicInv, Busy
<1>4. RequestShape(r)'
  BY <1>2 DEF RequestShape, Asks, Scope
<1>5. CallShape(i)
  <2>1. CASE i.op = "none"
    BY <1>1, <2>1 DEF CallShape, Rollbacks
  <2>2. CASE i.op = "patch"
    BY <2>2 DEF CallShape
  <2>3. CASE i.op = "delete"
    BY <2>3 DEF CallShape
  <2>4. CASE i.op = "absorb"
    BY <2>4 DEF CallShape, Gets, Asks
  <2> QED
    BY <2>1, <2>2, <2>3, <2>4
<1>6. DocsMatch(r)'
  <2> SUFFICES ASSUME k.pc = "docs" PROVE DocsMatch(r)'
    BY <1>2 DEF DocsMatch
  <2>1. i.op = "patch" => PatchShape(i, k.docs)
    BY DEF PatchShape
  <2> QED
    BY <1>2, <2>1 DEF DocsMatch, Creates, Updates
<1>7. i.op \in {"patch", "absorb"} => "getInto" \in i.pending
  BY DEF Gets
<1>8. i.op = "absorb" => "getFrom" \in i.pending
  BY DEF Gets
<1>9. ~ Acknowledged(r)'
  BY <1>2 DEF Acknowledged
<1> QED
  BY <1>2, <1>3, <1>4, <1>5, <1>6, <1>7, <1>8, <1>9, FreshStep DEF NothingShows

LEMMA PreflightWork ==
    ASSUME Orderly, AtomicInv, NEW r \in Requests,
           PatchPreflight(r) \/ DeletePreflight(r) \/ \E c \in Codes : FetchNode(r, c)
    PROVE  NothingShows(r)
<1>1. req[r].pc = "preflight" /\ nodes' = nodes
  BY DEF PatchPreflight, DeletePreflight, FetchNode
<1>2. /\ Asks(req[r]) /\ RequestOK(req[r]) /\ req[r] \in Request
      /\ call[r].op = "none" /\ call[r].held = {} /\ "create" \notin req[r].flags
      /\ req[r].code \in Codes /\ req[r].other \in Codes
  BY <1>1, CallFacts, RequestAsks DEF RequestPhase, DocsPhase, Creates
<1>3. {400, 404, 409, 500} = Failures
  BY DEF Failures
<1>4. ASSUME req[r].method # "ABSORB", req[r].method # "POST", req[r].code \in nodes
      PROVE  LET k == [req[r] EXCEPT !.pc = "docs"]
             IN  /\ Asks(k) /\ k.pc = "docs" /\ k.code = req[r].code /\ k.other = req[r].other
                 /\ k.method = req[r].method /\ k.docs = req[r].docs /\ "create" \notin k.flags
  <2> DEFINE k == [req[r] EXCEPT !.pc = "docs"]
  <2>1. /\ k.pc = "docs" /\ k.code = req[r].code /\ k.other = req[r].other
        /\ k.method = req[r].method /\ k.docs = req[r].docs /\ k.flags = req[r].flags
    BY <1>2 DEF Request
  <2> HIDE DEF k
  <2> QED
    BY <1>2, <2>1 DEF Asks, k
<1>5. CASE PatchPreflight(r)
  <2>1. CASE req[r].code \notin nodes
    <3>1. BeginCreate(r, req[r]) /\ req[r].method \in {"POST", "PATCH"}
      BY <1>5, <2>1 DEF PatchPreflight
    <3>2. /\ \A c \in Codes : CommittedVersions(c)' = CommittedVersions(c)
          /\ \A q \in Requests : Work(q)'
          /\ NoCommittedOrphan' /\ ~ Acknowledged(r)'
          /\ OthersStay(r) /\ req'[r].code = req[r].code /\ req'[r].other = req[r].other
          /\ req'[r].method = req[r].method
      BY <1>1, <1>2, <3>1, BeginCreateWork
    <3>3. Exclusive'
      BY <1>1, <3>2, ExclusiveStays DEF AtomicInv, Busy
    <3> QED
      BY <3>2, <3>3 DEF NothingShows
  <2>2. CASE req[r].code \in nodes
    <3> DEFINE k == [req[r] EXCEPT !.pc = "docs"]
               i == NewCall("patch", req[r].code, req[r].code, req[r].docs, {"getInto"})
    <3>1. req[r].method = "PATCH"
      BY <1>5 DEF PatchPreflight
    <3>2. /\ Asks(k) /\ k.pc = "docs" /\ k.code = req[r].code /\ k.other = req[r].other
          /\ k.method = "PATCH" /\ k.docs = req[r].docs /\ "create" \notin k.flags
      BY <1>4, <2>2, <3>1
    <3>3. /\ i.op = "patch" /\ i.into = req[r].code /\ i.from = req[r].code
          /\ i.pending = {"getInto"} /\ i.held = {} /\ i.body = req[r].docs /\ i.out = "waiting"
      BY DEF NewCall
    <3>4. Become(r, k) /\ IF req[r].docs = EmptyBody THEN UNCHANGED storeVars ELSE Start(r, i)
      BY <1>5, <2>2 DEF PatchPreflight, Patch
    <3> HIDE DEF k, i
    <3>5. CASE req[r].docs = EmptyBody
      BY <1>1, <1>2, <2>2, <3>1, <3>2, <3>4, <3>5, CallsWork
    <3>6. CASE req[r].docs # EmptyBody
      BY <1>1, <1>2, <2>2, <3>1, <3>2, <3>3, <3>4, <3>6, CallsWork
    <3> QED
      BY <3>5, <3>6
  <2> QED
    BY <2>1, <2>2
<1>6. CASE DeletePreflight(r)
  <2>1. CASE req[r].code \in nodes \ linked
    <3> DEFINE k == [req[r] EXCEPT !.pc = "docs"]
               i == NewCall("delete", req[r].code, req[r].code, EmptyBody, {"mark"})
    <3>1. req[r].method = "DELETE"
      BY <1>6 DEF DeletePreflight
    <3>2. /\ Asks(k) /\ k.pc = "docs" /\ k.code = req[r].code /\ k.other = req[r].other
          /\ k.method = "DELETE" /\ "create" \notin k.flags
      BY <1>4, <2>1, <3>1
    <3>3. /\ i.op = "delete" /\ i.into = req[r].code /\ i.from = req[r].code
          /\ i.pending = {"mark"} /\ i.held = {} /\ i.out = "waiting"
      BY DEF NewCall
    <3>4. Become(r, k) /\ Start(r, i)
      BY <1>6, <2>1 DEF DeletePreflight, Delete
    <3> HIDE DEF k, i
    <3> QED
      BY <1>1, <2>1, <3>1, <3>2, <3>3, <3>4, CallsWork
  <2>2. CASE req[r].code \notin nodes \ linked
    <3>1. PICK status \in Failures : Answer(r, status) /\ UNCHANGED storeVars
      BY <1>3, <1>6, <2>2 DEF DeletePreflight
    <3> QED
      BY <1>1, <3>1, RefuseWork
  <2> QED
    BY <2>1, <2>2
<1>7. ASSUME NEW c \in Codes, FetchNode(r, c)
      PROVE  NothingShows(r)
  <2>1. CASE c \notin nodes
    <3>1. Answer(r, 404) /\ UNCHANGED storeVars
      BY <1>7, <2>1 DEF FetchNode
    <3>2. 404 \in Failures
      BY <1>3
    <3> QED
      BY <1>1, <3>1, <3>2, RefuseWork
  <2>2. CASE c \in nodes /\ req[r].fetched = {}
    <3> DEFINE k == [req[r] EXCEPT !.fetched = {c}]
    <3>1. /\ k.pc = "preflight" /\ k.code = req[r].code /\ k.other = req[r].other
          /\ k.method = req[r].method /\ k.docs = req[r].docs /\ k.flags = req[r].flags
      BY <1>1, <1>2 DEF Request
    <3>2. Become(r, k) /\ UNCHANGED storeVars
      BY <1>7, <2>2 DEF FetchNode
    <3> HIDE DEF k
    <3>3. Asks(k)
      BY <1>2, <3>1 DEF Asks
    <3> QED
      BY <1>1, <1>2, <3>1, <3>2, <3>3, CallsWork
  <2>3. CASE c \in nodes /\ req[r].fetched # {}
    <3> DEFINE k == [req[r] EXCEPT !.fetched = @ \union {c}, !.pc = "docs"]
               i == NewCall("absorb", req[r].code, req[r].other, EmptyBody, Gets)
    <3>1. /\ k.pc = "docs" /\ k.code = req[r].code /\ k.other = req[r].other
          /\ k.method = req[r].method /\ k.docs = req[r].docs /\ k.flags = req[r].flags
      BY <1>2 DEF Request
    <3>2. /\ i.op = "absorb" /\ i.into = req[r].code /\ i.from = req[r].other
          /\ i.pending = Gets /\ i.held = {}
      BY DEF NewCall
    <3>3. Become(r, k) /\ Start(r, i) /\ req[r].method = "ABSORB"
      BY <1>7, <2>3 DEF FetchNode, Absorb
    <3> HIDE DEF k, i
    <3>4. Asks(k)
      BY <1>2, <3>1 DEF Asks
    <3> QED
      BY <1>1, <1>2, <3>1, <3>2, <3>3, <3>4, CallsWork
  <2> QED
    BY <2>1, <2>2, <2>3
<1> QED
  BY <1>5, <1>6, <1>7

LEMMA HandlerStepWork ==
    ASSUME Orderly, AtomicInv, NEW r \in Requests, HandlerStep(r), ~ Commit(r), ~ PatchDocsOnly(r)
    PROVE  NothingShows(r) /\ nodes' = nodes /\ req[r].pc # "end"
<1>1. {400, 404, 409, 500} = Failures
  BY DEF Failures
<1>2. ~ QueryTimesOut(r) /\ ~ ListenerThrows(r)
  BY OrderlyFaults DEF QueryTimesOut, ListenerThrows
<1>3. CASE PatchPreflight(r) \/ DeletePreflight(r) \/ \E c \in Codes : FetchNode(r, c)
  BY <1>3, PreflightWork DEF PatchPreflight, DeletePreflight, FetchNode
<1>4. CASE PreflightFails(r) \/ DocsRejected(r)
  BY <1>1, <1>4, RefuseWork DEF PreflightFails, DocsRejected
<1>5. CASE QueryRefused(r) \/ QueryFails(r)
  <2>1. PICK status \in Failures : Fail(r, status) /\ req[r].pc = "docs" /\ nodes' = nodes
    BY <1>1, <1>5 DEF QueryRefused, QueryFails, DocsWritten
  <2> QED
    BY <2>1, FailWork
<1>6. CASE UndoAnswered(r)
  <2> DEFINE status == IF call[r].out = "rejected" THEN 500 ELSE req[r].status
  <2>1. Answer(r, status) /\ UNCHANGED storeVars /\ req[r].pc = "undo" /\ nodes' = nodes
    BY <1>6 DEF UndoAnswered
  <2>2. RequestPhase(r) /\ RequestOK(req[r])
    BY <2>1, CallFacts, RequestAsks
  <2>3. status \in Failures
    BY <1>1, <2>1, <2>2 DEF RequestPhase, RequestOK, Request, Statuses, Success, Failures
  <2> HIDE DEF status
  <2> QED
    BY <2>1, <2>3, RefuseWork
<1> QED
  BY <1>2, <1>3, <1>4, <1>5, <1>6 DEF HandlerStep

-----------------------------------------------------------------------------
(* What a request does to its records when it is acknowledged. *)

Own(r, c) == {v \in bucket[c] : v.id = r}

\* What a read will return once r is acknowledged.
NewDocs(r, c) == Read(CommittedVersions(c) \union Own(r, c))

LEMMA WrittenFacts ==
    ASSUME Orderly, AtomicInv, NEW r \in Requests, DocsWritten(r)
    PROVE  /\ call[r].op \notin Rollbacks /\ call[r].pending = {}
           /\ call[r].out = IF call[r].op = "none" THEN "none" ELSE "fulfilled"
           /\ call[r].op \in {"none", "post", "patch", "delete", "absorb"}
           /\ ~ Acknowledged(r) /\ Busy(r)
           /\ \A c \in Codes : \A v \in Own(r, c) : OwnVersion(r, c, v)
<1>1. /\ call[r] \in Call /\ CallPhase(call[r]) /\ HandlerPhase(r) /\ Work(r)
      /\ call[r].out = "fulfilled" => call[r].pending = {}
  BY CallFacts
<1>2. call[r].op \notin Rollbacks /\ call[r].pending = {}
  BY <1>1 DEF DocsWritten, HandlerPhase, CallPhase, Rollbacks
<1>3. call[r].out = IF call[r].op = "none" THEN "none" ELSE "fulfilled"
  BY <1>1 DEF DocsWritten, CallPhase
<1>4. call[r].op \in {"none", "post", "patch", "delete", "absorb"}
  BY <1>1, <1>2 DEF Call, Ops, Rollbacks
<1>5. ~ Acknowledged(r) /\ Busy(r)
  BY DEF DocsWritten, Acknowledged, Busy
<1>6. \A c \in Codes : \A v \in Own(r, c) : OwnVersion(r, c, v)
  BY <1>1, <1>2 DEF DocsWritten, Work, OwnNewest, Own
<1> QED
  BY <1>2, <1>3, <1>4, <1>5, <1>6

\* Where r has written nothing, a read returns what it did.
LEMMA OwnNothing ==
    ASSUME Orderly, AtomicInv, NEW r \in Requests, DocsWritten(r), NEW c \in Codes,
           ~ ("put" \in call[r].held /\ c = call[r].into),
           ~ ("mark" \in call[r].held /\ c = call[r].from)
    PROVE  Own(r, c) = {} /\ NewDocs(r, c) = Read(CommittedVersions(c))
<1>1. Own(r, c) = {}
  BY WrittenFacts DEF OwnVersion
<1>2. CommittedVersions(c) \union {} = CommittedVersions(c)
  OBVIOUS
<1> QED
  BY <1>1, <1>2 DEF NewDocs

\* Where it has, a read will return that.
LEMMA OwnRead ==
    ASSUME Orderly, AtomicInv, NEW r \in Requests, DocsWritten(r), NEW c \in Codes,
           NEW v \in Own(r, c), req[r].method = "POST" => c \notin nodes
    PROVE  NewDocs(r, c) = IF v.body = DeleteMarker THEN EmptyBody ELSE v.body
<1> DEFINE versions == CommittedVersions(c) \union Own(r, c)
<1>1. OwnVersion(r, c, v)
  BY WrittenFacts
<1>2. versions \in SUBSET VersionSet(Ids)
  BY CommittedType DEF Own, AtomicInv, DocsInv, TypeOK, StoreTypeOK
<1>3. v \in versions
  OBVIOUS
<1>4. \A w \in versions \ {v} : w.at < v.at
  BY <1>1 DEF OwnVersion, Own
<1> HIDE DEF versions
<1>5. Read(versions) = IF v.body = DeleteMarker THEN EmptyBody ELSE v.body
  BY <1>2, <1>3, <1>4, ReadNewest
<1> QED
  BY <1>5 DEF NewDocs, versions

LEMMA UploadRead ==
    ASSUME Orderly, AtomicInv, NEW r \in Requests, DocsWritten(r), "put" \in call[r].held,
           req[r].method = "POST" => call[r].into \notin nodes
    PROVE  NewDocs(r, call[r].into) = call[r].body
<1>1. call[r] \in Call /\ call[r].into \in Codes /\ DocsStand(r) /\ call[r].op \notin Rollbacks
  BY CallFacts, WrittenFacts
<1>2. PICK v \in bucket[call[r].into] : v.id = r /\ v.body = call[r].body
  BY <1>1 DEF DocsStand, HasBody
<1>3. v.body # DeleteMarker
  BY <1>1, <1>2, MarkerAssumption DEF Call
<1> QED
  BY <1>1, <1>2, <1>3, OwnRead DEF Own

LEMMA MarkRead ==
    ASSUME Orderly, AtomicInv, NEW r \in Requests, DocsWritten(r), "mark" \in call[r].held,
           req[r].method # "POST", call[r].op \in {"delete", "absorb"}
    PROVE  NewDocs(r, call[r].from) = EmptyBody
<1>1. call[r] \in Call /\ call[r].from \in Codes /\ HeldStands(r) /\ call[r].op \notin Rollbacks /\ Work(r)
  BY CallFacts, WrittenFacts
<1>2. PICK v \in bucket[call[r].from] : v.id = r
  BY <1>1 DEF HeldStands, WroteVersion
<1>3. OwnVersion(r, call[r].from, v)
  BY <1>1, <1>2, WrittenFacts DEF Own
<1>4. v.body = DeleteMarker
  BY <1>1, <1>3 DEF OwnVersion, Work, CallShape
<1> QED
  BY <1>1, <1>2, <1>4, OwnRead DEF Own

\* The documents of a record after each of the four handlers.
LEMMA CreateDocs ==
    ASSUME Orderly, AtomicInv, NEW r \in Requests, DocsWritten(r), Creates(r), req[r].code \notin nodes
    PROVE  NewDocs(r, req[r].code) = req[r].docs
<1>1. /\ Work(r) /\ RequestPhase(r) /\ DocsPhase(call[r]) /\ req[r].code \in Codes
      /\ call[r].out = IF call[r].op = "none" THEN "none" ELSE "fulfilled"
  BY CallFacts, WrittenFacts
<1>2. CASE req[r].docs = EmptyBody
  <2>1. call[r].op = "none" /\ call[r].held = {}
    BY <1>1, <1>2 DEF DocsWritten, Work, DocsMatch, DocsPhase
  <2>2. NewDocs(r, req[r].code) = Read(CommittedVersions(req[r].code))
    BY <1>1, <2>1, OwnNothing
  <2> QED
    BY <1>1, <1>2, <2>2 DEF AtomicInv, NoCommittedOrphan
<1>3. CASE req[r].docs # EmptyBody
  <2>1. call[r].op = "post" /\ call[r].into = req[r].code /\ call[r].body = req[r].docs
    BY <1>1, <1>3 DEF DocsWritten, RequestPhase, CreatePhase
  <2>2. "put" \in call[r].held
    BY <1>1, <2>1, OrderlyFaults DEF DocsPhase
  <2> QED
    BY <2>1, <2>2, UploadRead
<1> QED
  BY <1>2, <1>3

LEMMA UpdateDocs ==
    ASSUME Orderly, AtomicInv, NEW r \in Requests, DocsWritten(r), Updates(r)
    PROVE  /\ req[r].code \in nodes
           /\ NewDocs(r, req[r].code) = Overlay(req[r].docs, Read(CommittedVersions(req[r].code)))
<1> DEFINE k == call[r]
           old == Read(CommittedVersions(req[r].code))
<1>1. /\ Work(r) /\ DocsPhase(k) /\ req[r].code \in Codes /\ req[r].method = "PATCH"
      /\ k.out = IF k.op = "none" THEN "none" ELSE "fulfilled"
      /\ k.pending = {} /\ k \in Call /\ k.op \notin Rollbacks
  BY CallFacts, WrittenFacts DEF Updates
<1>2. old \in Bodies
  BY <1>1, CommittedType DEF AtomicInv, DocsInv, TypeOK
<1>3. /\ req[r].code \in nodes
      /\ k.op = IF req[r].docs = EmptyBody THEN "none" ELSE "patch"
      /\ k.op = "patch" => PatchShape(k, req[r].docs)
  BY <1>1 DEF DocsWritten, Work, DocsMatch
<1>4. CASE req[r].docs = EmptyBody
  <2>1. k.held = {}
    BY <1>1, <1>3, <1>4 DEF DocsPhase
  <2>2. NewDocs(r, req[r].code) = old
    BY <1>1, <2>1, OwnNothing
  <2> QED
    BY <1>2, <1>3, <1>4, <2>2, OverlayEmpty
<1>5. CASE req[r].docs # EmptyBody
  <2>1. k.op = "patch" /\ k.out = "fulfilled" /\ k.into = req[r].code /\ PatchShape(k, req[r].docs)
    BY <1>1, <1>3, <1>5 DEF Work, RequestShape, Scope
  <2>2. k.seen.into = old
    BY <1>1, <2>1 DEF DocsWritten, Work, SeenCurrent
  <2>3. CASE "put" \in k.held
    <3>1. NewDocs(r, req[r].code) = k.body
      BY <1>1, <2>1, <2>3, UploadRead
    <3> QED
      BY <1>3, <2>1, <2>2, <2>3, <3>1 DEF PatchShape
  <2>4. CASE "put" \notin k.held
    <3>1. "mark" \notin k.held
      BY <1>1, <2>1 DEF Work, CallShape
    <3>2. NewDocs(r, req[r].code) = old
      BY <1>1, <2>4, <3>1, OwnNothing
    <3> QED
      BY <1>1, <1>3, <2>1, <2>2, <2>4, <3>2 DEF PatchShape
  <2> QED
    BY <2>3, <2>4
<1> QED
  BY <1>4, <1>5

LEMMA RemoveDocs ==
    ASSUME Orderly, AtomicInv, NEW r \in Requests, DocsWritten(r), req[r].method = "DELETE"
    PROVE  req[r].code \in nodes /\ NewDocs(r, req[r].code) = EmptyBody
<1>1. Work(r) /\ call[r].out = IF call[r].op = "none" THEN "none" ELSE "fulfilled"
  BY CallFacts, WrittenFacts
<1>2. call[r].op = "delete" /\ req[r].code \in nodes
  BY <1>1 DEF DocsWritten, Work, DocsMatch
<1>3. "mark" \in call[r].held /\ call[r].from = req[r].code
  BY <1>1, <1>2 DEF Work, CallShape, RequestShape, Scope
<1> QED
  BY <1>2, <1>3, MarkRead

LEMMA MergeDocs ==
    ASSUME Orderly, AtomicInv, NEW r \in Requests, DocsWritten(r), req[r].method = "ABSORB"
    PROVE  /\ NewDocs(r, req[r].code) = Overlay(Read(CommittedVersions(req[r].code)),
                                                Read(CommittedVersions(req[r].other)))
           /\ NewDocs(r, req[r].other) = EmptyBody
<1> DEFINE k == call[r]
           old == Read(CommittedVersions(req[r].code))
           absorbed == Read(CommittedVersions(req[r].other))
<1>1. /\ Work(r) /\ DocsPhase(k) /\ req[r].code \in Codes /\ req[r].other \in Codes
      /\ k.out = IF k.op = "none" THEN "none" ELSE "fulfilled"
      /\ k.pending = {} /\ k \in Call /\ k.op \notin Rollbacks
  BY CallFacts, WrittenFacts
<1>2. old \in Bodies /\ absorbed \in Bodies
  BY <1>1, CommittedType DEF AtomicInv, DocsInv, TypeOK
<1>3. /\ k.op = "absorb" /\ k.out = "fulfilled"
      /\ k.into = req[r].code /\ k.from = req[r].other /\ req[r].other # req[r].code
  BY <1>1 DEF DocsWritten, Work, DocsMatch, RequestShape, Rollbacks
<1>4. k.seen.into = old /\ k.seen.from = absorbed
  BY <1>1, <1>3 DEF DocsWritten, Work, SeenCurrent
<1>5. IF absorbed = EmptyBody THEN k.held = {}
      ELSE "mark" \in k.held /\ (AbsorbNeedsPut(k) <=> "put" \in k.held)
  BY <1>1, <1>3, <1>4 DEF Work, CallShape
<1>6. CASE absorbed = EmptyBody
  <2>1. NewDocs(r, req[r].code) = old /\ NewDocs(r, req[r].other) = absorbed
    BY <1>1, <1>5, <1>6, OwnNothing
  <2> QED
    BY <1>2, <1>6, <2>1, OverlayEmpty
<1>7. CASE absorbed # EmptyBody
  <2>1. NewDocs(r, req[r].other) = EmptyBody
    BY <1>3, <1>5, <1>7, MarkRead
  <2>2. CASE "put" \in k.held
    <3>1. NewDocs(r, req[r].code) = k.body
      BY <1>3, <2>2, UploadRead
    <3>2. k.body = Overlay(old, absorbed)
      BY <1>1, <1>3, <1>4, <2>2 DEF DocsPhase
    <3> QED
      BY <2>1, <3>1, <3>2
  <2>3. CASE "put" \notin k.held
    <3>1. NewDocs(r, req[r].code) = old
      BY <1>1, <1>3, <2>3, OwnNothing
    <3>2. Missing(absorbed, old) = {}
      BY <1>4, <1>5, <1>7, <2>3 DEF AbsorbNeedsPut
    <3> QED
      BY <1>2, <2>1, <3>1, <3>2, OverlayMissesNothing
  <2> QED
    BY <2>2, <2>3
<1> QED
  BY <1>6, <1>7

\* What the step that acknowledges r does to the records.
Shows(r) ==
    \E c, o \in Codes :
        LET old(d) == Read(CommittedVersions(d))
            new(d) == Read(CommittedVersions(d)')
        IN  /\ c = req[r].code /\ o = req[r].other
            /\ \/ /\ c \notin nodes /\ nodes' = nodes \union {c} /\ o = c
                  /\ new(c) = req[r].docs
               \/ /\ c \in nodes /\ nodes' = nodes /\ o = c
                  /\ new(c) = Overlay(req[r].docs, old(c))
               \/ /\ c \in nodes /\ nodes' = nodes \ {c} /\ o = c
                  /\ new(c) = EmptyBody
                  /\ req[r].method # "POST"
               \/ /\ {c, o} \subseteq nodes /\ nodes' = nodes \ {o} /\ o # c
                  /\ new(c) = Overlay(old(c), old(o)) /\ new(o) = EmptyBody

LEMMA SucceedCommits ==
    ASSUME Orderly, AtomicInv, NEW r \in Requests, DocsWritten(r), NEW status \in Success,
           Answer(r, status), UNCHANGED storeVars
    PROVE  /\ OthersStay(r) /\ ~ Acknowledged(r) /\ Acknowledged(r)' /\ Busy(r)
           /\ call' = call /\ bucket' = bucket
           /\ Asks(req'[r]) /\ req'[r].pc = "end"
           /\ req'[r].code = req[r].code /\ req'[r].other = req[r].other /\ req'[r].method = req[r].method
           /\ \A c \in Codes : /\ Read(CommittedVersions(c)') = NewDocs(r, c)
                               /\ c \notin Scope(r) => CommittedVersions(c)' = CommittedVersions(c)
<1> DEFINE j == Conclude(req[r], "end", status)
<1>1. Asks(req[r]) /\ RequestOK(req[r]) /\ TypeOK
  BY RequestAsks DEF DocsWritten
<1>2. status \in Success \union Failures /\ "end" \in Pcs
  BY DEF Pcs
<1>3. /\ Asks(j) /\ j.pc = "end" /\ j.status = status
      /\ j.code = req[r].code /\ j.other = req[r].other /\ j.method = req[r].method
  BY <1>1, <1>2, ConcludeAsks
<1> HIDE DEF j
<1>4. OthersStay(r) /\ req'[r] = j /\ call' = call /\ bucket' = bucket
  BY <1>1, BecomeAlone DEF Answer, storeVars, j
<1>5. ~ Acknowledged(r) /\ Acknowledged(r)' /\ Busy(r)
  BY <1>3, <1>4, WrittenFacts DEF Acknowledged
<1>6. \A q \in Requests \ {r} : Acknowledged(q)' <=> Acknowledged(q)
  BY <1>4 DEF OthersStay, Acknowledged
<1>7. ASSUME NEW c \in Codes
      PROVE  /\ CommittedVersions(c)' = CommittedVersions(c) \union Own(r, c)
             /\ c \notin Scope(r) => Own(r, c) = {}
  <2>1. ASSUME NEW v PROVE v \in CommittedVersions(c)' <=> v \in CommittedVersions(c) \union Own(r, c)
    BY <1>4, <1>5, <1>6, OriginAssumption DEF CommittedVersions, Own
  <2>2. CommittedVersions(c)' = CommittedVersions(c) \union Own(r, c)
    BY <2>1 DEF CommittedVersions, Own
  <2>3. ASSUME c \notin Scope(r) PROVE Own(r, c) = {}
    <3>1. Work(r) /\ DocsPhase(call[r])
      BY CallFacts
    <3>2. ~ ("put" \in call[r].held /\ c = call[r].into) /\ ~ ("mark" \in call[r].held /\ c = call[r].from)
      BY <2>3, <3>1 DEF Work, RequestShape, DocsPhase
    <3> QED
      BY <3>2, OwnNothing
  <2> QED
    BY <2>2, <2>3
<1>8. ASSUME NEW c \in Codes
      PROVE  /\ Read(CommittedVersions(c)') = NewDocs(r, c)
             /\ c \notin Scope(r) => CommittedVersions(c)' = CommittedVersions(c)
  BY <1>7 DEF NewDocs
<1> QED
  BY <1>3, <1>4, <1>5, <1>8

LEMMA SucceedShows ==
    ASSUME Orderly, AtomicInv, NEW r \in Requests, Commit(r) \/ PatchDocsOnly(r)
    PROVE  /\ OthersStay(r) /\ ~ Acknowledged(r) /\ Acknowledged(r)' /\ Busy(r)
           /\ call' = call /\ bucket' = bucket
           /\ Asks(req'[r]) /\ req'[r].pc = "end" /\ req[r].pc = "docs"
           /\ req'[r].code = req[r].code /\ req'[r].other = req[r].other /\ req'[r].method = req[r].method
           /\ \A c \in Codes : c \notin Scope(r) => CommittedVersions(c)' = CommittedVersions(c)
           /\ Shows(r)
<1>1. PICK status \in Success : DocsWritten(r) /\ Answer(r, status) /\ UNCHANGED storeVars
  BY DEF Commit, PatchDocsOnly, SuccessStatus, Success
<1>2. /\ req[r].code \in Codes /\ req[r].other \in Codes /\ Work(r) /\ RequestPhase(r)
      /\ req[r].pc = "docs"
  BY <1>1, CallFacts DEF DocsWritten
<1>3. \A c \in Codes : Read(CommittedVersions(c)') = NewDocs(r, c)
  BY <1>1, SucceedCommits
<1>4. req[r].method # "ABSORB" => req[r].other = req[r].code
  BY <1>2 DEF Work, RequestShape
<1>5. Creates(r) => req[r].method \in {"POST", "PATCH"}
  BY <1>2 DEF RequestPhase
<1>6. Shows(r)
  <2>1. CASE PatchDocsOnly(r)
    <3>1. Updates(r) /\ nodes' = nodes
      BY <2>1 DEF PatchDocsOnly, NeedsQuery
    <3> QED
      BY <1>1, <1>2, <1>3, <1>4, <3>1, UpdateDocs DEF Shows, Updates
  <2>2. CASE Creates(r) /\ req[r].code \notin nodes /\ nodes' = nodes \union {req[r].code}
    BY <1>1, <1>2, <1>3, <1>4, <1>5, <2>2, CreateDocs DEF Shows
  <2>3. CASE Updates(r) /\ nodes' = nodes \union {req[r].code}
    <3>1. nodes' = nodes
      BY <1>1, <2>3, UpdateDocs
    <3> QED
      BY <1>1, <1>2, <1>3, <1>4, <2>3, <3>1, UpdateDocs DEF Shows, Updates
  <2>4. CASE req[r].method = "DELETE" /\ nodes' = nodes \ {req[r].code}
    BY <1>1, <1>2, <1>3, <1>4, <2>4, RemoveDocs DEF Shows
  <2>5. CASE /\ req[r].method = "ABSORB" /\ {req[r].code, req[r].other} \subseteq nodes
             /\ nodes' = nodes \ {req[r].other}
    <3>1. req[r].other # req[r].code
      BY <1>2, <2>5 DEF Work, RequestShape
    <3> QED
      BY <1>1, <1>2, <1>3, <2>5, <3>1, MergeDocs DEF Shows
  <2> QED
    BY <2>1, <2>2, <2>3, <2>4, <2>5 DEF Commit, QueryEffect
<1> QED
  BY <1>1, <1>2, <1>6, SucceedCommits

LEMMA SucceedWork ==
    ASSUME Orderly, AtomicInv, NEW r \in Requests, Commit(r) \/ PatchDocsOnly(r)
    PROVE  /\ \A q \in Requests : Work(q)'
           /\ Exclusive' /\ NoCommittedOrphan'
<1>1. /\ OthersStay(r) /\ ~ Acknowledged(r) /\ Acknowledged(r)' /\ Busy(r)
      /\ call' = call /\ bucket' = bucket
      /\ Asks(req'[r]) /\ req'[r].pc = "end" /\ req[r].pc = "docs"
      /\ req'[r].code = req[r].code /\ req'[r].other = req[r].other /\ req'[r].method = req[r].method
      /\ \A c \in Codes : c \notin Scope(r) => CommittedVersions(c)' = CommittedVersions(c)
      /\ Shows(r)
  BY SucceedShows
<1>2. Work(r) /\ req[r].code \in Codes /\ req[r].other \in Codes
  BY CallFacts
<1>3. Exclusive'
  BY <1>1, ExclusiveStays DEF AtomicInv
<1>4. \A c \in Codes \ Scope(r) : c \in nodes' <=> c \in nodes
  BY <1>1 DEF Shows, Scope
<1>5. NoCommittedOrphan'
  <2> SUFFICES ASSUME NEW c \in Codes \ nodes' PROVE Read(CommittedVersions(c)') = EmptyBody
    BY DEF NoCommittedOrphan
  <2>1. CASE c \notin Scope(r)
    BY <1>1, <1>4, <2>1 DEF AtomicInv, NoCommittedOrphan
  <2>2. CASE c \in Scope(r)
    BY <1>1, <2>2 DEF Shows, Scope
  <2> QED
    BY <2>1, <2>2
<1>6. Work(r)'
  <2>1. RequestShape(r)' /\ CallShape(call[r])'
    BY <1>1, <1>2 DEF Work, RequestShape, CallShape, AbsorbNeedsPut, Asks, Scope
  <2> QED
    BY <1>1, <2>1 DEF Work, DocsMatch, SeenCurrent, OwnNewest
<1>7. ASSUME NEW q \in Requests \ {r} PROVE Work(q)'
  <2>1. call'[q] = call[q] /\ req'[q] = req[q]
    BY <1>1 DEF OthersStay
  <2>2. Scope(q) \subseteq Codes
    BY CallFacts DEF Scope
  <2>3. CASE req[q].pc = "docs" /\ Scope(q) \cap Scope(r) # {}
    <3>1. req[q].method = "POST" /\ req[r].method = "POST"
      BY <1>1, <2>3 DEF AtomicInv, Exclusive, Busy
    <3>2. Work(q) /\ Work(r)
      BY <1>2, CallFacts
    <3>3. req[q].code = req[r].code
      BY <2>3, <3>1, <3>2 DEF Work, RequestShape, Scope
    <3>4. req[r].other = req[r].code
      BY <3>1, <3>2 DEF Work, RequestShape
    <3>5. req[q].code \in nodes'
      BY <1>1, <3>1, <3>3, <3>4 DEF Shows
    <3> QED
      BY <1>1, <2>1, <3>1, <3>5, WorkStays
  <2>4. CASE ~ (req[q].pc = "docs" /\ Scope(q) \cap Scope(r) # {})
    <3>1. req[q].pc = "docs" => \A c \in Scope(q) : c \in Codes \ Scope(r)
      BY <2>2, <2>4
    <3> QED
      BY <1>1, <1>4, <2>1, <3>1, WorkStays
  <2> QED
    BY <2>3, <2>4
<1> QED
  BY <1>3, <1>5, <1>6, <1>7

-----------------------------------------------------------------------------
(* The invariant, and what follows from it. *)

LEMMA AtomicInvInit == ASSUME Orderly, Init PROVE AtomicInv
<1>1. WritesInv /\ DocsInv /\ TypeOK /\ StoreTypeOK
  BY InitType, InitSafe, DocsInvInit DEF WritesInv, TypeOK
<1>2. \A r \in Requests : call[r] = NoCall /\ req[r] = NoRequest
  BY DEF Init, StoreInit
<1>3. NoCall.op = "none" /\ NoCall.held = {}
  BY DEF NoCall, NewCall
<1>4. /\ NoRequest.pc = "idle" /\ NoRequest.method = "none" /\ NoRequest.flags = {}
      /\ NoRequest.docs = EmptyBody /\ NoRequest.other = NoRequest.code
  BY DEF NoRequest, NewRequest
<1>5. ASSUME NEW r \in Requests PROVE Work(r) /\ ~ Busy(r)
  BY <1>2, <1>3, <1>4 DEF Work, RequestShape, CallShape, DocsMatch, SeenCurrent, OwnNewest, Busy, Rollbacks
<1>6. NoCommittedOrphan
  <2> SUFFICES ASSUME NEW c \in Codes \ nodes PROVE Read(CommittedVersions(c)) = EmptyBody
    BY DEF NoCommittedOrphan
  <2>1. CommittedVersions(c) = {}
    BY DEF Init, CommittedVersions
  <2> QED
    BY <2>1 DEF Read, Newest
<1> QED
  BY <1>1, <1>5, <1>6 DEF AtomicInv, Exclusive

\* A step that changes neither requests nor documents nor which records exist.
LEMMA StutterWork ==
    ASSUME Orderly, AtomicInv, UNCHANGED <<nodes, req, bucket, call>>
    PROVE  /\ \A c \in Codes : CommittedVersions(c)' = CommittedVersions(c)
           /\ \A q \in Requests : Work(q)'
           /\ Exclusive' /\ NoCommittedOrphan'
<1>1. \A c : CommittedVersions(c)' = CommittedVersions(c)
  BY DEF CommittedVersions, Acknowledged
<1>2. Exclusive' /\ NoCommittedOrphan'
  BY <1>1 DEF AtomicInv, Exclusive, Busy, Settled, Scope, NoCommittedOrphan
<1> QED
  BY <1>1, <1>2, WorkStays

\* Every step is one that changes no record, or the one that acknowledges a
\* request.
LEMMA AtomicSteps ==
    ASSUME Orderly, AtomicInv, [Next]_vars
    PROVE  \/ UNCHANGED <<nodes, req, bucket, call>>
           \/ \E r \in Requests :
                 \/ NothingShows(r) /\ nodes' = nodes /\ (req[r].pc # "end" \/ req' = req)
                 \/ Commit(r) \/ PatchDocsOnly(r)
<1>1. ASSUME NEW r \in Requests PROVE ~ LateQueryEnds(r) /\ ~ Crash(r)
  BY OrderlyFaults, CallFacts DEF LateQueryEnds, Crash, Work, RequestShape
<1>2. ASSUME NEW r \in Requests, Arrives(r) PROVE NothingShows(r) /\ nodes' = nodes /\ req[r].pc # "end"
  BY <1>2, ArrivesWork DEF Arrives, ArrivePost, ArrivePatch, ArriveDelete, ArriveAbsorb
<1>3. ASSUME NEW r \in Requests, StoreStep(r) PROVE NothingShows(r) /\ nodes' = nodes /\ req' = req
  BY <1>3, StoreStepWork DEF StoreStep, handlerVars
<1>4. CASE UNCHANGED vars \/ \E c \in Codes : Relate(c)
  BY <1>4 DEF vars, Relate, storeVars
<1> QED
  BY <1>1, <1>2, <1>3, <1>4, HandlerStepWork DEF Next

LEMMA AtomicInvStep == ASSUME Orderly, AtomicInv, [Next]_vars PROVE AtomicInv'
<1>1. WritesInv' /\ DocsInv'
  BY OrderlyFaults, WritesStep, DocsInvStep DEF AtomicInv
<1>2. (\A q \in Requests : Work(q)') /\ Exclusive' /\ NoCommittedOrphan'
  BY AtomicSteps, StutterWork, SucceedWork DEF NothingShows
<1> QED
  BY <1>1, <1>2 DEF AtomicInv

LEMMA AtomicInvariant == ASSUME Orderly PROVE Spec => []AtomicInv
<1>1. Init => AtomicInv
  BY AtomicInvInit
<1>2. AtomicInv /\ [Next]_vars => AtomicInv'
  BY AtomicInvStep
<1> QED
  BY <1>1, <1>2, PTL DEF Spec

\* When nobody works on a record, everything in the bucket has been committed.
LEMMA QuietIsCommitted ==
    ASSUME Orderly, AtomicInv, NEW c \in Codes, Quiet(c) PROVE bucket[c] = CommittedVersions(c)
<1>1. \A v \in bucket[c] : v \in CommittedVersions(c)
  BY UncommittedIsBusy DEF Quiet, Scope
<1> QED
  BY <1>1 DEF CommittedVersions

\* Requests that do not overlap leave no documents without a node when all is
\* quiet, whatever reads of S3 and queries fail.
THEOREM NoOrphansLeft ==
    ASSUME Faults \cap {"put", "mark", "drop", "lost", "crash", "timeout", "listener"} = {},
           \A together \in Overlap : together \subseteq {"POST"}
    PROVE  Spec => []NoOrphanDocuments
<1>1. Orderly
  BY DEF Orderly
<1>2. AtomicInv => NoOrphanDocuments
  BY <1>1, QuietIsCommitted DEF AtomicInv, NoCommittedOrphan, NoOrphanDocuments
<1> QED
  BY <1>1, <1>2, AtomicInvariant, PTL

-----------------------------------------------------------------------------
(* The refinement. *)

\* The variables of AtomicRecords.
Record == [c \in Codes |-> IF c \in nodes THEN Read(CommittedVersions(c)) ELSE NoRecord]
Told == [r \in Requests |->
            IF req[r].pc # "end" THEN "none" ELSE IF Acknowledged(r) THEN "applied" ELSE "refused"]

LEMMA RecordIsBody ==
    ASSUME Orderly, AtomicInv, NEW c \in Codes
    PROVE  /\ Read(CommittedVersions(c)) \in Bodies
           /\ Record[c] = NoRecord <=> c \notin nodes
<1>1. Read(CommittedVersions(c)) \in Bodies
  BY CommittedType DEF AtomicInv, DocsInv, TypeOK
<1> QED
  BY <1>1, NoRecordAssumption DEF Record

LEMMA AtomicInit == ASSUME Orderly, Init PROVE Atomic!Init
<1>1. Record \in [Codes -> Bodies \union {NoRecord}]
  BY AtomicInvInit, RecordIsBody DEF Record
<1>2. Told = [r \in Requests |-> "none"]
  BY DEF Told, Init, NoRequest, NewRequest
<1> QED
  BY <1>1, <1>2 DEF Atomic!Init, Atomic!Bodies, Bodies, Record, Told

\* A step that shows nothing tells at most one request that it is refused.
LEMMA NothingShowsMaps ==
    ASSUME NEW r \in Requests, NothingShows(r), nodes' = nodes, req[r].pc # "end" \/ req' = req
    PROVE  Atomic!Refuse(r) \/ UNCHANGED <<Record, Told>>
<1>1. Record' = Record
  BY DEF NothingShows, Record
<1>2. \A q \in Requests \ {r} : Told'[q] = Told[q]
  BY DEF NothingShows, OthersStay, Told, Acknowledged
<1>3. CASE req' = req
  BY <1>1, <1>3 DEF Told, Acknowledged
<1>4. CASE req[r].pc # "end"
  <2>1. Told[r] = "none" /\ Told'[r] \in {"none", "refused"}
    BY <1>4 DEF Told, NothingShows
  <2>2. CASE Told'[r] = "none"
    <3>1. Told' = Told
      BY <1>2, <2>1, <2>2 DEF Told
    <3> QED
      BY <1>1, <3>1
  <2>3. CASE Told'[r] = "refused"
    <3>1. Told' = [Told EXCEPT ![r] = "refused"]
      BY <1>2, <2>1, <2>3 DEF Told
    <3> QED
      BY <1>1, <2>1, <3>1 DEF Atomic!Refuse, Atomic!Reply, Record, Told
  <2> QED
    BY <2>1, <2>2, <2>3
<1> QED
  BY <1>3, <1>4

\* The step that acknowledges a request applies it.
LEMMA SuccessMaps ==
    ASSUME Orderly, AtomicInv, NEW r \in Requests, Commit(r) \/ PatchDocsOnly(r)
    PROVE  Atomic!Apply(r)
<1>1. /\ OthersStay(r) /\ ~ Acknowledged(r) /\ Acknowledged(r)' /\ req[r].pc = "docs"
      /\ \A c \in Codes : c \notin Scope(r) => CommittedVersions(c)' = CommittedVersions(c)
      /\ Shows(r)
  BY SucceedShows
<1>2. Atomic!Reply(r, "applied")
  <2>1. \A q \in Requests \ {r} : Told'[q] = Told[q]
    BY <1>1 DEF OthersStay, Told, Acknowledged
  <2>2. Told[r] = "none" /\ Told'[r] = "applied"
    BY <1>1 DEF Told, Acknowledged
  <2>3. Told' = [Told EXCEPT ![r] = "applied"]
    BY <2>1, <2>2 DEF Told
  <2> QED
    BY <2>2, <2>3 DEF Atomic!Reply, Told
<1> DEFINE old(d) == Read(CommittedVersions(d))
           new(d) == Read(CommittedVersions(d)')
<1>3. PICK c \in Codes, o \in Codes :
          /\ c = req[r].code /\ o = req[r].other
          /\ \/ /\ c \notin nodes /\ nodes' = nodes \union {c} /\ o = c
                /\ new(c) = req[r].docs
             \/ /\ c \in nodes /\ nodes' = nodes /\ o = c
                /\ new(c) = Overlay(req[r].docs, old(c))
             \/ /\ c \in nodes /\ nodes' = nodes \ {c} /\ o = c
                /\ new(c) = EmptyBody
             \/ /\ {c, o} \subseteq nodes /\ nodes' = nodes \ {o} /\ o # c
                /\ new(c) = Overlay(old(c), old(o)) /\ new(o) = EmptyBody
  BY <1>1 DEF Shows
<1>4. \A d \in Codes \ {c, o} : new(d) = old(d)
  BY <1>1, <1>3 DEF Scope
<1>5. PICK docs \in Drafts \union {Atomic!EmptyBody} : docs = req[r].docs
  BY CallFacts DEF Work, RequestShape, Atomic!EmptyBody, EmptyBody
<1>6. \A d \in Codes : Record[d] = NoRecord <=> d \notin nodes
  BY RecordIsBody
<1>7. \A d \in Codes : /\ Record[d] = IF d \in nodes THEN old(d) ELSE NoRecord
                       /\ Record'[d] = IF d \in nodes' THEN new(d) ELSE NoRecord
  BY DEF Record
<1>8. Atomic!EmptyBody = EmptyBody /\ \A a, b : Atomic!Overlay(a, b) = Overlay(a, b)
  BY DEF Atomic!EmptyBody, EmptyBody, Atomic!Overlay, Overlay
<1>9. Record = [d \in Codes |-> Record[d]] /\ Record' = [d \in Codes |-> Record'[d]]
  BY DEF Record
<1> HIDE DEF old, new
<1>10. CASE c \notin nodes /\ nodes' = nodes \union {c} /\ o = c /\ new(c) = docs
  <2>1. Record' = [Record EXCEPT ![c] = docs]
    BY <1>4, <1>7, <1>9, <1>10
  <2>2. Atomic!Create(c, docs)
    BY <1>6, <1>10, <2>1 DEF Atomic!Create, Record
  <2> QED
    BY <1>2, <1>5, <2>2 DEF Atomic!Apply
<1>11. CASE c \in nodes /\ nodes' = nodes /\ o = c /\ new(c) = Overlay(docs, old(c))
  <2>1. Record' = [Record EXCEPT ![c] = Overlay(docs, @)]
    BY <1>4, <1>7, <1>9, <1>11
  <2>2. Atomic!Update(c, docs)
    BY <1>6, <1>8, <1>11, <2>1 DEF Atomic!Update, Record
  <2> QED
    BY <1>2, <1>5, <2>2 DEF Atomic!Apply
<1>12. CASE c \in nodes /\ nodes' = nodes \ {c} /\ o = c
  <2>1. Record' = [Record EXCEPT ![c] = NoRecord]
    BY <1>4, <1>7, <1>9, <1>12
  <2>2. Atomic!Remove(c)
    BY <1>6, <1>12, <2>1 DEF Atomic!Remove, Record
  <2> QED
    BY <1>2, <2>2 DEF Atomic!Apply
<1>13. CASE /\ {c, o} \subseteq nodes /\ nodes' = nodes \ {o} /\ o # c
            /\ new(c) = Overlay(old(c), old(o))
  <2>1. Record' = [Record EXCEPT ![c] = Overlay(@, Record[o]), ![o] = NoRecord]
    BY <1>4, <1>7, <1>9, <1>13
  <2>2. Atomic!Merge(o, c)
    BY <1>6, <1>8, <1>13, <2>1 DEF Atomic!Merge, Record
  <2> QED
    BY <1>2, <2>2 DEF Atomic!Apply
<1> QED
  BY <1>3, <1>5, <1>10, <1>11, <1>12, <1>13

LEMMA AtomicNext ==
    ASSUME Orderly, AtomicInv, [Next]_vars PROVE [Atomic!Next]_<<Record, Told>>
<1>1. CASE UNCHANGED <<nodes, req, bucket, call>>
  BY <1>1 DEF Record, Told, CommittedVersions, Acknowledged
<1>2. ASSUME NEW r \in Requests, NothingShows(r), nodes' = nodes, req[r].pc # "end" \/ req' = req
      PROVE  [Atomic!Next]_<<Record, Told>>
  BY <1>2, NothingShowsMaps DEF Atomic!Next
<1>3. ASSUME NEW r \in Requests, Commit(r) \/ PatchDocsOnly(r) PROVE Atomic!Next
  BY <1>3, SuccessMaps DEF Atomic!Next
<1> QED
  BY <1>1, <1>2, <1>3, AtomicSteps

\* The handlers implement AtomicRecords: to a client a record and its documents
\* are one thing that a request changes in one step or not at all, although the
\* documents are written before the query and undone after it fails.
THEOREM HandlersAreAtomic ==
    ASSUME Faults \cap {"put", "mark", "drop", "lost", "crash", "timeout", "listener"} = {},
           \A together \in Overlap : together \subseteq {"POST"}
    PROVE  Spec => ImplementsAtomicRecords
<1>1. Orderly
  BY DEF Orderly
<1>2. Init => Atomic!Init
  BY <1>1, AtomicInit
<1>3. AtomicInv /\ [Next]_vars => [Atomic!Next]_(Atomic!vars)
  BY <1>1, AtomicNext DEF Atomic!vars, Record, Told
<1> QED
  BY <1>1, <1>2, <1>3, AtomicInvariant, PTL DEF Spec, ImplementsAtomicRecords, Atomic!Spec
=============================================================================
