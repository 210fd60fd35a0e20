---------------------------- MODULE AtomicRecords ----------------------------
(***************************************************************************)
(* What the write handlers promise a client: a record and its documents    *)
(* are one thing, every request changes it in one step or not at all, and  *)
(* the reply says which.  RecordHandlers implements this when requests on  *)
(* the same record do not overlap; POST requests may overlap.              *)
(***************************************************************************)
CONSTANTS Requests, Codes, DocNames, Texts, NoText, Drafts, NoRecord

Bodies == [DocNames -> Texts \union {NoText}]
EmptyBody == [n \in DocNames |-> NoText]
Overlay(over, under) ==
    [n \in DocNames |-> IF over[n] = NoText THEN under[n] ELSE over[n]]

VARIABLES
    record,  \* the documents of each record, NoRecord if there is none
    reply    \* what each request was told

vars == <<record, reply>>

TypeOK ==
    /\ record \in [Codes -> Bodies \union {NoRecord}]
    /\ reply \in [Requests -> {"none", "applied", "refused"}]

Init ==
    /\ record \in [Codes -> Bodies \union {NoRecord}]
    /\ reply = [r \in Requests |-> "none"]

Reply(r, answer) ==
    /\ reply[r] = "none"
    /\ reply' = [reply EXCEPT ![r] = answer]

Create(c, docs) ==
    /\ record[c] = NoRecord
    /\ record' = [record EXCEPT ![c] = docs]

Update(c, docs) ==
    /\ record[c] # NoRecord
    /\ record' = [record EXCEPT ![c] = Overlay(docs, @)]

Remove(c) ==
    /\ record[c] # NoRecord
    /\ record' = [record EXCEPT ![c] = NoRecord]

Merge(from, into) ==
    /\ from # into
    /\ record[from] # NoRecord
    /\ record[into] # NoRecord
    /\ record' = [record EXCEPT ![into] = Overlay(@, record[from]), ![from] = NoRecord]

Apply(r) ==
    /\ Reply(r, "applied")
    /\ \/ \E c \in Codes, docs \in Drafts \union {EmptyBody} : Create(c, docs) \/ Update(c, docs)
       \/ \E c \in Codes : Remove(c)
       \/ \E from, into \in Codes : Merge(from, into)

Refuse(r) ==
    /\ Reply(r, "refused")
    /\ UNCHANGED record

Next == \E r \in Requests : Apply(r) \/ Refuse(r)

Spec == Init /\ [][Next]_vars
=============================================================================
