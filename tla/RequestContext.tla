----------------------------- MODULE RequestContext -----------------------------
(***************************************************************************)
(* tc-api-express-logger: what is logged about a request goes with every   *)
(* asynchronous resource that the request gives rise to (contextStore), and *)
(* can be found by the id of the request (requestIdStore).                 *)
(*                                                                         *)
(* Node calls the hook when a resource starts and when it is destroyed; a  *)
(* promise is destroyed when it is collected, at any time.                 *)
(***************************************************************************)
EXTENDS Integers

CONSTANTS
    Requests,
    Ids,            \* values of the x-request-id header
    IdOf,           \* per request the header its client sends
    MaxResources,   \* a bound on the resources of one request
    Nobody

ASSUME ContextAssumption ==
    /\ IdOf \in [Requests -> Ids]
    /\ MaxResources \in Nat \ {0}
    /\ Nobody \notin Requests

VARIABLES
    live,           \* how many keys of contextStore hold the context of a request
    requestIdStore  \* the request whose context is found by an id

contextVars == <<live, requestIdStore>>

ContextTypeOK ==
    /\ live \in [Requests -> 0..MaxResources]
    /\ requestIdStore \in [Ids -> Requests \union {Nobody}]

ContextInit ==
    /\ live = [r \in Requests |-> 0]
    /\ requestIdStore = [id \in Ids |-> Nobody]

\* The context middleware, then requestId with setContext, with nothing between.
EnterContext(r) ==
    /\ live' = [live EXCEPT ![r] = 1]
    /\ requestIdStore' = [requestIdStore EXCEPT ![IdOf[r]] = r]

\* A resource inherits the context of the one that triggers it.
InitResource(r) ==
    /\ live[r] \in 1..MaxResources - 1
    /\ live' = [live EXCEPT ![r] = @ + 1]
    /\ UNCHANGED requestIdStore

\* A slip: the id is kept.
ContextLeft(r) == UNCHANGED requestIdStore

\* Any resource of a request takes the entry of its id away.
ForgetId(r) == requestIdStore' = [requestIdStore EXCEPT ![IdOf[r]] = Nobody]

\* A slip: the hook counts what has gone already.
DestroyAny(r, handled) == live' = [live EXCEPT ![r] = @ - 1] /\ ForgetId(r)

\* As long as the request is being handled one resource is there.
DestroyResource(r, handled) ==
    /\ live[r] > (IF handled THEN 1 ELSE 0)
    /\ live' = [live EXCEPT ![r] = @ - 1]
    /\ ForgetId(r)

\* The context of a request that has gone is not held by its id: nothing is left
\* of it once its resources are destroyed, also when clients repeat an id.
ContextsAreFreed ==
    \A id \in Ids, r \in Requests : requestIdStore[id] = r => live[r] > 0 /\ id = IdOf[r]

=============================================================================
