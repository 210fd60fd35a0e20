------------------------------ MODULE ApiRequests ------------------------------
(***************************************************************************)
(* tc-api-express and tc-api-db-manager: a request on its way through the  *)
(* middlewares, the controller and the queries of its handler, with the    *)
(* timeout of getApp.                                                      *)
(*                                                                         *)
(* The timeout is given to connect-timeout, which answers a request with   *)
(* 503, and to the connection, which fails a query; neither stops the      *)
(* handler.  Both start timers of the same duration, which expire in the   *)
(* order they were started.  What a handler queries is in the modules of   *)
(* tc-api-rest-handlers; here it is a sequence of kinds of queries.        *)
(***************************************************************************)
EXTENDS RequestContext, Sequences, FiniteSets

CONSTANTS
    Inputs,     \* what clients send
    Timeout,    \* whether getApp has the option timeout
    Faults,     \* "query": Neo4j may fail a query; it may always be silent
    MaxRuns     \* a bound: no transaction is tried again after so many queries

\* client    there is a client-id or client-user-id header
\* body      the body can be parsed
\* allowed   the method is in restMethods
\* queries   what the handler runs: "plain" or "transaction"
Input ==
    [client: BOOLEAN, body: BOOLEAN, allowed: BOOLEAN, queries: Seq({"plain", "transaction"})]

ASSUME InputAssumption == Inputs \subseteq Input /\ Inputs # {} /\ Timeout \in BOOLEAN /\ MaxRuns \in Nat

VARIABLES
    req,        \* the requests
    timers,     \* the timers that are running, in the order they expire
    sessions    \* the sessions that are open

requestVars == <<req, timers, sessions>>
vars == <<requestVars, contextVars>>

\* status   what the client was answered, or 0
\* next     the query that the handler runs or will run
\* runs     how many queries have run, a transaction that is tried again each time
\* "commit", "rollback" and "retry" are waits of a transaction, without a timer.
Waits == {"commit", "rollback", "retry"}
Request ==
    [input: Inputs, pc: {"idle", "parsing", "handler", "query", "end"} \union Waits,
     status: {0, 200, 400, 405, 500, 503}, next: Nat, runs: Nat]

\* run is 0 for the timer of the request.
Timer == [of: Requests, run: Nat]
Session == [of: Requests, query: Nat]

TypeOK ==
    /\ ContextTypeOK
    /\ req \in [Requests -> Request]
    /\ timers \in Seq(Timer)
    /\ sessions \subseteq Session

Handled(r) == req[r].pc \notin {"idle", "end"}

-----------------------------------------------------------------------------
(* Parts of handlers.                                                      *)

RequestTimer(r) == [of |-> r, run |-> 0]
RunTimer(r, run) == [of |-> r, run |-> run]
ThisSession(r) == [of |-> r, query |-> req[r].next]

\* Slips: one of the two timers is missing, or the one of a query expires first.
StartedForQueries(timer) == IF Timeout /\ timer.run > 0 THEN Append(timers, timer) ELSE timers
StartedForRequests(timer) == IF Timeout /\ timer.run = 0 THEN Append(timers, timer) ELSE timers
StartedAhead(timer) == IF Timeout THEN <<timer>> \o timers ELSE timers

\* setTimeout, if there is a timeout.
Started(timer) == IF Timeout THEN Append(timers, timer) ELSE timers

\* The timer of a request is stopped when its answer has been sent.
Without(ts, i) == SubSeq(ts, 1, i - 1) \o SubSeq(ts, i + 1, Len(ts))
TimersOf(ts, r) == {i \in DOMAIN ts : ts[i] = RequestTimer(r)}
Stopped(ts, r) ==
    IF TimersOf(ts, r) = {} THEN ts ELSE Without(ts, CHOOSE i \in TimersOf(ts, r) : TRUE)

\* Only the first answer is sent: the second throws, errorToErrors throws again,
\* and Express gives up.
FirstAnswer(k, status) == IF k.status = 0 THEN status ELSE k.status

Ended(k, status) == [k EXCEPT !.pc = "end", !.status = FirstAnswer(k, status)]

\* The request takes a last step in the controller or before it.
End(r, status) ==
    /\ req' = [req EXCEPT ![r] = Ended(@, status)]
    /\ timers' = Stopped(timers, r)

-----------------------------------------------------------------------------
(* The middlewares.                                                        *)

\* Up to the body parsers all is synchronous.
Arrive(r, input) ==
    /\ req[r].pc = "idle"
    /\ req' = [req EXCEPT ![r] =
                  IF input.client THEN [@ EXCEPT !.input = input, !.pc = "parsing"]
                  ELSE [@ EXCEPT !.input = input, !.pc = "end", !.status = 400]]
    /\ timers' = IF input.client THEN Started(RequestTimer(r)) ELSE timers
    /\ EnterContext(r)
    /\ UNCHANGED sessions

\* bodyParsers, then allowedMethodsMiddleware; a request that has been answered
\* meanwhile is not held back.
Refused(r) ==
    /\ req[r].pc = "parsing"
    /\ ~ (req[r].input.body /\ req[r].input.allowed)
    /\ End(r, IF req[r].input.body THEN 405 ELSE 400)
    /\ UNCHANGED <<sessions, contextVars>>

Control(r) ==
    /\ req[r].pc = "parsing"
    /\ req[r].input.body /\ req[r].input.allowed
    /\ req' = [req EXCEPT ![r].pc = "handler", ![r].next = 1]
    /\ UNCHANGED <<timers, sessions, contextVars>>

-----------------------------------------------------------------------------
(* The queries of a handler.                                               *)

\* runQueryWithMetrics: the race of a query with its timer.  The queries of a
\* transaction run at once, and their timers too.
Runs(k) == [k EXCEPT !.pc = "query", !.runs = @ + 1]
NextTimer(r) == RunTimer(r, req[r].runs + 1)

\* executeQuery and executeQueriesWithTransaction
StartQuery(r) ==
    /\ req[r].pc = "handler"
    /\ req[r].next <= Len(req[r].input.queries)
    /\ req' = [req EXCEPT ![r] = Runs(@)]
    /\ sessions' = sessions \union {ThisSession(r)}
    /\ timers' = Started(NextTimer(r))
    /\ IF live[r] < MaxResources THEN InitResource(r) ELSE UNCHANGED contextVars

InTransaction(r) == req[r].input.queries[req[r].next] = "transaction"

\* The handler goes on with what it does next.
Returns(r) ==
    /\ req' = [req EXCEPT ![r].pc = "handler", ![r].next = @ + 1]
    /\ sessions' = sessions \ {ThisSession(r)}
    /\ UNCHANGED <<timers, contextVars>>

WaitsFor(r, wait) ==
    /\ req' = [req EXCEPT ![r].pc = wait]
    /\ UNCHANGED <<timers, sessions, contextVars>>

QueryAnswers(r) ==
    /\ req[r].pc = "query"
    /\ IF InTransaction(r) THEN WaitsFor(r, "commit") ELSE Returns(r)

\* A slip: the session is closed after the query, but not in a finally block.
LeftOpen(r) == sessions

\* executeQuery closes the session in a finally block; a transaction does not.
ClosedAfterError(r) == IF InTransaction(r) THEN sessions ELSE sessions \ {ThisSession(r)}

\* The error goes up to the controller, which hands it to errorToErrors.
Throws(r) ==
    /\ End(r, 500)
    /\ sessions' = ClosedAfterError(r)
    /\ UNCHANGED contextVars

\* writeTransaction passes the error on after the ROLLBACK, or tries again if it
\* is one of the transient ones.
MayRetry(r) == req[r].runs < MaxRuns

QueryFails(r) ==
    /\ "query" \in Faults
    /\ req[r].pc = "query"
    /\ IF InTransaction(r) THEN WaitsFor(r, "rollback") \/ (MayRetry(r) /\ WaitsFor(r, "retry")) ELSE Throws(r)

Commits(r) ==
    /\ req[r].pc = "commit"
    /\ Returns(r)

CommitFails(r) ==
    /\ "query" \in Faults
    /\ req[r].pc = "commit"
    /\ Throws(r) \/ (MayRetry(r) /\ WaitsFor(r, "retry"))

\* What the ROLLBACK is answered is ignored.
RollsBack(r) ==
    /\ req[r].pc = "rollback"
    /\ Throws(r)

\* After the ROLLBACK and a pause the work of the transaction starts over.
Retries(r) ==
    /\ req[r].pc = "retry"
    /\ req' = [req EXCEPT ![r] = Runs(@)]
    /\ timers' = Started(NextTimer(r))
    /\ UNCHANGED <<sessions, contextVars>>

Succeeds(r) ==
    /\ req[r].pc = "handler"
    /\ req[r].next > Len(req[r].input.queries)
    /\ End(r, 200)
    /\ UNCHANGED <<sessions, contextVars>>

-----------------------------------------------------------------------------
(* Timers.                                                                 *)

Expires(t) == timers # <<>> /\ t = Head(timers)

\* connect-timeout: an error that goes to errorToErrors; the request goes on.
RequestTimesOut(r) ==
    /\ Expires(RequestTimer(r))
    /\ req' = [req EXCEPT ![r].status = 503]
    /\ timers' = Tail(timers)
    /\ UNCHANGED <<sessions, contextVars>>

\* The query that is waited for.
Awaited(t) == req[t.of].pc = "query" /\ req[t.of].runs = t.run

\* The work of a transaction is given up, but its handler waits for the ROLLBACK.
QueryTimesOut(t) ==
    /\ Expires(t)
    /\ t.run > 0
    /\ Awaited(t)
    /\ IF InTransaction(t.of)
       THEN /\ req' = [req EXCEPT ![t.of].pc = "rollback"]
            /\ timers' = Tail(timers)
            /\ UNCHANGED sessions
       ELSE /\ req' = [req EXCEPT ![t.of] = Ended(@, 500)]
            /\ timers' = Stopped(Tail(timers), t.of)
            /\ sessions' = ClosedAfterError(t.of)
    /\ UNCHANGED contextVars

\* The race has been decided; nobody stopped the timer.
TimesOutInVain(t) ==
    /\ Expires(t)
    /\ t.run > 0
    /\ ~ Awaited(t)
    /\ timers' = Tail(timers)
    /\ UNCHANGED <<req, sessions, contextVars>>

-----------------------------------------------------------------------------

Init ==
    /\ req = [r \in Requests |->
                 [input |-> CHOOSE i \in Inputs : TRUE, pc |-> "idle", status |-> 0, next |-> 0, runs |-> 0]]
    /\ timers = <<>>
    /\ sessions = {}
    /\ ContextInit

TimerStep ==
    \/ \E r \in Requests : RequestTimesOut(r)
    \/ timers # <<>> /\ (QueryTimesOut(Head(timers)) \/ TimesOutInVain(Head(timers)))

Run(r) == StartQuery(r) \/ Succeeds(r)

Collect(r) == DestroyResource(r, Handled(r)) /\ UNCHANGED requestVars

Next ==
    \/ \E r \in Requests, i \in Inputs : Arrive(r, i)
    \/ \E r \in Requests :
          \/ Refused(r) \/ Control(r) \/ Run(r)
          \/ QueryAnswers(r) \/ QueryFails(r)
          \/ Commits(r) \/ CommitFails(r) \/ RollsBack(r) \/ Retries(r)
          \/ Collect(r)
    \/ TimerStep

Spec == Init /\ [][Next]_vars

\* Timers expire and the event loop goes on; clients may never send the rest of a
\* body, and Neo4j may never answer.
FairSpec ==
    /\ Spec
    /\ WF_vars(TimerStep)
    /\ \A r \in Requests : WF_vars(Run(r)) /\ WF_vars(Collect(r))

-----------------------------------------------------------------------------
(* Properties.                                                             *)

\* A query never times out before its request: whoever waits for a query that the
\* connection gives up has been answered 503, so no client is told of a query
\* that "took more than" the timeout, and no answer depends on which of the two
\* timers was first.
OuterTimerFirst ==
    timers # <<>> /\ Head(timers).run > 0 /\ Awaited(Head(timers)) =>
        req[Head(timers).of].status = 503

\* Whatever happens to a query outside a transaction, also when it is given up,
\* its session does not outlive it.
PlainSessionsAreClosed ==
    \A s \in sessions :
        req[s.of].input.queries[s.query] = "plain" => req[s.of].pc = "query" /\ req[s.of].next = s.query

\* With a timeout every request is answered, even if its body never arrives or
\* Neo4j never answers.
EveryRequestIsAnswered ==
    \A r \in Requests : req[r].pc # "idle" ~> req[r].status # 0

\* With a timeout no handler is left waiting for a query, and in the end nothing
\* of its request is kept for the logs.  Only the end of a transaction, which has
\* no timer, may keep it.
EveryHandlerEnds ==
    \A r \in Requests :
        req[r].pc \in {"handler", "query"} ~> (req[r].pc = "end" /\ live[r] = 0) \/ req[r].pc \in Waits

=============================================================================
