--------------------------- MODULE ApiRequestsProofs ---------------------------
(***************************************************************************)
(* Theorems about ApiRequests and RequestContext.  The timers of one       *)
(* request stay in order whatever happens to those of the others; hence a  *)
(* query that expires while it is awaited is that of a request that has    *)
(* been answered by its own timer.                                         *)
(***************************************************************************)
EXTENDS ApiRequests, TLAPS

-----------------------------------------------------------------------------
(* Sequences of timers.                                                    *)

\* The timer of request r runs, and before every timer of one of its queries.
HasTimer(ts, r) == TimersOf(ts, r) # {}
InOrder(ts, r) ==
    \A j \in DOMAIN ts : ts[j].of = r /\ ts[j].run > 0 => \E i \in 1..j - 1 : ts[i] = RequestTimer(r)

LEMMA WithoutProperties ==
    ASSUME NEW ts \in Seq(Timer), NEW k \in DOMAIN ts
    PROVE  /\ Without(ts, k) \in Seq(Timer)
           /\ Len(Without(ts, k)) = Len(ts) - 1
           /\ \A i \in 1..k - 1 : Without(ts, k)[i] = ts[i]
           /\ \A i \in k..Len(ts) - 1 : Without(ts, k)[i] = ts[i + 1]
<1> DEFINE front == SubSeq(ts, 1, k - 1)
           back == SubSeq(ts, k + 1, Len(ts))
<1>1. /\ k \in 1..Len(ts)
      /\ Len(ts) \in Nat
  OBVIOUS
<1>2. /\ front \in Seq(Timer) /\ Len(front) = k - 1
      /\ \A i \in 1..k - 1 : front[i] = ts[i]
  BY <1>1
<1>3. /\ back \in Seq(Timer) /\ Len(back) = Len(ts) - k
      /\ \A i \in 1..Len(ts) - k : back[i] = ts[i + k]
  BY <1>1
<1>4. Without(ts, k) = front \o back
  BY DEF Without
<1> HIDE DEF front, back
<1>5. /\ Without(ts, k) \in Seq(Timer)
      /\ Len(Without(ts, k)) = Len(ts) - 1
  BY <1>1, <1>2, <1>3, <1>4
<1>6. \A i \in 1..k - 1 : Without(ts, k)[i] = ts[i]
  BY <1>1, <1>2, <1>3, <1>4
<1>7. ASSUME NEW i \in k..Len(ts) - 1 PROVE Without(ts, k)[i] = ts[i + 1]
  <2>0. /\ i \in 1..Len(front) + Len(back) /\ i > Len(front)
        /\ Len(front) = k - 1 /\ front \in Seq(Timer) /\ back \in Seq(Timer)
    BY <1>1, <1>2, <1>3
  <2>1. Without(ts, k)[i] = back[i - (k - 1)]
    BY <1>4, <2>0
  <2>2. i - (k - 1) \in 1..Len(ts) - k
    BY <1>1
  <2> QED
    BY <1>1, <1>3, <2>1, <2>2
<1> QED
  BY <1>5, <1>6, <1>7

LEMMA StoppedType ==
    ASSUME NEW ts \in Seq(Timer), NEW r \in Requests
    PROVE  Stopped(ts, r) \in Seq(Timer)
<1>1. CASE TimersOf(ts, r) = {}
  BY <1>1 DEF Stopped
<1>2. CASE TimersOf(ts, r) # {}
  <2>1. (CHOOSE i \in TimersOf(ts, r) : TRUE) \in DOMAIN ts
    BY <1>2 DEF TimersOf
  <2> QED
    BY <1>2, <2>1, WithoutProperties DEF Stopped
<1> QED
  BY <1>1, <1>2

\* A timer that is taken away leaves those of the other requests as they are.
LEMMA WithoutKeepsOrder ==
    ASSUME NEW ts \in Seq(Timer), NEW k \in DOMAIN ts, NEW r \in Requests,
           ts[k] # RequestTimer(r), HasTimer(ts, r), InOrder(ts, r)
    PROVE  HasTimer(Without(ts, k), r) /\ InOrder(Without(ts, k), r)
<1> DEFINE rest == Without(ts, k)
<1>1. /\ rest \in Seq(Timer) /\ Len(rest) = Len(ts) - 1
      /\ \A i \in 1..k - 1 : rest[i] = ts[i]
      /\ \A i \in k..Len(ts) - 1 : rest[i] = ts[i + 1]
      /\ k \in 1..Len(ts) /\ Len(ts) \in Nat
  BY WithoutProperties
<1> HIDE DEF rest
\* where a timer is found afterwards
<1>2. ASSUME NEW i \in 1..Len(ts), ts[i] = RequestTimer(r)
      PROVE  \E h \in 1..Len(rest) : h <= i /\ (i > k => h < i) /\ rest[h] = RequestTimer(r)
  <2>1. CASE i < k
    <3>1. i \in 1..Len(rest) /\ i \in 1..k - 1
      BY <1>1, <2>1
    <3> QED
      BY <1>1, <1>2, <2>1, <3>1
  <2>2. CASE i > k
    <3>1. i - 1 \in 1..Len(rest) /\ i - 1 \in k..Len(ts) - 1 /\ (i - 1) + 1 = i
      BY <1>1, <2>2
    <3>2. rest[i - 1] = RequestTimer(r)
      BY <1>1, <1>2, <3>1
    <3> QED
      BY <1>1, <3>1, <3>2
  <2> QED
    BY <1>1, <1>2, <2>1, <2>2
<1>3. HasTimer(rest, r)
  <2>1. PICK i \in 1..Len(ts) : ts[i] = RequestTimer(r)
    BY DEF HasTimer, TimersOf
  <2> QED
    BY <1>1, <1>2, <2>1 DEF HasTimer, TimersOf
<1>4. ASSUME NEW j \in DOMAIN rest, rest[j].of = r, rest[j].run > 0
      PROVE  \E i \in 1..j - 1 : rest[i] = RequestTimer(r)
  <2>0. j \in 1..Len(rest)
    BY <1>1
  <2>1. CASE j < k
    <3>1. j \in DOMAIN ts /\ ts[j] = rest[j]
      BY <1>1, <2>0, <2>1
    <3>2. PICK i \in 1..j - 1 : ts[i] = RequestTimer(r)
      BY <1>4, <3>1 DEF InOrder
    <3>3. i \in 1..k - 1
      BY <1>1, <2>0, <2>1
    <3> QED
      BY <1>1, <3>2, <3>3
  <2>2. CASE j >= k
    <3>1. j + 1 \in DOMAIN ts /\ ts[j + 1] = rest[j] /\ (j + 1) - 1 = j
      BY <1>1, <2>0, <2>2
    <3>2. PICK i \in 1..j : ts[i] = RequestTimer(r)
      BY <1>4, <3>1 DEF InOrder
    <3>3. i \in 1..Len(ts) /\ i # k
      BY <1>1, <2>0, <3>2
    <3>4. PICK h \in 1..Len(rest) : h <= i /\ (i > k => h < i) /\ rest[h] = RequestTimer(r)
      BY <1>2, <3>2, <3>3
    <3>5. h \in 1..j - 1
      BY <1>1, <2>0, <2>2, <3>2, <3>3, <3>4
    <3> QED
      BY <3>4, <3>5
  <2> QED
    BY <1>1, <2>0, <2>1, <2>2
<1> QED
  BY <1>3, <1>4 DEF InOrder, rest

LEMMA StoppedKeepsOrder ==
    ASSUME NEW ts \in Seq(Timer), NEW r \in Requests, NEW other \in Requests, r # other,
           HasTimer(ts, r), InOrder(ts, r)
    PROVE  HasTimer(Stopped(ts, other), r) /\ InOrder(Stopped(ts, other), r)
<1>1. CASE TimersOf(ts, other) = {}
  BY <1>1 DEF Stopped
<1>2. CASE TimersOf(ts, other) # {}
  <2> DEFINE k == CHOOSE i \in TimersOf(ts, other) : TRUE
  <2>1. k \in DOMAIN ts /\ ts[k] = RequestTimer(other)
    BY <1>2 DEF TimersOf
  <2>2. ts[k] # RequestTimer(r)
    BY <2>1 DEF RequestTimer
  <2>3. Stopped(ts, other) = Without(ts, k)
    BY <1>2 DEF Stopped
  <2> HIDE DEF k
  <2> QED
    BY <2>1, <2>2, <2>3, WithoutKeepsOrder
<1> QED
  BY <1>1, <1>2

\* The first of the timers expires.
LEMMA TailKeepsOrder ==
    ASSUME NEW ts \in Seq(Timer), ts # <<>>, NEW r \in Requests, Head(ts) # RequestTimer(r),
           HasTimer(ts, r), InOrder(ts, r)
    PROVE  HasTimer(Tail(ts), r) /\ InOrder(Tail(ts), r)
<1>1. 1 \in DOMAIN ts /\ ts[1] = Head(ts) /\ Len(ts) \in Nat
  OBVIOUS
<1>2. HasTimer(Without(ts, 1), r) /\ InOrder(Without(ts, 1), r)
  BY <1>1, WithoutKeepsOrder
<1>3. Without(ts, 1) = Tail(ts)
  <2>1. /\ Without(ts, 1) \in Seq(Timer) /\ Len(Without(ts, 1)) = Len(ts) - 1
        /\ \A i \in 1..Len(ts) - 1 : Without(ts, 1)[i] = ts[i + 1]
    BY <1>1, WithoutProperties
  <2>2. /\ Tail(ts) \in Seq(Timer) /\ Len(Tail(ts)) = Len(ts) - 1
        /\ \A i \in 1..Len(ts) - 1 : Tail(ts)[i] = ts[i + 1]
    BY <1>1
  <2> QED
    BY <1>1, <2>1, <2>2
<1> QED
  BY <1>2, <1>3

\* A query of r is started, or another request.
LEMMA StartedKeepsOrder ==
    ASSUME NEW ts \in Seq(Timer), NEW t \in Timer, NEW r \in Requests, HasTimer(ts, r), InOrder(ts, r)
    PROVE  HasTimer(Append(ts, t), r) /\ InOrder(Append(ts, t), r)
<1> DEFINE more == Append(ts, t)
<1>1. /\ more \in Seq(Timer) /\ Len(more) = Len(ts) + 1 /\ Len(ts) \in Nat
      /\ more[Len(ts) + 1] = t
      /\ \A i \in 1..Len(ts) : more[i] = ts[i]
  OBVIOUS
<1> HIDE DEF more
<1>2. PICK i \in 1..Len(ts) : ts[i] = RequestTimer(r)
  BY DEF HasTimer, TimersOf
<1>3. HasTimer(more, r)
  BY <1>1, <1>2 DEF HasTimer, TimersOf
<1>4. ASSUME NEW j \in DOMAIN more, more[j].of = r, more[j].run > 0
      PROVE  \E h \in 1..j - 1 : more[h] = RequestTimer(r)
  <2>0. j \in 1..Len(ts) \/ j = Len(ts) + 1
    BY <1>1
  <2>1. CASE j \in 1..Len(ts)
    <3>1. PICK h \in 1..j - 1 : ts[h] = RequestTimer(r)
      BY <1>1, <1>4, <2>1 DEF InOrder
    <3> QED
      BY <1>1, <2>1, <3>1
  <2>2. CASE j = Len(ts) + 1
    BY <1>1, <1>2, <2>2
  <2> QED
    BY <2>0, <2>1, <2>2
<1> QED
  BY <1>3, <1>4 DEF InOrder, more

\* The first timer of a request is its own.
LEMMA FirstTimerIsOwn ==
    ASSUME NEW ts \in Seq(Timer), NEW r \in Requests, \A i \in DOMAIN ts : ts[i].of # r
    PROVE  HasTimer(Append(ts, RequestTimer(r)), r) /\ InOrder(Append(ts, RequestTimer(r)), r)
<1> DEFINE more == Append(ts, RequestTimer(r))
<1>0. RequestTimer(r) \in Timer /\ RequestTimer(r).run = 0
  BY DEF RequestTimer, Timer
<1>1. /\ more \in Seq(Timer) /\ Len(more) = Len(ts) + 1 /\ Len(ts) \in Nat
      /\ more[Len(ts) + 1] = RequestTimer(r)
      /\ \A i \in 1..Len(ts) : more[i] = ts[i]
  BY <1>0
<1> HIDE DEF more
<1>2. HasTimer(more, r)
  BY <1>1 DEF HasTimer, TimersOf
<1>3. \A j \in DOMAIN more : ~ (more[j].of = r /\ more[j].run > 0)
  BY <1>0, <1>1
<1> QED
  BY <1>2, <1>3 DEF InOrder, more

\* The timers change by those of request r: nothing is added or lost for others.
OnlyConcerns(r, ts, new) ==
    /\ \A i \in DOMAIN new : new[i].of = r \/ \E j \in DOMAIN ts : new[i] = ts[j]
    /\ \A q \in Requests \ {r} :
          HasTimer(ts, q) /\ InOrder(ts, q) => HasTimer(new, q) /\ InOrder(new, q)

LEMMA WithoutElements ==
    ASSUME NEW ts \in Seq(Timer), NEW k \in DOMAIN ts, NEW i \in DOMAIN Without(ts, k)
    PROVE  \E j \in DOMAIN ts : Without(ts, k)[i] = ts[j]
<1> DEFINE rest == Without(ts, k)
<1>1. /\ rest \in Seq(Timer) /\ Len(rest) = Len(ts) - 1
      /\ \A h \in 1..k - 1 : rest[h] = ts[h]
      /\ \A h \in k..Len(ts) - 1 : rest[h] = ts[h + 1]
      /\ k \in 1..Len(ts) /\ Len(ts) \in Nat
  BY WithoutProperties
<1>2. i \in DOMAIN rest
  OBVIOUS
<1> HIDE DEF rest
<1>3. i \in 1..Len(ts) - 1
  BY <1>1, <1>2
<1>4. i \in DOMAIN ts /\ i + 1 \in DOMAIN ts
  BY <1>1, <1>3
<1>5. rest[i] = ts[i] \/ rest[i] = ts[i + 1]
  BY <1>1, <1>3
<1> QED
  BY <1>4, <1>5 DEF rest

LEMMA StoppedOnlyConcerns ==
    ASSUME NEW ts \in Seq(Timer), NEW r \in Requests
    PROVE  OnlyConcerns(r, ts, Stopped(ts, r))
<1>1. ASSUME NEW i \in DOMAIN Stopped(ts, r) PROVE \E j \in DOMAIN ts : Stopped(ts, r)[i] = ts[j]
  <2>1. CASE TimersOf(ts, r) = {}
    BY <1>1, <2>1 DEF Stopped
  <2>2. CASE TimersOf(ts, r) # {}
    <3> DEFINE k == CHOOSE h \in TimersOf(ts, r) : TRUE
    <3>1. k \in DOMAIN ts
      BY <2>2 DEF TimersOf
    <3>2. Stopped(ts, r) = Without(ts, k)
      BY <2>2 DEF Stopped
    <3> HIDE DEF k
    <3> QED
      BY <1>1, <3>1, <3>2, WithoutElements
  <2> QED
    BY <2>1, <2>2
<1> QED
  BY <1>1, StoppedKeepsOrder DEF OnlyConcerns

LEMMA TailOnlyConcerns ==
    ASSUME NEW ts \in Seq(Timer), ts # <<>>
    PROVE  OnlyConcerns(Head(ts).of, ts, Tail(ts))
<1>1. ASSUME NEW i \in DOMAIN Tail(ts) PROVE \E j \in DOMAIN ts : Tail(ts)[i] = ts[j]
  <2>1. i \in 1..Len(ts) - 1 /\ Tail(ts)[i] = ts[i + 1] /\ Len(ts) \in Nat
    BY <1>1
  <2>2. i + 1 \in DOMAIN ts
    BY <2>1
  <2> QED
    BY <2>1, <2>2
<1>2. ASSUME NEW q \in Requests \ {Head(ts).of}, HasTimer(ts, q), InOrder(ts, q)
      PROVE  HasTimer(Tail(ts), q) /\ InOrder(Tail(ts), q)
  <2>1. Head(ts) # RequestTimer(q)
    BY DEF RequestTimer
  <2> QED
    BY <1>2, <2>1, TailKeepsOrder
<1> QED
  BY <1>1, <1>2 DEF OnlyConcerns

LEMMA AppendOnlyConcerns ==
    ASSUME NEW ts \in Seq(Timer), NEW t \in Timer
    PROVE  OnlyConcerns(t.of, ts, Append(ts, t))
<1>1. ASSUME NEW i \in DOMAIN Append(ts, t)
      PROVE  Append(ts, t)[i].of = t.of \/ \E j \in DOMAIN ts : Append(ts, t)[i] = ts[j]
  OBVIOUS
<1> QED
  BY <1>1, StartedKeepsOrder DEF OnlyConcerns

LEMMA OnlyConcernsTransitive ==
    ASSUME NEW a, NEW b, NEW c, NEW r, OnlyConcerns(r, a, b), OnlyConcerns(r, b, c)
    PROVE  OnlyConcerns(r, a, c)
BY DEF OnlyConcerns

-----------------------------------------------------------------------------
(* The invariant.                                                          *)

\* A request that has not arrived has nothing.
Untouched(r) ==
    req[r].pc = "idle" => /\ req[r].status = 0
                          /\ \A s \in sessions : s.of # r
                          /\ \A i \in DOMAIN timers : timers[i].of # r

\* While a request is under way only its timer has answered it.
Pending(r) == req[r].pc \in {"parsing", "handler", "query"} \union Waits
AnsweredByTimer(r) == Pending(r) => req[r].status \in {0, 503}

\* Until then its timer runs, ahead of those of its queries.
TimerAhead(r) ==
    Timeout /\ Pending(r) /\ req[r].status = 0 => HasTimer(timers, r) /\ InOrder(timers, r)

\* PlainSessionsAreClosed, for one request.
Plain(r, query) == req[r].input.queries[query] = "plain"
SessionsClosed(r) ==
    \A s \in sessions :
        s.of = r /\ Plain(r, s.query) => req[r].pc = "query" /\ req[r].next = s.query

RequestInv(r) == Untouched(r) /\ AnsweredByTimer(r) /\ TimerAhead(r) /\ SessionsClosed(r)

RequestsInv ==
    /\ Timeout \/ timers = <<>>
    /\ \A r \in Requests : RequestInv(r)

ApiInv == TypeOK /\ RequestsInv

LEMMA RequestFields ==
    ASSUME TypeOK, NEW r \in Requests
    PROVE  /\ req[r] \in Request
           /\ req[r].input \in Inputs
           /\ req[r].input.queries \in Seq({"plain", "transaction"})
           /\ req[r].next \in Nat
           /\ req[r].runs \in Nat
           /\ NextTimer(r) \in Timer /\ ThisSession(r) \in Session
           /\ RequestTimer(r) \in Timer
<1>1. req[r] \in Request
  BY DEF TypeOK
<1>2. req[r].input \in Inputs /\ req[r].next \in Nat /\ req[r].runs \in Nat
  BY <1>1 DEF Request
<1>3. req[r].input \in Input
  BY <1>2, InputAssumption
<1> QED
  BY <1>1, <1>2, <1>3 DEF Input, NextTimer, RunTimer, ThisSession, RequestTimer, Timer, Session

LEMMA ContextStepsType ==
    ASSUME ContextTypeOK, NEW r \in Requests
    PROVE  /\ EnterContext(r) => ContextTypeOK'
           /\ InitResource(r) => ContextTypeOK'
           /\ \A handled : DestroyResource(r, handled) => ContextTypeOK'
           /\ UNCHANGED contextVars => ContextTypeOK'
BY ContextAssumption DEF ContextTypeOK, EnterContext, InitResource, DestroyResource, ForgetId, contextVars

LEMMA StartedType ==
    ASSUME timers \in Seq(Timer), NEW t \in Timer
    PROVE  Started(t) \in Seq(Timer)
BY DEF Started

LEMMA TailType ==
    ASSUME timers \in Seq(Timer), timers # <<>>
    PROVE  /\ Tail(timers) \in Seq(Timer)
           /\ Head(timers) \in Timer
OBVIOUS

LEMMA EndedProperties ==
    ASSUME NEW k \in Request, NEW status \in {200, 400, 405, 500, 503}
    PROVE  /\ Ended(k, status) \in Request
           /\ Ended(k, status).pc = "end"
           /\ Ended(k, status).input = k.input
           /\ Ended(k, status).next = k.next
<1> DEFINE answer == FirstAnswer(k, status)
           ended == [k EXCEPT !.pc = "end"]
<1>1. answer \in {0, 200, 400, 405, 500, 503}
  BY DEF FirstAnswer, Request
<1>2. /\ ended \in Request
      /\ ended.pc = "end" /\ ended.input = k.input /\ ended.next = k.next
  BY DEF Request
<1>3. Ended(k, status) = [ended EXCEPT !.status = answer]
  BY DEF Ended, Request
<1> HIDE DEF answer, ended
<1> QED
  BY <1>1, <1>2, <1>3 DEF Request

LEMMA EndType ==
    ASSUME TypeOK, NEW r \in Requests, NEW status \in {200, 400, 405, 500, 503}, End(r, status)
    PROVE  req' \in [Requests -> Request] /\ timers' \in Seq(Timer)
<1>1. req \in [Requests -> Request]
  BY DEF TypeOK
<1>2. req' \in [Requests -> Request]
  BY <1>1, EndedProperties DEF End
<1> QED
  BY <1>2, StoppedType DEF TypeOK, End

LEMMA RunsProperties ==
    ASSUME NEW k \in Request
    PROVE  /\ Runs(k) \in Request
           /\ Runs(k).pc = "query" /\ Runs(k).runs = k.runs + 1
           /\ Runs(k).input = k.input /\ Runs(k).next = k.next /\ Runs(k).status = k.status
<1> DEFINE queried == [k EXCEPT !.pc = "query"]
<1>1. /\ queried \in Request /\ queried.pc = "query" /\ queried.runs = k.runs
      /\ queried.input = k.input /\ queried.next = k.next /\ queried.status = k.status
  BY DEF Request
<1>2. Runs(k) = [queried EXCEPT !.runs = @ + 1]
  BY DEF Runs, Request
<1> HIDE DEF queried
<1> QED
  BY <1>1, <1>2 DEF Request

LEMMA WaitsForType ==
    ASSUME TypeOK, NEW r \in Requests, NEW wait \in Waits, WaitsFor(r, wait)
    PROVE  TypeOK'
<1>1. [req[r] EXCEPT !.pc = wait] \in Request
  <2>1. req[r] \in Request
    BY DEF TypeOK
  <2> QED
    BY <2>1 DEF Request
<1>2. req' \in [Requests -> Request]
  BY <1>1 DEF TypeOK, WaitsFor
<1> QED
  BY <1>2, ContextStepsType DEF TypeOK, WaitsFor

LEMMA ReturnsType ==
    ASSUME TypeOK, NEW r \in Requests, Returns(r)
    PROVE  TypeOK'
<1>1. req' \in [Requests -> Request]
  BY DEF TypeOK, Returns, Request
<1> QED
  BY <1>1, ContextStepsType DEF TypeOK, Returns

LEMMA ThrowsType ==
    ASSUME TypeOK, NEW r \in Requests, Throws(r)
    PROVE  TypeOK'
<1>1. sessions' \subseteq Session
  BY DEF TypeOK, Throws, ClosedAfterError
<1> QED
  BY <1>1, EndType, ContextStepsType DEF TypeOK, Throws

LEMMA NextType ==
    ASSUME TypeOK, [Next]_vars
    PROVE  TypeOK'
<1>1. /\ ContextTypeOK /\ req \in [Requests -> Request] /\ timers \in Seq(Timer)
      /\ sessions \subseteq Session
  BY DEF TypeOK
<1>2. ASSUME NEW r \in Requests, NEW i \in Inputs, Arrive(r, i) PROVE TypeOK'
  <2>1. ContextTypeOK'
    BY <1>1, <1>2, ContextStepsType DEF Arrive
  <2>2. timers' \in Seq(Timer)
    BY <1>1, <1>2, RequestFields, StartedType DEF Arrive
  <2>3. req' \in [Requests -> Request]
    <3> DEFINE old == req[r]
               k == [old EXCEPT !.input = i]
               parsing == [k EXCEPT !.pc = "parsing"]
               ended == [k EXCEPT !.pc = "end"]
               refused == [ended EXCEPT !.status = 400]
    <3>0. old \in Request
      BY <1>1
    <3>1. k \in Request
      <4> HIDE DEF old
      <4> QED
        BY <3>0 DEF Request
    <3>2. parsing \in Request /\ ended \in Request
      <4> HIDE DEF k
      <4> QED
        BY <3>1 DEF Request
    <3>3. refused \in Request
      <4> HIDE DEF ended
      <4> QED
        BY <3>2 DEF Request
    <3>4. req' = [req EXCEPT ![r] = IF i.client THEN parsing ELSE refused]
      BY <1>2 DEF Arrive
    <3> HIDE DEF parsing, refused
    <3> QED
      BY <1>1, <3>2, <3>3, <3>4
  <2> QED
    BY <1>1, <1>2, <2>1, <2>2, <2>3 DEF Arrive, TypeOK
<1>3. ASSUME NEW r \in Requests, Refused(r) PROVE TypeOK'
  BY <1>1, <1>3, EndType, ContextStepsType DEF Refused, TypeOK
<1>4. ASSUME NEW r \in Requests, Control(r) PROVE TypeOK'
  <2>1. req' \in [Requests -> Request]
    <3> DEFINE old == req[r]
               k == [old EXCEPT !.pc = "handler"]
               handled == [k EXCEPT !.next = 1]
    <3>0. old \in Request
      BY <1>1
    <3>1. k \in Request
      <4> HIDE DEF old
      <4> QED
        BY <3>0 DEF Request
    <3>2. handled \in Request
      <4> HIDE DEF k
      <4> QED
        BY <3>1 DEF Request
    <3>3. req' = [req EXCEPT ![r] = handled]
      BY <1>1, <1>4 DEF Control
    <3> HIDE DEF handled
    <3> QED
      BY <1>1, <3>2, <3>3
  <2> QED
    BY <1>1, <1>4, <2>1, ContextStepsType DEF Control, TypeOK
<1>5. ASSUME NEW r \in Requests, StartQuery(r) PROVE TypeOK'
  <2>1. ContextTypeOK'
    BY <1>1, <1>5, ContextStepsType DEF StartQuery
  <2>2. timers' \in Seq(Timer) /\ sessions' \subseteq Session
    BY <1>1, <1>5, RequestFields, StartedType DEF StartQuery
  <2>3. req' \in [Requests -> Request]
    BY <1>1, <1>5, RunsProperties DEF StartQuery
  <2> QED
    BY <2>1, <2>2, <2>3 DEF TypeOK
<1>6. ASSUME NEW r \in Requests, QueryAnswers(r) PROVE TypeOK'
  BY <1>6, WaitsForType, ReturnsType DEF QueryAnswers, Waits
<1>14. ASSUME NEW r \in Requests, Commits(r) PROVE TypeOK'
  BY <1>14, ReturnsType DEF Commits
<1>15. ASSUME NEW r \in Requests, CommitFails(r) PROVE TypeOK'
  BY <1>15, WaitsForType, ThrowsType DEF CommitFails, Waits
<1>16. ASSUME NEW r \in Requests, RollsBack(r) PROVE TypeOK'
  BY <1>16, ThrowsType DEF RollsBack
<1>17. ASSUME NEW r \in Requests, Retries(r) PROVE TypeOK'
  <2>1. timers' \in Seq(Timer) /\ sessions' \subseteq Session
    BY <1>1, <1>17, RequestFields, StartedType DEF Retries
  <2>2. req' \in [Requests -> Request]
    BY <1>1, <1>17, RunsProperties DEF Retries
  <2> QED
    BY <1>1, <1>17, <2>1, <2>2, ContextStepsType DEF Retries, TypeOK
<1>7. ASSUME NEW r \in Requests, QueryFails(r) PROVE TypeOK'
  BY <1>7, WaitsForType, ThrowsType DEF QueryFails, Waits
<1>8. ASSUME NEW r \in Requests, Succeeds(r) PROVE TypeOK'
  BY <1>1, <1>8, EndType, ContextStepsType DEF Succeeds, TypeOK
<1>9. ASSUME NEW r \in Requests, RequestTimesOut(r) PROVE TypeOK'
  <2>1. req' \in [Requests -> Request]
    <3>1. req[r] \in Request
      BY <1>1
    <3>2. [req[r] EXCEPT !.status = 503] \in Request
      BY <3>1 DEF Request
    <3> QED
      BY <1>1, <1>9, <3>2 DEF RequestTimesOut
  <2>2. timers' \in Seq(Timer)
    BY <1>1, <1>9, TailType DEF RequestTimesOut, Expires
  <2> QED
    BY <1>1, <1>9, <2>1, <2>2, ContextStepsType DEF RequestTimesOut, TypeOK
<1>10. ASSUME timers # <<>>, QueryTimesOut(Head(timers)) PROVE TypeOK'
  <2> DEFINE t == Head(timers)
  <2>1. t \in Timer /\ Tail(timers) \in Seq(Timer)
    BY <1>1, <1>10, TailType
  <2>2. t.of \in Requests
    BY <2>1 DEF Timer
  <2> HIDE DEF t
  <2>3. QueryTimesOut(t)
    BY <1>10 DEF t
  <2>4. req' \in [Requests -> Request]
    <3>0. req[t.of] \in Request
      BY <1>1, <2>2
    <3>1. [req[t.of] EXCEPT !.pc = "rollback"] \in Request
      BY <3>0 DEF Request, Waits
    <3> QED
      BY <1>1, <2>2, <2>3, <3>1, EndedProperties DEF QueryTimesOut
  <2>5. timers' \in Seq(Timer)
    BY <2>1, <2>2, <2>3, StoppedType DEF QueryTimesOut
  <2>6. sessions' \subseteq Session
    BY <1>1, <2>3 DEF QueryTimesOut, ClosedAfterError
  <2>7. ContextTypeOK'
    BY <1>1, <2>2, <2>3, ContextStepsType DEF QueryTimesOut
  <2> QED
    BY <2>4, <2>5, <2>6, <2>7 DEF TypeOK
<1>11. ASSUME timers # <<>>, TimesOutInVain(Head(timers)) PROVE TypeOK'
  <2>1. ContextTypeOK'
    BY <1>1, <1>11 DEF TimesOutInVain, contextVars, ContextTypeOK
  <2> QED
    BY <1>1, <1>11, <2>1, TailType DEF TimesOutInVain, TypeOK
<1>12. ASSUME NEW r \in Requests, Collect(r) PROVE TypeOK'
  BY <1>1, <1>12, ContextStepsType DEF Collect, requestVars, TypeOK
<1>13. CASE UNCHANGED vars
  BY <1>1, <1>13 DEF vars, requestVars, contextVars, ContextTypeOK, TypeOK
<1> QED
  BY <1>2, <1>3, <1>4, <1>5, <1>6, <1>7, <1>8, <1>9, <1>10, <1>11, <1>12, <1>13, <1>14, <1>15,
     <1>16, <1>17 DEF Next, TimerStep, Run

-----------------------------------------------------------------------------
(* The steps.                                                              *)

\* A step of one request leaves the others as they are.
LEMMA OthersKeepInv ==
    ASSUME ApiInv, NEW r, NEW q \in Requests, q # r,
           req'[q] = req[q],
           \A s \in sessions' : s \in sessions \/ s.of = r,
           OnlyConcerns(r, timers, timers')
    PROVE  RequestInv(q)'
<1>1. RequestInv(q)
  BY DEF ApiInv, RequestsInv
<1>2. Untouched(q)'
  BY <1>1 DEF RequestInv, Untouched, OnlyConcerns
<1>3. AnsweredByTimer(q)'
  BY <1>1 DEF RequestInv, AnsweredByTimer, Pending
<1>4. TimerAhead(q)'
  BY <1>1 DEF RequestInv, TimerAhead, Pending, OnlyConcerns
<1>5. SessionsClosed(q)'
  BY <1>1 DEF RequestInv, SessionsClosed, Plain
<1> QED
  BY <1>2, <1>3, <1>4, <1>5 DEF RequestInv

LEMMA UnchangedOnlyConcerns ==
    ASSUME NEW r, UNCHANGED timers
    PROVE  OnlyConcerns(r, timers, timers')
BY DEF OnlyConcerns

LEMMA StartedOnlyConcerns ==
    ASSUME timers \in Seq(Timer), NEW t \in Timer, timers' = Started(t)
    PROVE  OnlyConcerns(t.of, timers, timers')
<1>1. CASE Timeout
  BY <1>1, AppendOnlyConcerns DEF Started
<1>2. CASE ~ Timeout
  BY <1>2, UnchangedOnlyConcerns DEF Started
<1> QED
  BY <1>1, <1>2

\* Nothing is stopped where there is no timeout.
LEMMA NoTimers ==
    ASSUME NEW r \in Requests
    PROVE  Stopped(<<>>, r) = <<>>
BY DEF Stopped, TimersOf

LEMMA ArriveInv ==
    ASSUME ApiInv, NEW r \in Requests, NEW i \in Inputs, Arrive(r, i)
    PROVE  RequestsInv'
<1>1. /\ req \in [Requests -> Request] /\ timers \in Seq(Timer)
      /\ req[r] \in Request /\ RequestTimer(r) \in Timer /\ RequestTimer(r).of = r
      /\ RequestInv(r)
  BY RequestFields DEF ApiInv, RequestsInv, TypeOK, RequestTimer
<1>2. /\ req[r].status = 0
      /\ \A s \in sessions : s.of # r
      /\ \A j \in DOMAIN timers : timers[j].of # r
  BY <1>1 DEF Arrive, RequestInv, Untouched
<1>3. /\ \A q \in Requests : q # r => req'[q] = req[q]
      /\ req'[r].pc \in {"parsing", "end"}
      /\ Pending(r)' => i.client /\ req'[r].status = 0
  <2> DEFINE k == [req[r] EXCEPT !.input = i]
  <2>1. k \in Request /\ k.status = 0
    BY <1>1, <1>2 DEF Request
  <2>2. req'[r] = IF i.client THEN [k EXCEPT !.pc = "parsing"] ELSE [k EXCEPT !.pc = "end", !.status = 400]
    BY <1>1 DEF Arrive
  <2>3. \A q \in Requests : q # r => req'[q] = req[q]
    BY <1>1 DEF Arrive
  <2> HIDE DEF k
  <2>4. CASE i.client
    <3>1. req'[r].pc = "parsing" /\ req'[r].status = 0
      BY <2>1, <2>2, <2>4 DEF Request
    <3> QED
      BY <2>3, <2>4, <3>1
  <2>5. CASE ~ i.client
    <3>1. req'[r].pc = "end"
      BY <2>1, <2>2, <2>5 DEF Request
    <3> QED
      BY <2>3, <3>1 DEF Pending, Waits
  <2> QED
    BY <2>4, <2>5
<1>4. OnlyConcerns(r, timers, timers')
  <2>1. CASE i.client
    BY <1>1, <2>1, StartedOnlyConcerns DEF Arrive
  <2>2. CASE ~ i.client
    BY <2>2, UnchangedOnlyConcerns DEF Arrive
  <2> QED
    BY <2>1, <2>2
<1>5. sessions' = sessions
  BY DEF Arrive
<1>6. \A q \in Requests : q # r => RequestInv(q)'
  BY <1>3, <1>4, <1>5, OthersKeepInv
<1>7. RequestInv(r)'
  <2>1. Untouched(r)' /\ AnsweredByTimer(r)' /\ SessionsClosed(r)'
    BY <1>2, <1>3, <1>5 DEF Untouched, AnsweredByTimer, SessionsClosed
  <2>2. TimerAhead(r)'
    <3>1. ASSUME Timeout, Pending(r)' PROVE timers' = Append(timers, RequestTimer(r))
      BY <1>3, <3>1 DEF Arrive, Started
    <3> QED
      BY <1>1, <1>2, <3>1, FirstTimerIsOwn DEF TimerAhead
  <2> QED
    BY <2>1, <2>2 DEF RequestInv
<1>8. Timeout \/ timers' = <<>>
  BY DEF ApiInv, RequestsInv, Arrive, Started
<1> QED
  BY <1>6, <1>7, <1>8 DEF RequestsInv

\* What a handler is answered with, if it is the first.
Answers == {200, 400, 405, 500, 503}

\* No session is added, and that of a query outside a transaction is closed.
SessionGone(r) ==
    /\ sessions' \subseteq sessions
    /\ req[r].pc = "query" => sessions' = ClosedAfterError(r)

\* All ends of a handler: pc, timers and, for a query, its session.
LEMMA EndInv ==
    ASSUME ApiInv, NEW r \in Requests, NEW status \in Answers, NEW ts \in Seq(Timer),
           req' = [req EXCEPT ![r] = Ended(@, status)],
           OnlyConcerns(r, timers, ts), Timeout \/ ts = <<>>,
           timers' = Stopped(ts, r),
           SessionGone(r)
    PROVE  RequestsInv'
<1>1. /\ req \in [Requests -> Request] /\ req[r] \in Request /\ sessions \subseteq Session /\ RequestInv(r)
  BY DEF ApiInv, RequestsInv, TypeOK
<1>2. /\ \A q \in Requests : q # r => req'[q] = req[q]
      /\ req'[r].pc = "end" /\ req'[r].input = req[r].input /\ req'[r].next = req[r].next
  BY <1>1, EndedProperties DEF Answers
<1>3. OnlyConcerns(r, timers, timers')
  BY StoppedOnlyConcerns, OnlyConcernsTransitive
<1>4. \A s \in sessions' : s \in sessions
  BY DEF SessionGone
<1>5. \A q \in Requests : q # r => RequestInv(q)'
  BY <1>2, <1>3, <1>4, OthersKeepInv
<1>6. SessionsClosed(r)'
  <2>1. ASSUME NEW s \in sessions', s.of = r, Plain(r, s.query) PROVE FALSE
    <3>1. s \in sessions /\ req[r].pc = "query" /\ req[r].next = s.query
      BY <1>1, <1>4, <2>1 DEF RequestInv, SessionsClosed
    <3>2. s = ThisSession(r)
      BY <1>1, <2>1, <3>1 DEF Session, ThisSession
    <3>3. ~ InTransaction(r)
      BY <2>1, <3>1 DEF InTransaction, Plain
    <3> QED
      BY <2>1, <3>1, <3>2, <3>3 DEF ClosedAfterError, SessionGone
  <2> QED
    BY <1>2, <2>1 DEF SessionsClosed, Plain
<1>7. RequestInv(r)'
  BY <1>2, <1>6 DEF RequestInv, Untouched, AnsweredByTimer, TimerAhead, Pending, Waits
<1>8. Timeout \/ timers' = <<>>
  BY NoTimers
<1> QED
  BY <1>5, <1>7, <1>8 DEF RequestsInv

LEMMA HandlerEndsInv ==
    ASSUME ApiInv, NEW r \in Requests, NEW status \in Answers, End(r, status),
           SessionGone(r)
    PROVE  RequestsInv'
<1>1. timers \in Seq(Timer) /\ (Timeout \/ timers = <<>>) /\ OnlyConcerns(r, timers, timers)
  BY DEF ApiInv, RequestsInv, TypeOK, OnlyConcerns
<1>2. req' = [req EXCEPT ![r] = Ended(@, status)] /\ timers' = Stopped(timers, r)
  BY DEF End
<1> QED
  BY <1>1, <1>2, EndInv

LEMMA ControlInv ==
    ASSUME ApiInv, NEW r \in Requests, Control(r)
    PROVE  RequestsInv'
<1>1. /\ req \in [Requests -> Request] /\ req[r] \in Request /\ RequestInv(r)
  BY DEF ApiInv, RequestsInv, TypeOK
<1>2. /\ \A q \in Requests : q # r => req'[q] = req[q]
      /\ req'[r].pc = "handler" /\ req'[r].input = req[r].input /\ req'[r].status = req[r].status
  BY <1>1 DEF Control, Request
<1>3. timers' = timers /\ sessions' = sessions
  BY DEF Control
<1>4. \A q \in Requests : q # r => RequestInv(q)'
  BY <1>2, <1>3, UnchangedOnlyConcerns, OthersKeepInv
<1>5. RequestInv(r)'
  BY <1>1, <1>2, <1>3
  DEF Control, RequestInv, Untouched, AnsweredByTimer, TimerAhead, SessionsClosed, Pending, Plain
<1> QED
  BY <1>3, <1>4, <1>5 DEF ApiInv, RequestsInv

\* A query runs, of which the session is open now, and its timer starts.
LEMMA RunsInv ==
    ASSUME ApiInv, NEW r \in Requests, req[r].pc \in {"handler", "retry"},
           req' = [req EXCEPT ![r] = Runs(@)],
           sessions' \subseteq sessions \union {ThisSession(r)},
           timers' = Started(NextTimer(r))
    PROVE  RequestsInv'
<1>1. /\ req \in [Requests -> Request] /\ req[r] \in Request /\ RequestInv(r)
      /\ timers \in Seq(Timer)
      /\ NextTimer(r) \in Timer /\ NextTimer(r).of = r
      /\ ThisSession(r).of = r /\ ThisSession(r).query = req[r].next
  BY RequestFields DEF ApiInv, RequestsInv, TypeOK, NextTimer, RunTimer, ThisSession
<1>2. /\ \A q \in Requests : q # r => req'[q] = req[q]
      /\ req'[r].pc = "query" /\ req'[r].input = req[r].input
      /\ req'[r].status = req[r].status /\ req'[r].next = req[r].next
  BY <1>1, RunsProperties
<1>3. OnlyConcerns(r, timers, timers')
  BY <1>1, StartedOnlyConcerns
<1>4. \A s \in sessions' : s \in sessions \/ s = ThisSession(r)
  OBVIOUS
<1>5. \A q \in Requests : q # r => RequestInv(q)'
  BY <1>1, <1>2, <1>3, <1>4, OthersKeepInv
<1>6. Pending(r)
  BY DEF Pending, Waits
<1>7. TimerAhead(r)'
  <2>1. ASSUME Timeout, req[r].status = 0 PROVE HasTimer(timers, r) /\ InOrder(timers, r)
    BY <1>1, <1>6, <2>1 DEF RequestInv, TimerAhead
  <2>2. ASSUME Timeout, req[r].status = 0 PROVE HasTimer(timers', r) /\ InOrder(timers', r)
    BY <1>1, <2>1, <2>2, StartedKeepsOrder DEF Started
  <2> QED
    BY <1>2, <2>2 DEF TimerAhead
<1>8. Untouched(r)' /\ AnsweredByTimer(r)'
  BY <1>1, <1>2, <1>6 DEF RequestInv, Untouched, AnsweredByTimer
<1>9. SessionsClosed(r)'
  BY <1>1, <1>2, <1>4 DEF RequestInv, SessionsClosed, Plain
<1>10. Timeout \/ timers' = <<>>
  BY DEF ApiInv, RequestsInv, Started
<1> QED
  BY <1>5, <1>7, <1>8, <1>9, <1>10 DEF RequestInv, RequestsInv

LEMMA ReturnsInv ==
    ASSUME ApiInv, NEW r \in Requests, req[r].pc \in {"query", "commit"}, Returns(r)
    PROVE  RequestsInv'
<1>1. /\ req \in [Requests -> Request] /\ req[r] \in Request /\ RequestInv(r)
      /\ sessions \subseteq Session
  BY DEF ApiInv, RequestsInv, TypeOK
<1>2. /\ \A q \in Requests : q # r => req'[q] = req[q]
      /\ req'[r].pc = "handler" /\ req'[r].input = req[r].input /\ req'[r].status = req[r].status
  BY <1>1 DEF Returns, Request
<1>3. timers' = timers /\ sessions' = sessions \ {ThisSession(r)}
  BY DEF Returns
<1>4. \A q \in Requests : q # r => RequestInv(q)'
  BY <1>2, <1>3, UnchangedOnlyConcerns, OthersKeepInv
<1>5. SessionsClosed(r)'
  <2>1. ASSUME NEW s \in sessions', s.of = r, Plain(r, s.query) PROVE FALSE
    <3>1. s \in sessions /\ s # ThisSession(r) /\ req[r].next = s.query
      BY <1>1, <1>3, <2>1 DEF RequestInv, SessionsClosed
    <3> QED
      BY <1>1, <2>1, <3>1 DEF Session, ThisSession
  <2> QED
    BY <1>2, <2>1 DEF SessionsClosed, Plain
<1>6. RequestInv(r)'
  BY <1>1, <1>2, <1>3, <1>5
  DEF RequestInv, Untouched, AnsweredByTimer, TimerAhead, Pending, Waits
<1> QED
  BY <1>3, <1>4, <1>6 DEF ApiInv, RequestsInv

\* A transaction has no session that is closed in a finally block.
LEMMA NoPlainSession ==
    ASSUME ApiInv, NEW r \in Requests,
           req[r].pc = "commit" \/ (req[r].pc = "query" /\ InTransaction(r))
    PROVE  \A s \in sessions : ~ (s.of = r /\ Plain(r, s.query))
BY DEF ApiInv, RequestsInv, RequestInv, SessionsClosed, InTransaction, Plain

LEMMA WaitsInv ==
    ASSUME ApiInv, NEW r \in Requests, NEW wait \in Waits,
           req[r].pc = "commit" \/ (req[r].pc = "query" /\ InTransaction(r)),
           req' = [req EXCEPT ![r].pc = wait],
           UNCHANGED sessions,
           UNCHANGED timers \/ (timers # <<>> /\ Head(timers).run > 0 /\ timers' = Tail(timers))
    PROVE  RequestsInv'
<1>1. /\ req \in [Requests -> Request] /\ req[r] \in Request /\ RequestInv(r)
      /\ timers \in Seq(Timer)
  BY DEF ApiInv, RequestsInv, TypeOK
<1>2. /\ \A q \in Requests : q # r => req'[q] = req[q]
      /\ req'[r].pc = wait /\ req'[r].input = req[r].input /\ req'[r].status = req[r].status
  BY <1>1 DEF Request
<1>3. ASSUME NEW q \in Requests, HasTimer(timers, q), InOrder(timers, q)
      PROVE  HasTimer(timers', q) /\ InOrder(timers', q)
  <2>1. CASE UNCHANGED timers
    BY <1>3, <2>1
  <2>2. CASE timers # <<>> /\ Head(timers).run > 0 /\ timers' = Tail(timers)
    <3>1. Head(timers) # RequestTimer(q)
      BY <2>2 DEF RequestTimer
    <3> QED
      BY <1>1, <1>3, <2>2, <3>1, TailKeepsOrder
  <2> QED
    BY <2>1, <2>2
<1>4. \A i \in DOMAIN timers' : \E j \in DOMAIN timers : timers'[i] = timers[j]
  <2>1. CASE UNCHANGED timers
    BY <2>1
  <2>2. CASE timers # <<>> /\ timers' = Tail(timers)
    <3>1. \A i \in DOMAIN timers' : i + 1 \in DOMAIN timers /\ timers'[i] = timers[i + 1]
      BY <1>1, <2>2
    <3> QED
      BY <3>1
  <2> QED
    BY <2>1, <2>2
<1>5. OnlyConcerns(r, timers, timers')
  BY <1>3, <1>4 DEF OnlyConcerns
<1>6. \A q \in Requests : q # r => RequestInv(q)'
  BY <1>2, <1>5, OthersKeepInv
<1>7. Pending(r) /\ req'[r].pc # "idle"
  BY <1>2 DEF Pending, Waits
<1>8. SessionsClosed(r)'
  BY <1>2, NoPlainSession DEF SessionsClosed, Plain
<1>9. TimerAhead(r)'
  BY <1>1, <1>2, <1>3, <1>7 DEF RequestInv, TimerAhead
<1>10. Untouched(r)' /\ AnsweredByTimer(r)'
  BY <1>1, <1>2, <1>7 DEF RequestInv, Untouched, AnsweredByTimer
<1>11. Timeout \/ timers' = <<>>
  BY DEF ApiInv, RequestsInv
<1> QED
  BY <1>6, <1>8, <1>9, <1>10, <1>11 DEF RequestInv, RequestsInv

LEMMA WaitsForInv ==
    ASSUME ApiInv, NEW r \in Requests, NEW wait \in Waits, WaitsFor(r, wait),
           req[r].pc = "commit" \/ (req[r].pc = "query" /\ InTransaction(r))
    PROVE  RequestsInv'
BY WaitsInv DEF WaitsFor

LEMMA ThrowsInv ==
    ASSUME ApiInv, NEW r \in Requests, Throws(r)
    PROVE  RequestsInv'
BY HandlerEndsInv DEF Throws, Answers, SessionGone, ClosedAfterError

LEMMA RequestTimesOutInv ==
    ASSUME ApiInv, NEW r \in Requests, RequestTimesOut(r)
    PROVE  RequestsInv'
<1>1. /\ req \in [Requests -> Request] /\ req[r] \in Request /\ RequestInv(r)
      /\ timers \in Seq(Timer) /\ timers # <<>>
      /\ Head(timers) = RequestTimer(r) /\ RequestTimer(r).of = r
  BY DEF ApiInv, RequestsInv, TypeOK, RequestTimesOut, Expires, RequestTimer
<1>2. /\ \A q \in Requests : q # r => req'[q] = req[q]
      /\ req'[r].pc = req[r].pc /\ req'[r].input = req[r].input
      /\ req'[r].status = 503 /\ req'[r].next = req[r].next
  BY <1>1 DEF RequestTimesOut, Request
<1>3. OnlyConcerns(r, timers, timers')
  BY <1>1, TailOnlyConcerns DEF RequestTimesOut
<1>4. sessions' = sessions
  BY DEF RequestTimesOut
<1>5. \A q \in Requests : q # r => RequestInv(q)'
  BY <1>2, <1>3, <1>4, OthersKeepInv
<1>6. req[r].pc # "idle"
  <2>1. 1 \in DOMAIN timers /\ timers[1].of = r
    BY <1>1
  <2> QED
    BY <1>1, <2>1 DEF RequestInv, Untouched
<1>7. RequestInv(r)'
  BY <1>1, <1>2, <1>4, <1>6 DEF RequestInv, Untouched, AnsweredByTimer, TimerAhead, SessionsClosed, Plain
<1>8. Timeout \/ timers' = <<>>
  BY <1>1 DEF ApiInv, RequestsInv
<1> QED
  BY <1>5, <1>7, <1>8 DEF RequestsInv

LEMMA TimesOutInVainInv ==
    ASSUME ApiInv, timers # <<>>, TimesOutInVain(Head(timers))
    PROVE  RequestsInv'
<1>1. timers \in Seq(Timer) /\ Head(timers).run > 0
  BY DEF ApiInv, RequestsInv, TypeOK, TimesOutInVain
<1>2. req' = req /\ sessions' = sessions /\ timers' = Tail(timers)
  BY DEF TimesOutInVain
<1>3. ASSUME NEW q \in Requests PROVE RequestInv(q)'
  <2>1. RequestInv(q)
    BY <1>3 DEF ApiInv, RequestsInv
  <2>2. Head(timers) # RequestTimer(q)
    BY <1>1 DEF RequestTimer
  <2>3. TimerAhead(q)'
    BY <1>1, <1>2, <2>1, <2>2, TailKeepsOrder DEF RequestInv, TimerAhead, Pending
  <2>4. Untouched(q)'
    <3>1. \A i \in DOMAIN timers' : i + 1 \in DOMAIN timers /\ timers'[i] = timers[i + 1]
      BY <1>1, <1>2
    <3> QED
      BY <1>2, <2>1, <3>1 DEF RequestInv, Untouched
  <2> QED
    BY <1>2, <2>1, <2>3, <2>4 DEF RequestInv, AnsweredByTimer, SessionsClosed, Pending, Plain
<1>4. Timeout \/ timers' = <<>>
  BY DEF ApiInv, RequestsInv
<1> QED
  BY <1>3, <1>4 DEF RequestsInv

\* What is kept for the logs changes nothing of a request.
LEMMA SameRequestsInv ==
    ASSUME ApiInv, UNCHANGED requestVars
    PROVE  RequestsInv'
BY DEF ApiInv, RequestsInv, RequestInv, Untouched, AnsweredByTimer, TimerAhead, SessionsClosed, Pending,
       Plain, requestVars

LEMMA QueryTimesOutInv ==
    ASSUME ApiInv, timers # <<>>, QueryTimesOut(Head(timers))
    PROVE  RequestsInv'
<1> DEFINE r == Head(timers).of
           ts == Tail(timers)
<1>1. /\ timers \in Seq(Timer) /\ r \in Requests /\ ts \in Seq(Timer)
  BY TailType DEF ApiInv, RequestsInv, TypeOK, Timer
<1>2. OnlyConcerns(r, timers, ts)
  BY <1>1, TailOnlyConcerns
<1>3. Timeout \/ ts = <<>>
  BY DEF ApiInv, RequestsInv
<1>4. CASE InTransaction(r)
  <2>1. /\ req' = [req EXCEPT ![r].pc = "rollback"] /\ timers' = ts
        /\ UNCHANGED sessions /\ req[r].pc = "query"
    BY <1>4 DEF QueryTimesOut, Awaited
  <2>2. Head(timers).run > 0
    BY <1>1, <1>4 DEF QueryTimesOut, Awaited
  <2> QED
    BY <1>1, <1>4, <2>1, <2>2, WaitsInv DEF Waits
<1>5. CASE ~ InTransaction(r)
  <2>1. /\ req' = [req EXCEPT ![r] = Ended(@, 500)]
        /\ timers' = Stopped(ts, r)
        /\ SessionGone(r)
    BY <1>5 DEF QueryTimesOut, SessionGone, ClosedAfterError
  <2>2. 500 \in Answers
    BY DEF Answers
  <2> HIDE DEF r, ts
  <2> QED
    BY <1>1, <1>2, <1>3, <2>1, <2>2, EndInv
<1> QED
  BY <1>4, <1>5

LEMMA NextInv ==
    ASSUME ApiInv, [Next]_vars
    PROVE  ApiInv'
<1>1. TypeOK'
  BY NextType DEF ApiInv
<1>2. ASSUME NEW r \in Requests, NEW i \in Inputs, Arrive(r, i) PROVE RequestsInv'
  BY <1>2, ArriveInv
<1>3. ASSUME NEW r \in Requests, Refused(r) PROVE RequestsInv'
  <2> DEFINE status == IF req[r].input.body THEN 405 ELSE 400
  <2>1. status \in Answers /\ End(r, status) /\ SessionGone(r)
    BY <1>3 DEF Refused, Answers, SessionGone
  <2> HIDE DEF status
  <2> QED
    BY <2>1, HandlerEndsInv
<1>4. ASSUME NEW r \in Requests, Control(r) PROVE RequestsInv'
  BY <1>4, ControlInv
<1>5. ASSUME NEW r \in Requests, StartQuery(r) PROVE RequestsInv'
  BY <1>5, RunsInv DEF StartQuery
<1>6. ASSUME NEW r \in Requests, Succeeds(r) PROVE RequestsInv'
  BY <1>6, HandlerEndsInv DEF Succeeds, Answers, SessionGone
<1>7. ASSUME NEW r \in Requests, QueryAnswers(r) PROVE RequestsInv'
  BY <1>7, WaitsForInv, ReturnsInv DEF QueryAnswers, Waits
<1>8. ASSUME NEW r \in Requests, QueryFails(r) PROVE RequestsInv'
  BY <1>8, WaitsForInv, ThrowsInv DEF QueryFails, Waits
<1>14. ASSUME NEW r \in Requests, Commits(r) PROVE RequestsInv'
  BY <1>14, ReturnsInv DEF Commits
<1>15. ASSUME NEW r \in Requests, CommitFails(r) PROVE RequestsInv'
  BY <1>15, WaitsForInv, ThrowsInv DEF CommitFails, Waits
<1>16. ASSUME NEW r \in Requests, RollsBack(r) PROVE RequestsInv'
  BY <1>16, ThrowsInv DEF RollsBack
<1>17. ASSUME NEW r \in Requests, Retries(r) PROVE RequestsInv'
  BY <1>17, RunsInv DEF Retries
<1>9. ASSUME NEW r \in Requests, Collect(r) PROVE RequestsInv'
  BY <1>9, SameRequestsInv DEF Collect
<1>10. ASSUME NEW r \in Requests, RequestTimesOut(r) PROVE RequestsInv'
  BY <1>10, RequestTimesOutInv
<1>11. ASSUME timers # <<>>, QueryTimesOut(Head(timers)) PROVE RequestsInv'
  BY <1>11, QueryTimesOutInv
<1>12. ASSUME timers # <<>>, TimesOutInVain(Head(timers)) PROVE RequestsInv'
  BY <1>12, TimesOutInVainInv
<1>13. ASSUME UNCHANGED vars PROVE RequestsInv'
  BY <1>13, SameRequestsInv DEF vars, requestVars
<1>18. RequestsInv'
  BY <1>2, <1>3, <1>4, <1>5, <1>6, <1>7, <1>8, <1>9, <1>10, <1>11, <1>12, <1>13, <1>14, <1>15,
     <1>16, <1>17 DEF Next, TimerStep, Run
<1> QED
  BY <1>1, <1>18 DEF ApiInv

-----------------------------------------------------------------------------
(* The theorems.                                                           *)

LEMMA InitInv ==
    ASSUME Init
    PROVE  ApiInv
<1>1. (CHOOSE i \in Inputs : TRUE) \in Inputs
  BY InputAssumption
<1>2. /\ req \in [Requests -> Request]
      /\ \A r \in Requests : req[r].pc = "idle" /\ req[r].status = 0
  BY <1>1 DEF Init, Request
<1>3. timers = <<>> /\ sessions = {}
  BY DEF Init
<1>4. ContextTypeOK
  BY ContextAssumption DEF Init, ContextInit, ContextTypeOK
<1>5. TypeOK
  BY <1>2, <1>3, <1>4 DEF TypeOK
<1>6. RequestsInv
  BY <1>2, <1>3
  DEF RequestsInv, RequestInv, Untouched, AnsweredByTimer, TimerAhead, SessionsClosed, Pending, Waits
<1> QED
  BY <1>5, <1>6 DEF ApiInv

\* Whatever the steps of the requests and of the timers, all these hold.
THEOREM ApiInvariant == Spec => []ApiInv
<1>1. Init => ApiInv
  BY InitInv
<1>2. ApiInv /\ [Next]_vars => ApiInv'
  BY NextInv
<1> QED
  BY <1>1, <1>2, PTL DEF Spec

\* The state keeps its type: in particular DestroyResource never counts below 0.
THEOREM TypeCorrect == Spec => []TypeOK
<1>1. ApiInv => TypeOK
  BY DEF ApiInv
<1> QED
  BY <1>1, ApiInvariant, PTL

\* A query that the connection gives up while it is waited for is that of a
\* request that connect-timeout has answered.
THEOREM RequestsTimeOutFirst == Spec => []OuterTimerFirst
<1>1. ApiInv => OuterTimerFirst
  <2> SUFFICES ASSUME ApiInv, timers # <<>>, Head(timers).run > 0, Awaited(Head(timers))
               PROVE  req[Head(timers).of].status = 503
    BY DEF OuterTimerFirst
  <2> DEFINE r == Head(timers).of
  <2>1. /\ timers \in Seq(Timer) /\ Timeout
        /\ r \in Requests /\ RequestInv(r) /\ Pending(r)
    BY TailType DEF ApiInv, RequestsInv, TypeOK, Timer, Awaited, Pending
  <2>2. ASSUME InOrder(timers, r) PROVE FALSE
    <3>1. 1 \in DOMAIN timers /\ timers[1] = Head(timers)
      BY <2>1
    <3>2. PICK i \in 1..1 - 1 : timers[i] = RequestTimer(r)
      BY <2>2, <3>1 DEF InOrder
    <3> QED
      BY <3>2
  <2> QED
    BY <2>1, <2>2 DEF RequestInv, AnsweredByTimer, TimerAhead
<1> QED
  BY <1>1, ApiInvariant, PTL

\* executeQuery closes its session, whether the query succeeds, fails or is given up.
THEOREM PlainSessionsClosed == Spec => []PlainSessionsAreClosed
<1>1. ApiInv => PlainSessionsAreClosed
  BY DEF ApiInv, RequestsInv, RequestInv, SessionsClosed, Plain, TypeOK, Session, PlainSessionsAreClosed
<1> QED
  BY <1>1, ApiInvariant, PTL

\* The id of a request never leads to a context that is kept by nothing else.
THEOREM ContextsFreed == Spec => []ContextsAreFreed
<1> DEFINE Inv == ContextTypeOK /\ ContextsAreFreed
<1>1. Init => Inv
  BY InitInv, ContextAssumption DEF ApiInv, TypeOK, Init, ContextInit, ContextsAreFreed
<1>2. ASSUME Inv, [Next]_vars PROVE ContextsAreFreed'
  <2>1. CASE UNCHANGED contextVars
    BY <1>2, <2>1 DEF contextVars, ContextsAreFreed
  <2>2. ASSUME NEW r \in Requests, EnterContext(r) PROVE ContextsAreFreed'
    BY <1>2, <2>2, ContextAssumption DEF EnterContext, ContextTypeOK, ContextsAreFreed
  <2>3. ASSUME NEW r \in Requests, InitResource(r) PROVE ContextsAreFreed'
    BY <1>2, <2>3, ContextAssumption DEF InitResource, ContextTypeOK, ContextsAreFreed
  <2>4. ASSUME NEW r \in Requests, NEW handled, DestroyResource(r, handled) PROVE ContextsAreFreed'
    BY <1>2, <2>4, ContextAssumption DEF DestroyResource, ForgetId, ContextTypeOK, ContextsAreFreed
  <2> QED
    BY <1>2, <2>1, <2>2, <2>3, <2>4
    DEF Next, TimerStep, Run, Arrive, Refused, Control, StartQuery, Succeeds, QueryAnswers, QueryFails,
        Commits, CommitFails, RollsBack, Retries, Returns, WaitsFor, Throws, RequestTimesOut, QueryTimesOut, TimesOutInVain, Collect, vars
<1>3. TypeOK /\ ContextsAreFreed /\ [Next]_vars => ContextsAreFreed'
  BY <1>2 DEF TypeOK
<1>4. Init => ContextsAreFreed
  BY <1>1
<1> QED
  BY <1>3, <1>4, TypeCorrect, PTL DEF Spec

=============================================================================
