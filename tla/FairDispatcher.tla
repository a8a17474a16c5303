---------------------------- MODULE FairDispatcher ----------------------------
(***************************************************************************)
(* src/src/fair-dispatcher.ts: one upstream rate limit (TMDB's) shared     *)
(* between households.  Each household has a lane of waiting calls; lanes  *)
(* take turns; a token bucket, a bound on the calls in flight and a pause  *)
(* the upstream asked for decide when the next call may start.  Calls may  *)
(* hang, time out, be aborted or be told to come back later.               *)
(*                                                                         *)
(* Time passes in ticks of 1 / ratePerSecond; deadlines and the pause are  *)
(* what is left of them.  #pump runs to its end inside the operation that  *)
(* called it: while `pumping` nothing else happens.                        *)
(***************************************************************************)
EXTENDS Naturals, Sequences, FiniteSets, SequencesExt

CONSTANTS Household,
          Call,              \* the calls somebody may make, one at a time each
          LaneOf,            \* the household of each
          Burst, MaxInFlight, MaxQueuedPerLane, MaxQueued,
          QueueTimeout,      \* queueTimeoutMs, in ticks
          MaxRetryAfter      \* maxRetryAfterMs, in ticks

ASSUME LimitsAssumption ==
  {Burst, MaxInFlight, MaxQueuedPerLane, MaxQueued, QueueTimeout} \subseteq Nat \ {0}
ASSUME MaxRetryAfterAssumption == MaxRetryAfter \in Nat
ASSUME HouseholdAssumption == IsFiniteSet(Household)
ASSUME LaneAssumption == LaneOf \in [Call -> Household]

Lane(c) == LaneOf[c]

VARIABLES
  lanes,     \* #lanes: the households with calls waiting, in turn order
  waiting,   \* #lanes: each one's waiting calls, oldest first
  queued,    \* #queued
  inFlight,  \* #inFlight
  tokens,    \* #tokens
  paused,    \* #pausedUntil, as ticks from now
  asleep,    \* #timer is set
  wakeIn,    \* when it is due
  pumping,   \* #pump is running
  call,      \* the jobs
  hung,      \* calls that were given up on and whose task still runs
  ahead      \* history: the households that may still start a call before one's next

limits == <<tokens, paused>>
timer == <<asleep, wakeIn>>
vars == <<lanes, waiting, queued, inFlight, tokens, paused, asleep, wakeIn, pumping, call, hung, ahead>>

-----------------------------------------------------------------------------
(* Data *)

Job == [state : {"none", "waiting", "flying"}, deadline : 0..QueueTimeout, retried : BOOLEAN]
NoJob == [state |-> "none", deadline |-> 0, retried |-> FALSE]

Flying == {c \in Call : call[c].state = "flying"}

LaneSet == {lanes[k] : k \in DOMAIN lanes}

Lesser(a, b) == IF a < b THEN a ELSE b
Less1(n) == IF n = 0 THEN 0 ELSE n - 1

Init ==
  /\ lanes = <<>>
  /\ waiting = [h \in Household |-> <<>>]
  /\ queued = 0 /\ inFlight = 0
  /\ tokens = Burst /\ paused = 0
  /\ asleep = FALSE /\ wakeIn = 0 /\ pumping = FALSE
  /\ call = [c \in Call |-> NoJob]
  /\ hung = {}
  /\ ahead = [h \in Household |-> {}]

-----------------------------------------------------------------------------
(* Queueing *)

HasRoom(h) == Len(waiting[h]) < MaxQueuedPerLane /\ queued < MaxQueued

\* Mutant: a household that comes back goes before those that wait.
JoinFirst(h) == <<h>> \o lanes

JoinLast(h) == Append(lanes, h)

\* #enqueue: a lane with nothing waiting joins the turn order at its end.
Enqueue(c, first) ==
  LET h == Lane(c) IN
  /\ waiting' = [waiting EXCEPT ![h] = IF first THEN <<c>> \o @ ELSE Append(@, c)]
  /\ queued' = queued + 1
  /\ IF waiting[h] = <<>>
     THEN lanes' = JoinLast(h) /\ ahead' = [ahead EXCEPT ![h] = LaneSet]
     ELSE UNCHANGED <<lanes, ahead>>

\* #pump begins by clearing the timer.
Pump == pumping' = TRUE /\ asleep' = FALSE /\ wakeIn' = 0

Run(c) ==
  /\ ~pumping
  /\ call[c].state = "none" /\ c \notin hung
  /\ HasRoom(Lane(c))
  /\ Enqueue(c, FALSE)
  /\ call' = [call EXCEPT ![c] = [state |-> "waiting", deadline |-> QueueTimeout, retried |-> FALSE]]
  /\ Pump
  /\ UNCHANGED <<inFlight, limits, hung>>

LeaveTurn(h) ==
  /\ \E j \in DOMAIN lanes : lanes[j] = h /\ lanes' = RemoveAt(lanes, j)
  /\ ahead' = [ahead EXCEPT ![h] = {}]

\* Mutant: the timer is cleared with whatever call is forgotten.
ClearTimerAnyway(h) == asleep' = FALSE /\ wakeIn' = 0

\* With nothing waiting any more, nothing is to be woken for.
ClearTimer(h) ==
  IF waiting'[h] = <<>> /\ Len(lanes) = 1 THEN asleep' = FALSE /\ wakeIn' = 0 ELSE UNCHANGED timer

\* #dequeue: its time ran out or its caller gave up while it waited.
Dequeue(c) ==
  LET h == Lane(c) IN
  /\ call[c].state = "waiting"
  /\ \E k \in DOMAIN waiting[h] :
       waiting[h][k] = c /\ waiting' = [waiting EXCEPT ![h] = RemoveAt(@, k)]
  /\ IF Len(waiting[h]) = 1 THEN LeaveTurn(h) ELSE UNCHANGED <<lanes, ahead>>
  /\ ClearTimer(h)
  /\ queued' = queued - 1
  /\ call' = [call EXCEPT ![c] = NoJob]
  /\ UNCHANGED <<inFlight, limits, pumping, hung>>

QueueTimesOut(c) == ~pumping /\ call[c].deadline = 0 /\ Dequeue(c)

AbortWaiting(c) == ~pumping /\ Dequeue(c)

-----------------------------------------------------------------------------
(* #pump *)

MayStart == lanes # <<>> /\ inFlight < MaxInFlight /\ paused = 0 /\ tokens > 0

\* Mutant: a lane with more calls waiting keeps its place.
TurnKept(h, more) == IF more THEN lanes ELSE Tail(lanes)

\* The lane whose turn it was goes last, or leaves.
TurnTaken(h, more) == IF more THEN Append(Tail(lanes), h) ELSE Tail(lanes)

\* One turn of #pump's loop: the next lane's oldest call starts.
Start ==
  /\ pumping /\ MayStart
  /\ LET h == Head(lanes)
         more == Len(waiting[h]) > 1
     IN  /\ call' = [call EXCEPT ![Head(waiting[h])].state = "flying"]
         /\ waiting' = [waiting EXCEPT ![h] = Tail(@)]
         /\ lanes' = TurnTaken(h, more)
         /\ ahead' = [g \in Household |->
              IF g # h THEN ahead[g] \ {h} ELSE IF more THEN LaneSet \ {h} ELSE {}]
  /\ queued' = queued - 1
  /\ tokens' = tokens - 1
  /\ inFlight' = inFlight + 1
  /\ UNCHANGED <<paused, timer, pumping, hung>>

\* #pump ends: it sleeps until the next call may start, or until one settles.
Sleep ==
  /\ pumping /\ ~MayStart
  /\ pumping' = FALSE
  /\ asleep' = (lanes # <<>> /\ inFlight < MaxInFlight)
  /\ wakeIn' = IF ~asleep' THEN 0 ELSE IF paused > 0 THEN paused ELSE 1
  /\ UNCHANGED <<lanes, waiting, queued, inFlight, limits, call, hung, ahead>>

Wake ==
  /\ ~pumping /\ asleep /\ wakeIn = 0
  /\ Pump
  /\ UNCHANGED <<lanes, waiting, queued, inFlight, limits, call, hung, ahead>>

-----------------------------------------------------------------------------
(* Calls in flight *)

\* `finish`: the call's place is freed and the next call may start.
Settle(c) ==
  /\ ~pumping
  /\ call[c].state = "flying"
  /\ inFlight' = inFlight - 1
  /\ Pump

Forget(c) == call' = [call EXCEPT ![c] = NoJob] /\ UNCHANGED <<lanes, waiting, queued, ahead>>

\* The task answers, or fails for a reason of its own.
Answer(c) ==
  /\ Settle(c) /\ Forget(c)
  /\ UNCHANGED <<limits, hung>>

\* callTimeoutMs passes or the caller gives up: the task is told to stop, and the
\* place is freed whether it does or not.
GiveUp(c) ==
  /\ Settle(c) /\ Forget(c)
  /\ hung' = hung \cup {c}
  /\ UNCHANGED limits

\* Mutant: a task that ends late settles its call again.
LateAnswerSettles(c) ==
  /\ ~pumping /\ c \in hung
  /\ hung' = hung \ {c}
  /\ inFlight' = Less1(inFlight)
  /\ Pump
  /\ UNCHANGED <<lanes, waiting, queued, limits, call, ahead>>

\* A task that was given up on ends: `job.finish !== finish`, so nothing happens.
LateAnswer(c) ==
  /\ ~pumping /\ c \in hung
  /\ hung' = hung \ {c}
  /\ UNCHANGED <<lanes, waiting, queued, inFlight, limits, timer, pumping, call, ahead>>

MayRetry(c) == ~call[c].retried /\ call[c].deadline > paused' /\ HasRoom(Lane(c))

\* #failed: the upstream says to wait; the call is retried once, first in its lane, if
\* there is time and room.
RateLimited(c, wait) ==
  /\ Settle(c)
  /\ paused' = IF wait > paused THEN wait ELSE paused
  /\ tokens' = 0
  /\ IF MayRetry(c)
     THEN /\ Enqueue(c, TRUE)
          /\ call' = [call EXCEPT ![c].state = "waiting", ![c].retried = TRUE]
     ELSE Forget(c)
  /\ UNCHANGED hung

-----------------------------------------------------------------------------
(* Time *)

\* The bucket refills as time passes, but for the time of a pause.
Refill == IF paused > 0 THEN tokens ELSE Lesser(Burst, tokens + 1)

Tick ==
  /\ ~pumping
  /\ tokens' = Refill
  /\ paused' = Less1(paused)
  /\ wakeIn' = Less1(wakeIn)
  /\ call' = [c \in Call |-> [call[c] EXCEPT !.deadline = Less1(@)]]
  /\ UNCHANGED <<lanes, waiting, queued, inFlight, asleep, pumping, hung, ahead>>

Calls == \E c \in Call : \/ Run(c) \/ AbortWaiting(c) \/ Answer(c) \/ LateAnswer(c)
                         \/ \E wait \in 0..MaxRetryAfter : RateLimited(c, wait)
Timers == \/ \E c \in Call : QueueTimesOut(c) \/ GiveUp(c)
          \/ Wake \/ Tick

Next == Calls \/ Timers \/ Start \/ Sleep

Spec == Init /\ [][Next]_vars

\* #pump's loop ends, time passes, the timer fires and calls in flight time out (strong
\* fairness, for all that `pumping` makes them wait their turn); no call need ever be
\* answered, and none need ever be given up on while it waits.
Fairness ==
  /\ WF_vars(Start) /\ WF_vars(Sleep) /\ SF_vars(Tick) /\ SF_vars(Wake)
  /\ \A c \in Call : SF_vars(GiveUp(c))

FairSpec == Spec /\ Fairness

-----------------------------------------------------------------------------
(* Properties *)

TypeOK ==
  /\ lanes \in Seq(Household)
  /\ waiting \in [Household -> Seq(Call)]
  /\ queued \in Nat /\ inFlight \in Nat
  /\ tokens \in 0..Burst /\ paused \in 0..MaxRetryAfter
  /\ asleep \in BOOLEAN /\ wakeIn \in Nat /\ pumping \in BOOLEAN
  /\ call \in [Call -> Job]
  /\ hung \subseteq Call
  /\ ahead \in [Household -> SUBSET Household]

\* However calls end, late or twice, as many places are taken as calls are unfinished,
\* never more than maxInFlight ("at most maxInFlight are ever unfinished at the same time").
PlacesCounted == inFlight = Cardinality(Flying) /\ inFlight <= MaxInFlight

\* "The queue bounds always hold, however many calls in flight are rate limited."
QueueBounds ==
  /\ queued <= MaxQueued
  /\ \A h \in Household : Len(waiting[h]) <= MaxQueuedPerLane

\* The lanes in turn order are those with calls waiting, once each, and a call waits
\* at one place of its lane exactly while its job says so.
LanesConsistent ==
  /\ \A h \in Household : h \in LaneSet <=> waiting[h] # <<>>
  /\ \A j, k \in DOMAIN lanes : lanes[j] = lanes[k] => j = k
  /\ \A h \in Household : \A j, k \in DOMAIN waiting[h] :
       /\ Lane(waiting[h][k]) = h /\ call[waiting[h][k]].state = "waiting"
       /\ waiting[h][j] = waiting[h][k] => j = k
  /\ \A c \in Call : call[c].state = "waiting" => \E k \in DOMAIN waiting[Lane(c)] : waiting[Lane(c)][k] = c

\* With room for every household's full lane, as app-api.ts configures it, a household
\* is refused for what it has waiting itself, never because of another.
RefusedForItself ==
  MaxQueued >= MaxQueuedPerLane * Cardinality(Household) =>
    \A h \in Household : Len(waiting[h]) < MaxQueuedPerLane => HasRoom(h)

\* What the dispatcher keeps in several places about one call agrees, however calls end: the places in flight, the
\* bounds of the queues, and the lanes with the turn order; and a household is refused for its own calls only.
Accounted == TypeOK /\ PlacesCounted /\ QueueBounds /\ LanesConsistent /\ RefusedForItself

\* Calls that wait are never slept on: while a place is free the timer is set, for no
\* later than the end of the pause or the next token.
NoLostWakeup ==
  ~pumping /\ lanes # <<>> /\ inFlight < MaxInFlight =>
    asleep /\ wakeIn <= (IF paused > 0 THEN paused ELSE 1)

\* "Another household's next call waits for at most one turn of each other household
\* with calls waiting, never behind the whole queue."
Starts(c) == call[c].state = "waiting" /\ call'[c].state = "flying"
OneTurnEach == [][\A c \in Call : Starts(c) =>
  \A h \in LaneSet \ {Lane(c)} : Lane(c) \in ahead[h]]_vars

\* Every call is started in its lane's turn, and ends, unless its time runs out first:
\* also when the upstream answers nothing or a rate limit to every call.
EveryCallEnds == \A c \in Call : []<>(call[c].state = "none")
=============================================================================
