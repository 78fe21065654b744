----------------------------- MODULE TopicFetch -----------------------------
(***************************************************************************)
(* MSKService.GetTopicsWithConfigs (internal/services/msk/msk_service.go): *)
(* a listing of topics, one goroutine per named topic behind a weighted    *)
(* semaphore, a buffered result channel that the caller drains only after  *)
(* the last goroutine is spawned, a closer goroutine that waits for the    *)
(* wait group, and a sequential second try of the topics that failed.      *)
(*                                                                         *)
(* A topic is its index in the list.  Goroutines interleave at every call  *)
(* that touches shared state: the AWS call, the mutex, the append to the   *)
(* shared slice, the channel, the wait group and the semaphore.            *)
(***************************************************************************)
EXTENDS Naturals, FiniteSets

CONSTANTS
  N,               \* len(topicList)
  Named,           \* the entries whose TopicName is not nil
  MaxConcurrency,  \* weight of the semaphore, 25 in the code
  MaxExtraRetries  \* extra attempts after a 429, 5 in the code

ASSUME ConstantsAssumption ==
  /\ N \in Nat
  /\ Named \subseteq 1..N
  /\ MaxConcurrency \in Nat \ {0}
  /\ MaxExtraRetries \in Nat

Topic == 1..N

\* make(chan types.TopicDetails, len(topicList))
ChanCap == N

Free == 0  \* no goroutine holds failedTopicsMu

VARIABLES
  main,     \* where the calling goroutine is
  next,     \* index of the range loop over topicList
  worker,   \* where the goroutine of each topic is
  tries,    \* throttled attempts of the current DescribeTopic, per topic
  held,     \* semaphore weight held
  wg,       \* wait group counter
  mutex,    \* holder of failedTopicsMu
  seen,     \* failedTopics as a goroutine read it before its append
  failed,   \* failedTopics
  chan,     \* topics whose details are in resultChan
  closed,   \* resultChan is closed
  details,  \* number of entries of each topic in topicDetails
  todo,     \* failed topics the second pass has still to try
  dropped   \* topics given up for good

vars == <<main, next, worker, tries, held, wg, mutex, seen, failed, chan,
          closed, details, todo, dropped>>

sharedVars == <<held, wg, mutex, seen, failed, chan, closed>>
resultVars == <<details, todo, dropped>>

WorkerState == {"none", "describing", "sending", "failing", "locked",
                "unlocking", "finishing", "releasing", "exited"}

\* Goroutines the wait group still counts, and those that hold a permit.
Counted == {"describing", "sending", "failing", "locked", "unlocking",
            "finishing"}
Holding == Counted \cup {"releasing"}

Init ==
  /\ main = "list"
  /\ next = 1
  /\ worker = [t \in Topic |-> "none"]
  /\ tries = [t \in Topic |-> 0]
  /\ held = 0
  /\ wg = 0
  /\ mutex = Free
  /\ seen = [t \in Topic |-> {}]
  /\ failed = {}
  /\ chan = {}
  /\ closed = FALSE
  /\ details = [t \in Topic |-> 0]
  /\ todo = {}
  /\ dropped = {}

-----------------------------------------------------------------------------
(* The calling goroutine up to the drain. *)

ListTopics ==
  /\ main = "list"
  /\ main' = "loop"
  /\ UNCHANGED <<next, worker, tries, sharedVars, resultVars>>

ListTopicsFails ==
  /\ main = "list"
  /\ main' = "error"
  /\ UNCHANGED <<next, worker, tries, sharedVars, resultVars>>

SkipUnnamed ==
  /\ main = "loop"
  /\ next \in Topic \ Named
  /\ next' = next + 1
  /\ UNCHANGED <<main, worker, tries, sharedVars, resultVars>>

\* sem.Acquire blocks while the whole weight is held.
Acquire ==
  /\ main = "loop"
  /\ next \in Named
  /\ held < MaxConcurrency
  /\ held' = held + 1
  /\ main' = "spawn"
  /\ UNCHANGED <<next, worker, tries, wg, mutex, seen, failed, chan, closed,
                 resultVars>>

Spawn ==
  /\ main = "spawn"
  /\ wg' = wg + 1
  /\ worker' = [worker EXCEPT ![next] = "describing"]
  /\ next' = next + 1
  /\ main' = "loop"
  /\ UNCHANGED <<tries, held, mutex, seen, failed, chan, closed, resultVars>>

\* The closer goroutine is running from here on.
StartDraining ==
  /\ main = "loop"
  /\ next = N + 1
  /\ main' = "drain"
  /\ UNCHANGED <<next, worker, tries, sharedVars, resultVars>>

-----------------------------------------------------------------------------
(* A topic's goroutine; DescribeTopic is RateLimitedMSKClient.DescribeTopic. *)

\* Mutant of DescribeSucceeds: wg.Done called before the result is sent.
DescribeSucceedsDoneEarly(t) ==
  /\ worker[t] = "describing"
  /\ worker' = [worker EXCEPT ![t] = "sending"]
  /\ wg' = wg - 1
  /\ UNCHANGED <<main, next, tries, held, mutex, seen, failed, chan, closed,
                 resultVars>>

DescribeSucceeds(t) ==
  /\ worker[t] = "describing"
  /\ worker' = [worker EXCEPT ![t] = "sending"]
  /\ UNCHANGED <<main, next, tries, sharedVars, resultVars>>

DescribeThrottled(t) ==
  /\ worker[t] = "describing"
  /\ IF tries[t] < MaxExtraRetries
       THEN /\ tries' = [tries EXCEPT ![t] = @ + 1]
            /\ UNCHANGED worker
       ELSE /\ worker' = [worker EXCEPT ![t] = "failing"]
            /\ tries' = [tries EXCEPT ![t] = 0]
  /\ UNCHANGED <<main, next, sharedVars, resultVars>>

DescribeFails(t) ==
  /\ worker[t] = "describing"
  /\ worker' = [worker EXCEPT ![t] = "failing"]
  /\ tries' = [tries EXCEPT ![t] = 0]
  /\ UNCHANGED <<main, next, sharedVars, resultVars>>

\* Mutant of LockFailed: the mutex is not waited for.
LockFailedUnguarded(t) ==
  /\ worker[t] = "failing"
  /\ mutex' = t
  /\ seen' = [seen EXCEPT ![t] = failed]
  /\ worker' = [worker EXCEPT ![t] = "locked"]
  /\ UNCHANGED <<main, next, tries, held, wg, failed, chan, closed, resultVars>>

\* Lock, and the read half of failedTopics = append(failedTopics, name).
LockFailed(t) ==
  /\ worker[t] = "failing"
  /\ mutex = Free
  /\ mutex' = t
  /\ seen' = [seen EXCEPT ![t] = failed]
  /\ worker' = [worker EXCEPT ![t] = "locked"]
  /\ UNCHANGED <<main, next, tries, held, wg, failed, chan, closed, resultVars>>

AppendFailed(t) ==
  /\ worker[t] = "locked"
  /\ failed' = seen[t] \cup {t}
  /\ seen' = [seen EXCEPT ![t] = {}]
  /\ worker' = [worker EXCEPT ![t] = "unlocking"]
  /\ UNCHANGED <<main, next, tries, held, wg, mutex, chan, closed, resultVars>>

\* Mutant of Unlock: the early return of a failed topic forgets the mutex.
UnlockForgotten(t) ==
  /\ worker[t] = "unlocking"
  /\ worker' = [worker EXCEPT ![t] = "finishing"]
  /\ UNCHANGED <<main, next, tries, sharedVars, resultVars>>

Unlock(t) ==
  /\ worker[t] = "unlocking"
  /\ mutex' = Free
  /\ worker' = [worker EXCEPT ![t] = "finishing"]
  /\ UNCHANGED <<main, next, tries, held, wg, seen, failed, chan, closed,
                 resultVars>>

\* A send on the buffered channel blocks while the buffer is full.
Send(t) ==
  /\ worker[t] = "sending"
  /\ Cardinality(chan) < ChanCap
  /\ chan' = chan \cup {t}
  /\ worker' = [worker EXCEPT ![t] = "finishing"]
  /\ UNCHANGED <<main, next, tries, held, wg, mutex, seen, failed, closed,
                 resultVars>>

\* Deferred calls run last-in first-out: wg.Done, then sem.Release.
Done(t) ==
  /\ worker[t] = "finishing"
  /\ wg' = wg - 1
  /\ worker' = [worker EXCEPT ![t] = "releasing"]
  /\ UNCHANGED <<main, next, tries, held, mutex, seen, failed, chan, closed,
                 resultVars>>

\* Mutant of Release: the permit is never given back.
ReleaseForgotten(t) ==
  /\ worker[t] = "releasing"
  /\ worker' = [worker EXCEPT ![t] = "exited"]
  /\ UNCHANGED <<main, next, tries, sharedVars, resultVars>>

Release(t) ==
  /\ worker[t] = "releasing"
  /\ held' = held - 1
  /\ worker' = [worker EXCEPT ![t] = "exited"]
  /\ UNCHANGED <<main, next, tries, wg, mutex, seen, failed, chan, closed,
                 resultVars>>

-----------------------------------------------------------------------------
(* The closer, the drain and the second pass. *)

\* Mutant of CloseChan: the channel is closed without wg.Wait.
CloseChanEarly ==
  /\ main = "drain"
  /\ ~closed
  /\ closed' = TRUE
  /\ UNCHANGED <<main, next, worker, tries, held, wg, mutex, seen, failed,
                 chan, resultVars>>

\* The closer goroutine exists once the loop is over, i.e. from "drain" on.
CloseChan ==
  /\ main = "drain"
  /\ wg = 0
  /\ ~closed
  /\ closed' = TRUE
  /\ UNCHANGED <<main, next, worker, tries, held, wg, mutex, seen, failed,
                 chan, resultVars>>

Receive(t) ==
  /\ main = "drain"
  /\ t \in chan
  /\ chan' = chan \ {t}
  /\ details' = [details EXCEPT ![t] = @ + 1]
  /\ UNCHANGED <<main, next, worker, tries, held, wg, mutex, seen, failed,
                 closed, todo, dropped>>

StartRetry ==
  /\ main = "drain"
  /\ closed
  /\ chan = {}
  /\ main' = "retry"
  /\ todo' = failed
  /\ UNCHANGED <<next, worker, tries, sharedVars, details, dropped>>

\* Mutant of RetrySucceeds: the retried topic stays in the list.
RetrySucceedsStays(t) ==
  /\ main = "retry"
  /\ t \in todo
  /\ details[t] < 2
  /\ details' = [details EXCEPT ![t] = @ + 1]
  /\ UNCHANGED <<main, next, worker, tries, sharedVars, todo, dropped>>

RetrySucceeds(t) ==
  /\ main = "retry"
  /\ t \in todo
  /\ todo' = todo \ {t}
  /\ details' = [details EXCEPT ![t] = @ + 1]
  /\ UNCHANGED <<main, next, worker, tries, sharedVars, dropped>>

RetryThrottled(t) ==
  /\ main = "retry"
  /\ t \in todo
  /\ tries[t] < MaxExtraRetries
  /\ tries' = [tries EXCEPT ![t] = @ + 1]
  /\ UNCHANGED <<main, next, worker, sharedVars, resultVars>>

\* Any other error, or the throttled attempt that was the last one.
RetryFails(t) ==
  /\ main = "retry"
  /\ t \in todo
  /\ todo' = todo \ {t}
  /\ dropped' = dropped \cup {t}
  /\ UNCHANGED <<main, next, worker, tries, sharedVars, details>>

Return ==
  /\ main = "retry"
  /\ todo = {}
  /\ main' = "done"
  /\ UNCHANGED <<next, worker, tries, sharedVars, resultVars>>

Caller ==
  \/ ListTopics \/ ListTopicsFails
  \/ SkipUnnamed \/ Acquire \/ Spawn \/ StartDraining
  \/ \E t \in Topic : Receive(t)
  \/ StartRetry
  \/ \E t \in Topic : RetrySucceeds(t) \/ RetryThrottled(t) \/ RetryFails(t)
  \/ Return

Goroutine(t) ==
  \/ DescribeSucceeds(t) \/ DescribeThrottled(t) \/ DescribeFails(t)
  \/ LockFailed(t) \/ AppendFailed(t) \/ Unlock(t)
  \/ Send(t) \/ Done(t) \/ Release(t)

Next == Caller \/ CloseChan \/ \E t \in Topic : Goroutine(t)

Spec == Init /\ [][Next]_vars

(* The Go scheduler runs every goroutine that can run, and the AWS client  *)
(* has its own time-outs, so every call returns.                           *)
Fairness ==
  /\ WF_vars(Caller)
  /\ WF_vars(CloseChan)
  /\ \A t \in Topic : WF_vars(Goroutine(t))

FairSpec == Spec /\ Fairness

-----------------------------------------------------------------------------
TypeOK ==
  /\ main \in {"list", "error", "loop", "spawn", "drain", "retry", "done"}
  /\ next \in 1..N + 1
  /\ worker \in [Topic -> WorkerState]
  /\ tries \in [Topic -> 0..MaxExtraRetries]
  /\ held \in Nat
  /\ wg \in Nat
  /\ mutex \in Topic \cup {Free}
  /\ seen \in [Topic -> SUBSET Topic]
  /\ failed \in SUBSET Topic
  /\ chan \in SUBSET Topic
  /\ closed \in BOOLEAN
  /\ details \in [Topic -> Nat]
  /\ todo \in SUBSET Topic
  /\ dropped \in SUBSET Topic

(* Never more than MaxConcurrency DescribeTopic calls of the first pass are *)
(* in flight, whatever the order of releases and acquisitions.              *)
BoundedConcurrency ==
  Cardinality({t \in Topic : worker[t] = "describing"}) <= MaxConcurrency

(* A goroutine with a result finds room in the channel although nobody     *)
(* receives before the last goroutine is spawned: otherwise the senders    *)
(* keep their permits and the loop waits for them in sem.Acquire for ever. *)
SendNeverBlocks ==
  \A t \in Topic : worker[t] = "sending" => Cardinality(chan) < ChanCap

(* Nobody can send on the closed channel, which would panic.               *)
NoSendOnClosed ==
  closed => \A t \in Topic : worker[t] \notin {"describing", "sending"}

(* When the call returns, each named topic is in the result exactly once   *)
(* or was given up after its second try, and no unnamed entry is there.    *)
EveryTopicSettledOnce ==
  main = "done" =>
    \A t \in Topic :
      details[t] + (IF t \in dropped THEN 1 ELSE 0) = IF t \in Named THEN 1 ELSE 0

(* The second pass reads failedTopics without the mutex: nothing writes it *)
(* from the moment the caller starts to read it.                           *)
FailedTopicsReadSafely ==
  [][(main \in {"retry", "done"}) => failed' = failed]_vars

(* Under the scheduler's fairness the call returns.                        *)
CallReturns == <>(main \in {"done", "error"})

(* No goroutine is left behind blocked on the mutex or the channel.        *)
NoGoroutineLeak ==
  <>[](\A t \in Topic : worker[t] \in {"none", "exited"})

-----------------------------------------------------------------------------
(* The call implements TopicScan: the list is fixed at "list", and a topic *)
(* is described from the moment its result is in the channel.              *)
AbsPhase ==
  CASE main = "list" -> "listing"
    [] main = "error" -> "refused"
    [] main = "done" -> "returned"
    [] OTHER -> "fetching"

AbsOutcome ==
  [t \in Named |-> IF t \in chan \/ details[t] > 0 THEN "described"
                   ELSE IF t \in dropped THEN "dropped" ELSE "pending"]

Promise == INSTANCE TopicScan WITH phase <- AbsPhase, outcome <- AbsOutcome

(* Every step of the goroutines is a step of the promised interface.       *)
ImplementsScan == Promise!Spec

(* ... and the fair call also keeps its promise to return.                 *)
ImplementsFairScan == Promise!FairSpec
=============================================================================
