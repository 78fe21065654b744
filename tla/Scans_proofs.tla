---------------------------- MODULE Scans_proofs ----------------------------
(***************************************************************************)
(* What is proved about the scans whose goroutines and loops read topics:  *)
(* about TopicFetch for every list, every weight of the semaphore and      *)
(* every number of attempts, and about ConnectScan for any connectors and  *)
(* partitions and any number of messages that Kafka Connect writes before, *)
(* during and after a scan.                                                *)
(***************************************************************************)
EXTENDS TopicFetch, ConnectScan, FiniteSetTheorems, WellFoundedInduction, TLAPS

-----------------------------------------------------------------------------
(* The topic fetch.                                                        *)


CountedSet == {t \in Topic : worker[t] \in Counted}
HoldingSet == {t \in Topic : worker[t] \in Holding}

\* The loop spawns the goroutines in the order of the list.
LoopInv ==
  /\ \A t \in Topic : t >= next => worker[t] = "none"
  /\ \A t \in Topic : t < next => (worker[t] = "none" <=> t \notin Named)
  /\ main \in {"list", "error"} => next = 1
  /\ main = "spawn" => next \in Named
  /\ main \in {"drain", "retry", "done"} => next = N + 1

\* The counters are the numbers of goroutines they stand for.
CountInv ==
  /\ wg = Cardinality(CountedSet)
  /\ held = Cardinality(HoldingSet) + (IF main = "spawn" THEN 1 ELSE 0)
  /\ held <= MaxConcurrency

\* The mutex belongs to one goroutine, which appends to what it has read.
MutexInv ==
  \A t \in Topic :
    /\ worker[t] \in {"locked", "unlocking"} <=> mutex = t
    /\ worker[t] = "locked" => seen[t] = failed

\* The channel is closed after the last goroutine and drained before the retry.
CloseInv ==
  /\ closed => main \in {"drain", "retry", "done"} /\ CountedSet = {}
  /\ main \in {"retry", "done"} => closed /\ chan = {}

\* Where the outcome of a topic is, before and during the second pass.
Undecided(t) == t \notin chan /\ t \notin failed /\ details[t] = 0
InChannel(t) == t \in chan /\ t \notin failed /\ details[t] = 0
InResult(t) == t \notin chan /\ t \notin failed /\ details[t] = 1
InFailed(t) == t \notin chan /\ t \in failed

OutcomeInv ==
  /\ main \notin {"retry", "done"} => todo = {} /\ dropped = {}
  /\ main = "done" => todo = {}
  /\ \A t \in Topic :
       /\ worker[t] \in {"none", "describing", "sending", "failing", "locked"}
            => Undecided(t)
       /\ worker[t] = "unlocking" => InFailed(t)
       /\ worker[t] \in {"finishing", "releasing", "exited"}
            => InChannel(t) \/ InResult(t) \/ InFailed(t)
       /\ t \notin failed => t \notin todo /\ t \notin dropped
       /\ t \in failed /\ main \notin {"retry", "done"} => details[t] = 0
       /\ t \in failed /\ main \in {"retry", "done"} =>
            \/ t \in todo /\ t \notin dropped /\ details[t] = 0
            \/ t \notin todo /\ t \notin dropped /\ details[t] = 1
            \/ t \notin todo /\ t \in dropped /\ details[t] = 0

IInv == TypeOK /\ LoopInv /\ CountInv /\ MutexInv /\ CloseInv /\ OutcomeInv

-----------------------------------------------------------------------------
(* Every step is one of the actions, or leaves every variable unchanged. *)
LEMMA NextCases ==
  ASSUME [Next]_vars
  PROVE  \/ ListTopics \/ ListTopicsFails \/ SkipUnnamed \/ Acquire \/ Spawn
         \/ StartDraining \/ StartRetry \/ Return \/ CloseChan
         \/ \E t \in Topic : \/ Receive(t) \/ RetrySucceeds(t) \/ RetryThrottled(t)
                             \/ RetryFails(t) \/ DescribeSucceeds(t)
                             \/ DescribeThrottled(t) \/ DescribeFails(t)
                             \/ LockFailed(t) \/ AppendFailed(t) \/ Unlock(t)
                             \/ Send(t) \/ Done(t) \/ Release(t)
         \/ UNCHANGED vars
  BY DEF Next, Caller, Goroutine

(* The calling goroutine's place in the list. *)
LEMMA LoopStep == IInv /\ [Next]_vars => LoopInv'
<1> SUFFICES ASSUME IInv, [Next]_vars PROVE LoopInv'
  OBVIOUS
<1> USE ConstantsAssumption DEF IInv, TypeOK, LoopInv, Topic, sharedVars, resultVars
<1>1. CASE ListTopics
  BY <1>1 DEF ListTopics
<1>2. CASE ListTopicsFails
  BY <1>2 DEF ListTopicsFails
<1>3. CASE SkipUnnamed
  BY <1>3 DEF SkipUnnamed
<1>4. CASE Acquire
  BY <1>4 DEF Acquire
<1>5. CASE Spawn
  BY <1>5 DEF Spawn
<1>6. CASE StartDraining
  BY <1>6 DEF StartDraining
<1>7. CASE StartRetry
  BY <1>7 DEF StartRetry
<1>8. CASE Return
  BY <1>8 DEF Return
<1>9. CASE CloseChan
  BY <1>9 DEF CloseChan
<1>10. ASSUME NEW t \in Topic, Receive(t) PROVE LoopInv'
  BY <1>10 DEF Receive
<1>11. ASSUME NEW t \in Topic, RetrySucceeds(t) PROVE LoopInv'
  BY <1>11 DEF RetrySucceeds
<1>12. ASSUME NEW t \in Topic, RetryThrottled(t) PROVE LoopInv'
  BY <1>12 DEF RetryThrottled
<1>13. ASSUME NEW t \in Topic, RetryFails(t) PROVE LoopInv'
  BY <1>13 DEF RetryFails
<1>14. ASSUME NEW t \in Topic, DescribeSucceeds(t) PROVE LoopInv'
  BY <1>14 DEF DescribeSucceeds
<1>15. ASSUME NEW t \in Topic, DescribeThrottled(t) PROVE LoopInv'
  BY <1>15 DEF DescribeThrottled
<1>16. ASSUME NEW t \in Topic, DescribeFails(t) PROVE LoopInv'
  BY <1>16 DEF DescribeFails
<1>17. ASSUME NEW t \in Topic, LockFailed(t) PROVE LoopInv'
  BY <1>17 DEF LockFailed
<1>18. ASSUME NEW t \in Topic, AppendFailed(t) PROVE LoopInv'
  BY <1>18 DEF AppendFailed
<1>19. ASSUME NEW t \in Topic, Unlock(t) PROVE LoopInv'
  BY <1>19 DEF Unlock
<1>20. ASSUME NEW t \in Topic, Send(t) PROVE LoopInv'
  BY <1>20 DEF Send
<1>21. ASSUME NEW t \in Topic, Done(t) PROVE LoopInv'
  BY <1>21 DEF Done
<1>22. ASSUME NEW t \in Topic, Release(t) PROVE LoopInv'
  BY <1>22 DEF Release
<1>23. CASE UNCHANGED vars
  BY <1>23 DEF vars
<1>24. QED
  BY <1>1, <1>2, <1>3, <1>4, <1>5, <1>6, <1>7, <1>8, <1>9, <1>10, <1>11, <1>12, <1>13, <1>14, <1>15, <1>16, <1>17, <1>18, <1>19, <1>20, <1>21, <1>22, <1>23, NextCases

(* The mutex. *)
LEMMA MutexStep == IInv /\ [Next]_vars => MutexInv'
<1> SUFFICES ASSUME IInv, [Next]_vars PROVE MutexInv'
  OBVIOUS
<1> USE ConstantsAssumption DEF IInv, TypeOK, MutexInv, LoopInv, Topic, Free, sharedVars, resultVars
<1>1. CASE ListTopics
  BY <1>1 DEF ListTopics
<1>2. CASE ListTopicsFails
  BY <1>2 DEF ListTopicsFails
<1>3. CASE SkipUnnamed
  BY <1>3 DEF SkipUnnamed
<1>4. CASE Acquire
  BY <1>4 DEF Acquire
<1>5. CASE Spawn
  BY <1>5 DEF Spawn
<1>6. CASE StartDraining
  BY <1>6 DEF StartDraining
<1>7. CASE StartRetry
  BY <1>7 DEF StartRetry
<1>8. CASE Return
  BY <1>8 DEF Return
<1>9. CASE CloseChan
  BY <1>9 DEF CloseChan
<1>10. ASSUME NEW t \in Topic, Receive(t) PROVE MutexInv'
  BY <1>10 DEF Receive
<1>11. ASSUME NEW t \in Topic, RetrySucceeds(t) PROVE MutexInv'
  BY <1>11 DEF RetrySucceeds
<1>12. ASSUME NEW t \in Topic, RetryThrottled(t) PROVE MutexInv'
  BY <1>12 DEF RetryThrottled
<1>13. ASSUME NEW t \in Topic, RetryFails(t) PROVE MutexInv'
  BY <1>13 DEF RetryFails
<1>14. ASSUME NEW t \in Topic, DescribeSucceeds(t) PROVE MutexInv'
  BY <1>14 DEF DescribeSucceeds
<1>15. ASSUME NEW t \in Topic, DescribeThrottled(t) PROVE MutexInv'
  BY <1>15 DEF DescribeThrottled
<1>16. ASSUME NEW t \in Topic, DescribeFails(t) PROVE MutexInv'
  BY <1>16 DEF DescribeFails
<1>17. ASSUME NEW t \in Topic, LockFailed(t) PROVE MutexInv'
  BY <1>17 DEF LockFailed
<1>18. ASSUME NEW t \in Topic, AppendFailed(t) PROVE MutexInv'
  BY <1>18 DEF AppendFailed
<1>19. ASSUME NEW t \in Topic, Unlock(t) PROVE MutexInv'
  BY <1>19 DEF Unlock
<1>20. ASSUME NEW t \in Topic, Send(t) PROVE MutexInv'
  BY <1>20 DEF Send
<1>21. ASSUME NEW t \in Topic, Done(t) PROVE MutexInv'
  BY <1>21 DEF Done
<1>22. ASSUME NEW t \in Topic, Release(t) PROVE MutexInv'
  BY <1>22 DEF Release
<1>23. CASE UNCHANGED vars
  BY <1>23 DEF vars
<1>24. QED
  BY <1>1, <1>2, <1>3, <1>4, <1>5, <1>6, <1>7, <1>8, <1>9, <1>10, <1>11, <1>12, <1>13, <1>14, <1>15, <1>16, <1>17, <1>18, <1>19, <1>20, <1>21, <1>22, <1>23, NextCases

(* The outcome of each topic. *)
LEMMA OutcomeStep == IInv /\ [Next]_vars => OutcomeInv'
<1> SUFFICES ASSUME IInv, [Next]_vars PROVE OutcomeInv'
  OBVIOUS
<1> USE ConstantsAssumption DEF IInv, TypeOK, OutcomeInv, LoopInv, MutexInv, CloseInv,
        CountedSet, Counted, Undecided, InChannel, InResult, InFailed, Topic, sharedVars, resultVars
<1>1. CASE ListTopics
  BY <1>1 DEF ListTopics
<1>2. CASE ListTopicsFails
  BY <1>2 DEF ListTopicsFails
<1>3. CASE SkipUnnamed
  BY <1>3 DEF SkipUnnamed
<1>4. CASE Acquire
  BY <1>4 DEF Acquire
<1>5. CASE Spawn
  BY <1>5 DEF Spawn
<1>6. CASE StartDraining
  BY <1>6 DEF StartDraining
<1>7. CASE StartRetry
  BY <1>7 DEF StartRetry
<1>8. CASE Return
  BY <1>8 DEF Return
<1>9. CASE CloseChan
  BY <1>9 DEF CloseChan
<1>10. ASSUME NEW t \in Topic, Receive(t) PROVE OutcomeInv'
  <2>1. InChannel(t)
    BY <1>10 DEF Receive, WorkerState
  <2>2. /\ chan' = chan \ {t}
        /\ details' = [details EXCEPT ![t] = 1]
        /\ UNCHANGED <<main, worker, failed, todo, dropped>>
    BY <1>10, <2>1 DEF Receive
  <2>3. InResult(t)'
    BY <2>1, <2>2
  <2>4. QED
    BY <1>10, <2>1, <2>2, <2>3 DEF Receive
<1>11. ASSUME NEW t \in Topic, RetrySucceeds(t) PROVE OutcomeInv'
  BY <1>11 DEF RetrySucceeds
<1>12. ASSUME NEW t \in Topic, RetryThrottled(t) PROVE OutcomeInv'
  BY <1>12 DEF RetryThrottled
<1>13. ASSUME NEW t \in Topic, RetryFails(t) PROVE OutcomeInv'
  BY <1>13 DEF RetryFails
<1>14. ASSUME NEW t \in Topic, DescribeSucceeds(t) PROVE OutcomeInv'
  BY <1>14 DEF DescribeSucceeds
<1>15. ASSUME NEW t \in Topic, DescribeThrottled(t) PROVE OutcomeInv'
  BY <1>15 DEF DescribeThrottled
<1>16. ASSUME NEW t \in Topic, DescribeFails(t) PROVE OutcomeInv'
  BY <1>16 DEF DescribeFails
<1>17. ASSUME NEW t \in Topic, LockFailed(t) PROVE OutcomeInv'
  BY <1>17 DEF LockFailed
<1>18. ASSUME NEW t \in Topic, AppendFailed(t) PROVE OutcomeInv'
  BY <1>18 DEF AppendFailed
<1>19. ASSUME NEW t \in Topic, Unlock(t) PROVE OutcomeInv'
  BY <1>19 DEF Unlock
<1>20. ASSUME NEW t \in Topic, Send(t) PROVE OutcomeInv'
  BY <1>20 DEF Send
<1>21. ASSUME NEW t \in Topic, Done(t) PROVE OutcomeInv'
  BY <1>21 DEF Done
<1>22. ASSUME NEW t \in Topic, Release(t) PROVE OutcomeInv'
  BY <1>22 DEF Release
<1>23. CASE UNCHANGED vars
  BY <1>23 DEF vars
<1>24. QED
  BY <1>1, <1>2, <1>3, <1>4, <1>5, <1>6, <1>7, <1>8, <1>9, <1>10, <1>11, <1>12, <1>13, <1>14, <1>15, <1>16, <1>17, <1>18, <1>19, <1>20, <1>21, <1>22, <1>23, NextCases

-----------------------------------------------------------------------------
(* A set of topics is finite and no larger than the list. *)
LEMMA TopicsFinite ==
  ASSUME NEW S \in SUBSET Topic
  PROVE  IsFiniteSet(S) /\ Cardinality(S) \in Nat /\ Cardinality(S) <= N
<1>1. IsFiniteSet(Topic) /\ Cardinality(Topic) = N
  BY FS_Interval, ConstantsAssumption DEF Topic
<1>2. IsFiniteSet(S) /\ Cardinality(S) <= Cardinality(Topic)
  BY <1>1, FS_Subset
<1>. QED
  BY <1>1, <1>2, FS_CardinalityType

(* The counters of the semaphore and the wait group. *)
LEMMA CountStep == IInv /\ [Next]_vars => CountInv'
<1> SUFFICES ASSUME IInv, [Next]_vars PROVE CountInv'
  OBVIOUS
<1> USE ConstantsAssumption DEF IInv, TypeOK, CountInv, sharedVars, resultVars
<1> DEFINE C == CountedSet
           H == HoldingSet
<1>a. /\ C \in SUBSET Topic /\ H \in SUBSET Topic
      /\ C' \in SUBSET Topic /\ H' \in SUBSET Topic
  BY DEF CountedSet, HoldingSet
<1>b. /\ IsFiniteSet(C) /\ IsFiniteSet(H) /\ Cardinality(C) \in Nat
      /\ Cardinality(H) \in Nat
  BY <1>a, TopicsFinite
<1>c. ASSUME worker' = worker PROVE C' = C /\ H' = H
  BY <1>c DEF CountedSet, HoldingSet
<1>d. ASSUME NEW t \in Topic, worker[t] \in Counted,
             \E s \in Counted : worker' = [worker EXCEPT ![t] = s]
      PROVE  C' = C /\ H' = H
  BY <1>d DEF CountedSet, HoldingSet, Holding
<1> HIDE DEF C, H
<1>1. CASE ListTopics
  BY <1>1, <1>b, <1>c DEF ListTopics, C, H
<1>2. CASE ListTopicsFails
  BY <1>2, <1>b, <1>c DEF ListTopicsFails, C, H
<1>3. CASE SkipUnnamed
  BY <1>3, <1>b, <1>c DEF SkipUnnamed, C, H
<1>4. CASE StartDraining
  BY <1>4, <1>b, <1>c DEF StartDraining, C, H
<1>5. CASE StartRetry
  BY <1>5, <1>b, <1>c DEF StartRetry, C, H
<1>6. CASE Return
  BY <1>6, <1>b, <1>c DEF Return, C, H
<1>7. CASE CloseChan
  BY <1>7, <1>b, <1>c DEF CloseChan, C, H
<1>8. CASE Acquire
  BY <1>8, <1>b, <1>c DEF Acquire, C, H
<1>9. CASE Spawn
  <2>1. next \in Topic /\ worker[next] = "none"
    BY <1>9 DEF Spawn, LoopInv, Topic
  <2>2. next \notin C /\ next \notin H
    BY <2>1 DEF C, H, CountedSet, HoldingSet, Counted, Holding
  <2>3. C' = C \cup {next} /\ H' = H \cup {next}
    BY <1>9, <2>1 DEF Spawn, C, H, CountedSet, HoldingSet, Counted, Holding
  <2>4. Cardinality(C') = Cardinality(C) + 1 /\ Cardinality(H') = Cardinality(H) + 1
    BY <1>b, <2>2, <2>3, FS_AddElement
  <2>5. QED
    BY <1>9, <1>b, <2>4 DEF Spawn, C, H
<1>10. ASSUME NEW t \in Topic, Receive(t) PROVE CountInv'
  BY <1>10, <1>b, <1>c DEF Receive, C, H
<1>11. ASSUME NEW t \in Topic, RetrySucceeds(t) PROVE CountInv'
  BY <1>11, <1>b, <1>c DEF RetrySucceeds, C, H
<1>12. ASSUME NEW t \in Topic, RetryThrottled(t) PROVE CountInv'
  BY <1>12, <1>b, <1>c DEF RetryThrottled, C, H
<1>13. ASSUME NEW t \in Topic, RetryFails(t) PROVE CountInv'
  BY <1>13, <1>b, <1>c DEF RetryFails, C, H
<1>14. ASSUME NEW t \in Topic, DescribeSucceeds(t) PROVE CountInv'
  <2>1. C' = C /\ H' = H
    BY <1>14, <1>d DEF DescribeSucceeds, Counted
  <2>2. QED
    BY <1>14, <1>b, <2>1 DEF DescribeSucceeds, C, H
<1>15. ASSUME NEW t \in Topic, DescribeThrottled(t) PROVE CountInv'
  <2>1. C' = C /\ H' = H
    <3>1. CASE tries[t] < MaxExtraRetries
      BY <1>15, <3>1, <1>c DEF DescribeThrottled
    <3>2. CASE ~(tries[t] < MaxExtraRetries)
      BY <1>15, <3>2, <1>d DEF DescribeThrottled, Counted
    <3>3. QED
      BY <3>1, <3>2
  <2>2. QED
    BY <1>15, <1>b, <2>1 DEF DescribeThrottled, C, H
<1>16. ASSUME NEW t \in Topic, DescribeFails(t) PROVE CountInv'
  <2>1. C' = C /\ H' = H
    BY <1>16, <1>d DEF DescribeFails, Counted
  <2>2. QED
    BY <1>16, <1>b, <2>1 DEF DescribeFails, C, H
<1>17. ASSUME NEW t \in Topic, LockFailed(t) PROVE CountInv'
  <2>1. C' = C /\ H' = H
    BY <1>17, <1>d DEF LockFailed, Counted
  <2>2. QED
    BY <1>17, <1>b, <2>1 DEF LockFailed, C, H
<1>18. ASSUME NEW t \in Topic, AppendFailed(t) PROVE CountInv'
  <2>1. C' = C /\ H' = H
    BY <1>18, <1>d DEF AppendFailed, Counted
  <2>2. QED
    BY <1>18, <1>b, <2>1 DEF AppendFailed, C, H
<1>19. ASSUME NEW t \in Topic, Unlock(t) PROVE CountInv'
  <2>1. C' = C /\ H' = H
    BY <1>19, <1>d DEF Unlock, Counted
  <2>2. QED
    BY <1>19, <1>b, <2>1 DEF Unlock, C, H
<1>20. ASSUME NEW t \in Topic, Send(t) PROVE CountInv'
  <2>1. C' = C /\ H' = H
    BY <1>20, <1>d DEF Send, Counted
  <2>2. QED
    BY <1>20, <1>b, <2>1 DEF Send, C, H
<1>21. ASSUME NEW t \in Topic, Done(t) PROVE CountInv'
  <2>1. t \in C /\ C' = C \ {t} /\ H' = H
    BY <1>21 DEF Done, C, H, CountedSet, HoldingSet, Counted, Holding
  <2>2. Cardinality(C') = Cardinality(C) - 1
    BY <1>b, <2>1, FS_RemoveElement
  <2>3. QED
    BY <1>21, <1>b, <2>1, <2>2 DEF Done, C, H
<1>22. ASSUME NEW t \in Topic, Release(t) PROVE CountInv'
  <2>1. t \in H /\ H' = H \ {t} /\ C' = C
    BY <1>22 DEF Release, C, H, CountedSet, HoldingSet, Counted, Holding
  <2>2. Cardinality(H') = Cardinality(H) - 1
    BY <1>b, <2>1, FS_RemoveElement
  <2>3. QED
    BY <1>22, <1>b, <2>1, <2>2 DEF Release, C, H
<1>23. CASE UNCHANGED vars
  BY <1>23, <1>b, <1>c DEF vars, C, H
<1>24. QED
  BY <1>1, <1>2, <1>3, <1>4, <1>5, <1>6, <1>7, <1>8, <1>9, <1>10, <1>11, <1>12, <1>13, <1>14, <1>15, <1>16, <1>17, <1>18, <1>19, <1>20, <1>21, <1>22, <1>23, NextCases

(* The wait group reaches zero only when no goroutine is counted by it. *)
LEMMA CountedEmpty ==
  ASSUME TypeOK, CountInv
  PROVE  /\ wg = 0 => CountedSet = {}
         /\ \A t \in Topic : worker[t] \in Counted => wg > 0
         /\ \A t \in Topic : worker[t] = "releasing" => held > 0
<1>1. CountedSet \in SUBSET Topic /\ HoldingSet \in SUBSET Topic
  BY DEF CountedSet, HoldingSet
<1>2. /\ IsFiniteSet(CountedSet) /\ Cardinality(CountedSet) \in Nat
      /\ IsFiniteSet(HoldingSet) /\ Cardinality(HoldingSet) \in Nat
  BY <1>1, TopicsFinite
<1>3. /\ Cardinality(CountedSet) = 0 => CountedSet = {}
      /\ Cardinality(HoldingSet) = 0 => HoldingSet = {}
  BY <1>2, FS_EmptySet
<1>4. /\ \A t \in Topic : worker[t] \in Counted => t \in CountedSet
      /\ \A t \in Topic : worker[t] = "releasing" => t \in HoldingSet
  BY DEF CountedSet, HoldingSet, Holding
<1>. QED
  BY <1>2, <1>3, <1>4 DEF CountInv

(* The channel is closed after every send, and drained before the retry. *)
LEMMA CloseStep == IInv /\ [Next]_vars => CloseInv'
<1> SUFFICES ASSUME IInv, [Next]_vars PROVE CloseInv'
  OBVIOUS
<1> USE DEF IInv, TypeOK, CloseInv, LoopInv, CountedSet, Counted, Topic, sharedVars, resultVars
<1>1. CASE ListTopics
  BY <1>1 DEF ListTopics
<1>2. CASE ListTopicsFails
  BY <1>2 DEF ListTopicsFails
<1>3. CASE SkipUnnamed
  BY <1>3 DEF SkipUnnamed
<1>4. CASE Acquire
  BY <1>4 DEF Acquire
<1>5. CASE Spawn
  BY <1>5 DEF Spawn
<1>6. CASE StartDraining
  BY <1>6 DEF StartDraining
<1>7. CASE StartRetry
  BY <1>7 DEF StartRetry
<1>8. CASE Return
  BY <1>8 DEF Return
<1>9. CASE CloseChan
  BY <1>9, CountedEmpty DEF CloseChan
<1>10. ASSUME NEW t \in Topic, Receive(t) PROVE CloseInv'
  BY <1>10 DEF Receive
<1>11. ASSUME NEW t \in Topic, RetrySucceeds(t) PROVE CloseInv'
  BY <1>11 DEF RetrySucceeds
<1>12. ASSUME NEW t \in Topic, RetryThrottled(t) PROVE CloseInv'
  BY <1>12 DEF RetryThrottled
<1>13. ASSUME NEW t \in Topic, RetryFails(t) PROVE CloseInv'
  BY <1>13 DEF RetryFails
<1>14. ASSUME NEW t \in Topic, DescribeSucceeds(t) PROVE CloseInv'
  BY <1>14 DEF DescribeSucceeds
<1>15. ASSUME NEW t \in Topic, DescribeThrottled(t) PROVE CloseInv'
  BY <1>15 DEF DescribeThrottled
<1>16. ASSUME NEW t \in Topic, DescribeFails(t) PROVE CloseInv'
  BY <1>16 DEF DescribeFails
<1>17. ASSUME NEW t \in Topic, LockFailed(t) PROVE CloseInv'
  BY <1>17 DEF LockFailed
<1>18. ASSUME NEW t \in Topic, AppendFailed(t) PROVE CloseInv'
  BY <1>18 DEF AppendFailed
<1>19. ASSUME NEW t \in Topic, Unlock(t) PROVE CloseInv'
  BY <1>19 DEF Unlock
<1>20. ASSUME NEW t \in Topic, Send(t) PROVE CloseInv'
  BY <1>20 DEF Send
<1>21. ASSUME NEW t \in Topic, Done(t) PROVE CloseInv'
  BY <1>21 DEF Done
<1>22. ASSUME NEW t \in Topic, Release(t) PROVE CloseInv'
  BY <1>22 DEF Release
<1>23. CASE UNCHANGED vars
  BY <1>23 DEF vars
<1>24. QED
  BY <1>1, <1>2, <1>3, <1>4, <1>5, <1>6, <1>7, <1>8, <1>9, <1>10, <1>11, <1>12, <1>13, <1>14, <1>15, <1>16, <1>17, <1>18, <1>19, <1>20, <1>21, <1>22, <1>23, NextCases

(* The variables keep their types; the counters never go below zero. *)
LEMMA TypeStep == IInv /\ [Next]_vars => TypeOK'
<1> SUFFICES ASSUME IInv, [Next]_vars PROVE TypeOK'
  OBVIOUS
<1> USE ConstantsAssumption DEF IInv, TypeOK, WorkerState, Topic, Free, sharedVars, resultVars
<1>1. CASE ListTopics
  BY <1>1 DEF ListTopics
<1>2. CASE ListTopicsFails
  BY <1>2 DEF ListTopicsFails
<1>3. CASE SkipUnnamed
  BY <1>3 DEF SkipUnnamed, LoopInv
<1>4. CASE Acquire
  <2>1. held + 1 \in Nat
    OBVIOUS
  <2>2. QED
    BY <1>4, <2>1 DEF Acquire
<1>5. CASE Spawn
  BY <1>5 DEF Spawn, LoopInv
<1>6. CASE StartDraining
  BY <1>6 DEF StartDraining
<1>7. CASE StartRetry
  BY <1>7 DEF StartRetry
<1>8. CASE Return
  BY <1>8 DEF Return
<1>9. CASE CloseChan
  BY <1>9 DEF CloseChan
<1>10. ASSUME NEW t \in Topic, Receive(t) PROVE TypeOK'
  <2>1. details[t] + 1 \in Nat
    OBVIOUS
  <2>2. QED
    BY <1>10, <2>1 DEF Receive
<1>11. ASSUME NEW t \in Topic, RetrySucceeds(t) PROVE TypeOK'
  <2>1. details[t] + 1 \in Nat
    OBVIOUS
  <2>2. QED
    BY <1>11, <2>1 DEF RetrySucceeds
<1>12. ASSUME NEW t \in Topic, RetryThrottled(t) PROVE TypeOK'
  <2>1. tries[t] + 1 \in 0..MaxExtraRetries
    BY <1>12 DEF RetryThrottled
  <2>2. tries' \in [Topic -> 0..MaxExtraRetries]
    BY <1>12, <2>1 DEF RetryThrottled
  <2>3. QED
    BY <1>12, <2>2 DEF RetryThrottled
<1>13. ASSUME NEW t \in Topic, RetryFails(t) PROVE TypeOK'
  BY <1>13 DEF RetryFails
<1>14. ASSUME NEW t \in Topic, DescribeSucceeds(t) PROVE TypeOK'
  BY <1>14 DEF DescribeSucceeds
<1>15. ASSUME NEW t \in Topic, DescribeThrottled(t) PROVE TypeOK'
  <2>1. CASE tries[t] < MaxExtraRetries
    <3>1. tries[t] + 1 \in 0..MaxExtraRetries
      BY <2>1
    <3>2. QED
      BY <1>15, <2>1, <3>1 DEF DescribeThrottled
  <2>2. CASE ~(tries[t] < MaxExtraRetries)
    <3>1. 0 \in 0..MaxExtraRetries
      OBVIOUS
    <3>2. /\ worker' = [worker EXCEPT ![t] = "failing"]
          /\ tries' = [tries EXCEPT ![t] = 0]
          /\ UNCHANGED <<main, next, sharedVars, resultVars>>
      BY <1>15, <2>2 DEF DescribeThrottled
    <3>3. QED
      BY <3>1, <3>2
  <2>3. QED
    BY <2>1, <2>2
<1>16. ASSUME NEW t \in Topic, DescribeFails(t) PROVE TypeOK'
  BY <1>16 DEF DescribeFails
<1>17. ASSUME NEW t \in Topic, LockFailed(t) PROVE TypeOK'
  BY <1>17 DEF LockFailed
<1>18. ASSUME NEW t \in Topic, AppendFailed(t) PROVE TypeOK'
  BY <1>18 DEF AppendFailed
<1>19. ASSUME NEW t \in Topic, Unlock(t) PROVE TypeOK'
  BY <1>19 DEF Unlock
<1>20. ASSUME NEW t \in Topic, Send(t) PROVE TypeOK'
  BY <1>20 DEF Send
<1>21. ASSUME NEW t \in Topic, Done(t) PROVE TypeOK'
  <2>1. wg > 0
    BY <1>21, CountedEmpty DEF Done, Counted
  <2>2. wg - 1 \in Nat
    BY <2>1
  <2>3. QED
    BY <1>21, <2>2 DEF Done
<1>22. ASSUME NEW t \in Topic, Release(t) PROVE TypeOK'
  <2>1. held > 0
    BY <1>22, CountedEmpty DEF Release
  <2>2. held - 1 \in Nat
    BY <2>1
  <2>3. QED
    BY <1>22, <2>2 DEF Release
<1>23. CASE UNCHANGED vars
  BY <1>23 DEF vars
<1>24. QED
  BY <1>1, <1>2, <1>3, <1>4, <1>5, <1>6, <1>7, <1>8, <1>9, <1>10, <1>11, <1>12, <1>13, <1>14, <1>15, <1>16, <1>17, <1>18, <1>19, <1>20, <1>21, <1>22, <1>23, NextCases

(* The inductive invariant holds before the listing. *)
LEMMA InitInv == Init => IInv
<1> SUFFICES ASSUME Init PROVE IInv
  OBVIOUS
<1> USE ConstantsAssumption DEF Init, Topic, Free
<1>1. TypeOK
  <2>1. 0 \in 0..MaxExtraRetries /\ 1 \in 1..N + 1
    OBVIOUS
  <2>2. /\ worker \in [1..N -> WorkerState]
        /\ tries \in [1..N -> 0..MaxExtraRetries]
        /\ details \in [1..N -> Nat]
        /\ seen \in [1..N -> SUBSET (1..N)]
    BY <2>1 DEF WorkerState
  <2>3. QED
    BY <2>1, <2>2 DEF TypeOK
<1>2. LoopInv /\ MutexInv /\ CloseInv
  BY DEF LoopInv, MutexInv, CloseInv
<1>3. OutcomeInv
  BY DEF OutcomeInv, Undecided
<1>4. CountedSet = {} /\ HoldingSet = {}
  BY DEF CountedSet, HoldingSet, Counted, Holding
<1>5. CountInv
  BY <1>4, FS_EmptySet DEF CountInv
<1>. QED
  BY <1>1, <1>2, <1>3, <1>5 DEF IInv

(* The inductive invariant: the loop's place, the two counters, the mutex,  *)
(* the channel and the place of every topic agree after every step.         *)
THEOREM Invariance == Spec => []IInv
<1>1. IInv /\ [Next]_vars => IInv'
  BY LoopStep, MutexStep, OutcomeStep, CountStep, CloseStep, TypeStep DEF IInv
<1>2. QED
  BY InitInv, <1>1, PTL DEF Spec

(* The variables have their types in every reachable state. *)
THEOREM TypeCorrect == Spec => []TypeOK
<1>1. IInv => TypeOK
  BY DEF IInv
<1>2. QED
  BY Invariance, <1>1, PTL

(* At most MaxConcurrency goroutines are inside DescribeTopic. *)
THEOREM ConcurrencyBounded == Spec => []BoundedConcurrency
<1>1. ASSUME IInv PROVE BoundedConcurrency
  <2> DEFINE D == {t \in Topic : worker[t] = "describing"}
  <2>1. D \subseteq HoldingSet /\ HoldingSet \in SUBSET Topic /\ D \in SUBSET Topic
    BY DEF HoldingSet, Holding, Counted
  <2>2. Cardinality(D) <= Cardinality(HoldingSet)
    BY <2>1, TopicsFinite, FS_Subset
  <2>3. Cardinality(D) \in Nat /\ Cardinality(HoldingSet) \in Nat
    BY <2>1, TopicsFinite
  <2>4. Cardinality(HoldingSet) <= MaxConcurrency
    BY <1>1, <2>3, ConstantsAssumption DEF IInv, CountInv
  <2>5. QED
    BY <2>2, <2>3, <2>4, ConstantsAssumption DEF BoundedConcurrency
<1>2. QED
  BY Invariance, <1>1, PTL

(* A topic whose result is still to be sent is not in the channel. *)
LEMMA ChannelHasRoom == IInv => SendNeverBlocks
<1> SUFFICES ASSUME IInv, NEW t \in Topic, worker[t] = "sending"
             PROVE  Cardinality(chan) < N
  BY DEF SendNeverBlocks, ChanCap
<1>1. t \notin chan /\ chan \in SUBSET Topic
  BY DEF IInv, OutcomeInv, Undecided, TypeOK
<1>2. chan \cup {t} \in SUBSET Topic
  BY <1>1
<1>3. IsFiniteSet(chan) /\ Cardinality(chan) \in Nat
  BY <1>1, TopicsFinite
<1>4. Cardinality(chan \cup {t}) = Cardinality(chan) + 1
  BY <1>1, <1>3, FS_AddElement
<1>5. Cardinality(chan \cup {t}) <= N
  BY <1>2, TopicsFinite
<1>6. QED
  BY <1>3, <1>4, <1>5, ConstantsAssumption

(* A goroutine that has a result to send always finds room in the channel. *)
THEOREM SendsFindRoom == Spec => []SendNeverBlocks
BY Invariance, ChannelHasRoom, PTL

(* No goroutine can still send once the closer has closed the channel. *)
THEOREM ClosedAfterLastSend == Spec => []NoSendOnClosed
<1>1. IInv => NoSendOnClosed
  BY DEF IInv, CloseInv, NoSendOnClosed, CountedSet, Counted
<1>2. QED
  BY Invariance, <1>1, PTL

(* At the return every named topic is in the result once or was given up. *)
THEOREM TopicsSettledOnce == Spec => []EveryTopicSettledOnce
<1>1. ASSUME IInv PROVE EveryTopicSettledOnce
  <2> SUFFICES ASSUME main = "done", NEW t \in Topic
      PROVE details[t] + (IF t \in dropped THEN 1 ELSE 0) = IF t \in Named THEN 1 ELSE 0
    BY DEF EveryTopicSettledOnce
  <2> USE <1>1 DEF IInv
  <2>1. chan = {} /\ closed /\ todo = {} /\ CountedSet = {} /\ next = N + 1
    BY DEF CloseInv, OutcomeInv, LoopInv
  <2>2. worker[t] = "none" <=> t \notin Named
    BY <2>1, ConstantsAssumption DEF LoopInv, Topic
  <2>3. worker[t] \in {"none", "releasing", "exited"}
    BY <2>1 DEF CountedSet, Counted, TypeOK, WorkerState
  <2>4. CASE worker[t] = "none"
    BY <2>2, <2>4 DEF OutcomeInv, Undecided
  <2>5. CASE worker[t] # "none"
    <3>1. InResult(t) \/ InFailed(t)
      BY <2>1, <2>3, <2>5 DEF OutcomeInv, InChannel
    <3>2. QED
      BY <2>1, <2>2, <2>5, <3>1 DEF OutcomeInv, InResult, InFailed
  <2>6. QED
    BY <2>4, <2>5
<1>2. QED
  BY Invariance, <1>1, PTL

(* Nothing appends to failedTopics once the second pass reads it unlocked. *)
THEOREM FailedReadSafely == Spec => FailedTopicsReadSafely
<1>1. ASSUME IInv, [Next]_vars
      PROVE  (main \in {"retry", "done"}) => failed' = failed
  <2> SUFFICES ASSUME main \in {"retry", "done"} PROVE failed' = failed
    OBVIOUS
  <2>1. \A t \in Topic : worker[t] # "locked"
    BY <1>1 DEF IInv, CloseInv, CountedSet, Counted
  <2>2. \A t \in Topic : ~AppendFailed(t)
    BY <2>1 DEF AppendFailed
  <2>3. QED
    BY <1>1, <2>2, NextCases DEF vars, sharedVars, resultVars, ListTopics,
       ListTopicsFails, SkipUnnamed, Acquire, Spawn, StartDraining, StartRetry,
       Return, CloseChan, Receive, RetrySucceeds, RetryThrottled, RetryFails,
       DescribeSucceeds, DescribeThrottled, DescribeFails, LockFailed, Unlock,
       Send, Done, Release
<1>2. QED
  BY Invariance, <1>1, PTL DEF Spec, FailedTopicsReadSafely

(* A goroutine has a topic only if its entry of the list has a name. *)
LEMMA OnlyNamedWork ==
  ASSUME IInv, NEW t \in Topic, worker[t] # "none"
  PROVE  t \in Named
  BY ConstantsAssumption DEF IInv, TypeOK, LoopInv, Topic

(* The first state of the call is the first state of the promise. *)
LEMMA ScanInit == Init => Promise!Init
<1> SUFFICES ASSUME Init PROVE Promise!Init
  OBVIOUS
<1>1. Named \subseteq Topic
  BY ConstantsAssumption DEF Topic
<1>2. AbsPhase = "listing"
  BY DEF Init, AbsPhase
<1>3. AbsOutcome = [t \in Named |-> "pending"]
  BY <1>1 DEF Init, AbsOutcome
<1>. QED
  BY <1>2, <1>3 DEF Promise!Init

(* A step that moves no topic to the channel, the result or the dropped    *)
(* list, and stays inside the fetching phase, is invisible to the caller.   *)
LEMMA ScanStutter ==
  ASSUME IInv, UNCHANGED <<chan, details, dropped>>,
         main' = main \/ {main, main'} \subseteq {"loop", "spawn", "drain", "retry"}
  PROVE  UNCHANGED <<AbsPhase, AbsOutcome>>
<1>1. AbsPhase' = AbsPhase
  BY DEF AbsPhase
<1>2. AbsOutcome' = AbsOutcome
  BY DEF AbsOutcome
<1>. QED
  BY <1>1, <1>2

(* Settling one topic in the code is Settle in the promise. *)
LEMMA ScanSettle ==
  ASSUME IInv, main \in {"loop", "spawn", "drain", "retry"}, main' = main,
         NEW t \in Named, AbsOutcome[t] = "pending",
         NEW o \in {"described", "dropped"},
         AbsOutcome' = [AbsOutcome EXCEPT ![t] = o]
  PROVE  Promise!Next
<1>1. AbsPhase = "fetching" /\ AbsPhase' = "fetching"
  BY DEF AbsPhase
<1>2. Promise!Settle(t)
  BY <1>1 DEF Promise!Settle
<1>. QED
  BY <1>2, ConstantsAssumption DEF Promise!Next

(* Every step of the goroutines is a step of the promise or a stutter. *)
LEMMA ScanStep ==
  IInv /\ [Next]_vars => [Promise!Next]_<<AbsPhase, AbsOutcome>>
<1> SUFFICES ASSUME IInv, [Next]_vars
             PROVE  Promise!Next \/ UNCHANGED <<AbsPhase, AbsOutcome>>
  OBVIOUS
<1> DEFINE Goal == Promise!Next \/ UNCHANGED <<AbsPhase, AbsOutcome>>
<1>a. Named \subseteq Topic /\ \A t \in Topic : details[t] \in Nat
  BY ConstantsAssumption DEF Topic, IInv, TypeOK
<1> USE DEF sharedVars, resultVars
<1>1. CASE ListTopics
  <2>1. AbsPhase = "listing" /\ AbsPhase' = "fetching" /\ AbsOutcome' = AbsOutcome
    BY <1>1 DEF ListTopics, AbsPhase, AbsOutcome
  <2>2. QED
    BY <2>1 DEF Promise!Next, Promise!Begin
<1>2. CASE ListTopicsFails
  <2>1. AbsPhase = "listing" /\ AbsPhase' = "refused" /\ AbsOutcome' = AbsOutcome
    BY <1>2 DEF ListTopicsFails, AbsPhase, AbsOutcome
  <2>2. QED
    BY <2>1 DEF Promise!Next, Promise!Refuse
<1>3. CASE SkipUnnamed
  BY <1>3, ScanStutter DEF SkipUnnamed
<1>4. CASE Acquire
  BY <1>4, ScanStutter DEF Acquire
<1>5. CASE Spawn
  BY <1>5, ScanStutter DEF Spawn
<1>6. CASE StartDraining
  BY <1>6, ScanStutter DEF StartDraining
<1>7. CASE StartRetry
  BY <1>7, ScanStutter DEF StartRetry
<1>8. CASE Return
  <2>1. AbsPhase = "fetching" /\ AbsPhase' = "returned" /\ AbsOutcome' = AbsOutcome
    BY <1>8 DEF Return, AbsPhase, AbsOutcome
  <2>2. ASSUME NEW t \in Named PROVE AbsOutcome[t] # "pending"
    <3>1. chan = {} /\ CountedSet = {} /\ todo = {} /\ next = N + 1
      BY <1>8 DEF Return, IInv, CloseInv, LoopInv
    <3>2. worker[t] # "none" /\ worker[t] \in {"none", "releasing", "exited"}
      <4>1. t \in Topic /\ t < next
        BY <1>a, <3>1, ConstantsAssumption DEF Topic
      <4>2. worker[t] # "none"
        BY <4>1 DEF IInv, LoopInv
      <4>3. worker[t] \in WorkerState /\ worker[t] \notin Counted
        BY <3>1, <4>1 DEF IInv, TypeOK, CountedSet
      <4>4. QED
        BY <4>2, <4>3 DEF WorkerState, Counted
    <3>3. details[t] > 0 \/ t \in dropped
      BY <1>8, <1>a, <3>1, <3>2 DEF Return, IInv, OutcomeInv, InChannel, InResult, InFailed
    <3>4. QED
      BY <3>3 DEF AbsOutcome
  <2>3. QED
    BY <2>1, <2>2 DEF Promise!Next, Promise!Return
<1>9. CASE CloseChan
  BY <1>9, ScanStutter DEF CloseChan
<1>10. ASSUME NEW t \in Topic, Receive(t) PROVE Goal
  <2>1. AbsPhase' = AbsPhase
    BY <1>10 DEF Receive, AbsPhase
  <2>2. details[t] + 1 > 0
    BY <1>a
  <2>3. AbsOutcome' = AbsOutcome
    BY <1>10, <1>a, <2>2 DEF Receive, AbsOutcome, IInv, TypeOK
  <2>4. QED
    BY <2>1, <2>3
<1>11. ASSUME NEW t \in Topic, RetrySucceeds(t) PROVE Goal
  <2>1. t \in failed /\ t \notin dropped /\ details[t] = 0 /\ t \notin chan
    BY <1>11 DEF RetrySucceeds, IInv, OutcomeInv, CloseInv
  <2>2. t \in Named
    BY <2>1, OnlyNamedWork DEF IInv, OutcomeInv, Undecided
  <2>3. AbsOutcome[t] = "pending"
    BY <2>1, <2>2 DEF AbsOutcome
  <2>4. AbsOutcome' = [AbsOutcome EXCEPT ![t] = "described"]
    <3>1. UNCHANGED <<chan, dropped>> /\ details' = [details EXCEPT ![t] = 1]
      BY <1>11, <2>1 DEF RetrySucceeds
    <3>2. details'[t] = 1 /\ \A u \in Named : u # t => details'[u] = details[u]
      BY <1>a, <3>1 DEF IInv, TypeOK
    <3>3. ASSUME NEW u \in Named
          PROVE  AbsOutcome'[u] = IF u = t THEN "described" ELSE AbsOutcome[u]
      BY <2>1, <3>1, <3>2 DEF AbsOutcome
    <3>4. QED
      BY <3>3 DEF AbsOutcome
  <2>5. QED
    BY <1>11, <2>2, <2>3, <2>4, ScanSettle DEF RetrySucceeds
<1>12. ASSUME NEW t \in Topic, RetryThrottled(t) PROVE Goal
  BY <1>12, ScanStutter DEF RetryThrottled
<1>13. ASSUME NEW t \in Topic, RetryFails(t) PROVE Goal
  <2>1. t \in failed /\ t \notin dropped /\ details[t] = 0 /\ t \notin chan
    BY <1>13 DEF RetryFails, IInv, OutcomeInv, CloseInv
  <2>2. t \in Named
    BY <2>1, OnlyNamedWork DEF IInv, OutcomeInv, Undecided
  <2>3. AbsOutcome[t] = "pending"
    BY <2>1, <2>2 DEF AbsOutcome
  <2>4. AbsOutcome' = [AbsOutcome EXCEPT ![t] = "dropped"]
    <3>1. UNCHANGED <<chan, details>> /\ dropped' = dropped \cup {t}
      BY <1>13 DEF RetryFails
    <3>2. ASSUME NEW u \in Named
          PROVE  AbsOutcome'[u] = IF u = t THEN "dropped" ELSE AbsOutcome[u]
      BY <2>1, <3>1 DEF AbsOutcome
    <3>3. QED
      BY <3>2 DEF AbsOutcome
  <2>5. QED
    BY <1>13, <2>2, <2>3, <2>4, ScanSettle DEF RetryFails
<1>14. ASSUME NEW t \in Topic, DescribeSucceeds(t) PROVE Goal
  BY <1>14, ScanStutter DEF DescribeSucceeds
<1>15. ASSUME NEW t \in Topic, DescribeThrottled(t) PROVE Goal
  BY <1>15, ScanStutter DEF DescribeThrottled
<1>16. ASSUME NEW t \in Topic, DescribeFails(t) PROVE Goal
  BY <1>16, ScanStutter DEF DescribeFails
<1>17. ASSUME NEW t \in Topic, LockFailed(t) PROVE Goal
  BY <1>17, ScanStutter DEF LockFailed
<1>18. ASSUME NEW t \in Topic, AppendFailed(t) PROVE Goal
  BY <1>18, ScanStutter DEF AppendFailed
<1>19. ASSUME NEW t \in Topic, Unlock(t) PROVE Goal
  BY <1>19, ScanStutter DEF Unlock
<1>20. ASSUME NEW t \in Topic, Send(t) PROVE Goal
  <2>1. t \in Named /\ t \notin chan /\ details[t] = 0 /\ t \notin dropped
    BY <1>20, OnlyNamedWork DEF Send, IInv, OutcomeInv, Undecided
  <2>2. main \in {"loop", "spawn", "drain", "retry"}
    BY <1>20, ConstantsAssumption DEF Send, IInv, TypeOK, LoopInv, CloseInv, CountedSet, Counted, Topic
  <2>3. AbsOutcome[t] = "pending"
    BY <2>1 DEF AbsOutcome
  <2>4. AbsOutcome' = [AbsOutcome EXCEPT ![t] = "described"]
    BY <1>20, <2>1 DEF Send, AbsOutcome
  <2>5. QED
    BY <1>20, <2>1, <2>2, <2>3, <2>4, ScanSettle DEF Send
<1>21. ASSUME NEW t \in Topic, Done(t) PROVE Goal
  BY <1>21, ScanStutter DEF Done
<1>22. ASSUME NEW t \in Topic, Release(t) PROVE Goal
  BY <1>22, ScanStutter DEF Release
<1>23. CASE UNCHANGED vars
  BY <1>23, ScanStutter DEF vars
<1>24. QED
  BY <1>1, <1>2, <1>3, <1>4, <1>5, <1>6, <1>7, <1>8, <1>9, <1>10, <1>11, <1>12, <1>13, <1>14, <1>15, <1>16, <1>17, <1>18, <1>19, <1>20, <1>21, <1>22, <1>23, NextCases

(* GetTopicsWithConfigs keeps the promise of TopicScan to discoverTopics. *)
THEOREM Refinement == Spec => ImplementsScan
<1>1. IInv /\ [Next]_vars => [Promise!Next]_<<AbsPhase, AbsOutcome>>
  BY ScanStep
<1>2. QED
  BY ScanInit, Invariance, <1>1, PTL DEF Spec, ImplementsScan, Promise!Spec, Promise!scanVars

-----------------------------------------------------------------------------
(* The topic fetch comes to an end.                                        *)

(* Who can take a step: the calling goroutine unless it waits for a permit *)
(* or for a result, the closer once the wait group is empty, a topic's     *)
(* goroutine unless it waits for the mutex or for room in the channel.     *)
CallerCanGo ==
  \/ main \in {"list", "spawn", "retry"}
  \/ main = "loop" /\ (next \in Named => held < MaxConcurrency)
  \/ main = "drain" /\ (closed \/ chan # {})

CloserCanGo == main = "drain" /\ wg = 0 /\ ~closed

GoroutineCanGo(t) ==
  \/ worker[t] \in {"describing", "locked", "unlocking", "finishing", "releasing"}
  \/ worker[t] = "failing" /\ mutex = Free
  \/ worker[t] = "sending" /\ Cardinality(chan) < ChanCap

Finished == main \in {"done", "error"} /\ \A t \in Topic : worker[t] \in {"none", "exited"}

(* The caller waits for permits and results, the closer for the wait group, *)
(* the goroutines for the mutex and the channel; but until all of them have *)
(* finished one of them can go on.                                          *)
NobodyWaitsForEver ==
  Finished \/ CallerCanGo \/ CloserCanGo \/ \E t \in Topic : GoroutineCanGo(t)

(* How far the call is, and how far each topic is in the two passes: all of *)
(* these numbers have bounds.                                               *)
CallProgress ==
  CASE main = "list" -> 0
    [] main = "loop" -> 2 * next - 1
    [] main = "spawn" -> 2 * next
    [] main = "drain" -> 2 * N + (IF closed THEN 4 ELSE 3)
    [] main = "retry" -> 2 * N + 5
    [] main \in {"done", "error"} -> 2 * N + 6

FirstPass(t) ==
  CASE worker[t] = "none" -> 0
    [] worker[t] = "describing" -> 1 + tries[t]
    [] worker[t] \in {"sending", "failing"} -> MaxExtraRetries + 2
    [] worker[t] = "locked" -> MaxExtraRetries + 3
    [] worker[t] = "unlocking" -> MaxExtraRetries + 4
    [] worker[t] = "finishing" -> MaxExtraRetries + 5
    [] worker[t] = "releasing" -> MaxExtraRetries + 6
    [] worker[t] = "exited" -> MaxExtraRetries + 7

SecondPass(t) ==
  IF main \notin {"retry", "done"} THEN 0
  ELSE IF t \in todo THEN tries[t] ELSE MaxExtraRetries + 1

TopicProgress(t) == FirstPass(t) + SecondPass(t) + details[t]

ProgressIsBounded ==
  /\ CallProgress \in 0..(2 * N + 6)
  /\ \A t \in Topic : TopicProgress(t) \in 0..(2 * MaxExtraRetries + 9)

Advances ==
  /\ CallProgress <= CallProgress'
  /\ \A t \in Topic : TopicProgress(t) <= TopicProgress(t)'
  /\ CallProgress < CallProgress' \/ \E t \in Topic : TopicProgress(t) < TopicProgress(t)'


(* Until everything has finished somebody can take a step.                 *)
THEOREM NobodyIsStuck == Spec => []NobodyWaitsForEver
<1>1. ASSUME IInv PROVE NobodyWaitsForEver
  <2> SUFFICES ASSUME ~CallerCanGo, ~CloserCanGo, \A t \in Topic : ~GoroutineCanGo(t)
               PROVE  Finished
    BY DEF NobodyWaitsForEver
  <2> USE <1>1 DEF IInv
  <2>1. SendNeverBlocks
    BY ChannelHasRoom
  <2>2. ASSUME NEW t \in Topic PROVE worker[t] \in {"none", "exited"}
    <3>1. worker[t] \in {"none", "exited", "failing"}
      BY <2>1 DEF GoroutineCanGo, SendNeverBlocks, TypeOK, WorkerState
    <3>2. CASE worker[t] = "failing"
      <4>1. mutex \in Topic
        BY <3>2 DEF GoroutineCanGo, TypeOK
      <4>2. worker[mutex] \in {"locked", "unlocking"}
        BY <4>1 DEF MutexInv
      <4>3. QED
        BY <4>1, <4>2 DEF GoroutineCanGo
    <3>3. QED
      BY <3>1, <3>2
  <2>3. CountedSet = {} /\ HoldingSet = {}
    BY <2>2 DEF CountedSet, HoldingSet, Counted, Holding
  <2>4. wg = 0 /\ (main # "spawn" => held = 0)
    BY <2>3, FS_EmptySet DEF CountInv
  <2>5. main \notin {"loop", "drain"}
    BY <2>4, ConstantsAssumption DEF CallerCanGo, CloserCanGo, TypeOK
  <2>6. QED
    BY <2>2, <2>5 DEF CallerCanGo, Finished, TypeOK
<1>2. QED
  BY Invariance, <1>1, PTL

(* The progress has bounds in every reachable state.                       *)
LEMMA ProgressInBounds == ASSUME IInv PROVE ProgressIsBounded
<1> USE ConstantsAssumption DEF IInv
<1>1. CallProgress \in 0..(2 * N + 6)
  <2>1. next \in 1..(N + 1) /\ (main = "spawn" => next \in 1..N)
    BY DEF TypeOK, LoopInv
  <2>2. main \in {"list", "error", "loop", "spawn", "drain", "retry", "done"}
    BY DEF TypeOK
  <2>3. QED
    BY <2>1, <2>2 DEF CallProgress
<1>2. ASSUME NEW t \in Topic
      PROVE  TopicProgress(t) \in 0..(2 * MaxExtraRetries + 9)
  <2>1. worker[t] \in WorkerState /\ tries[t] \in 0..MaxExtraRetries
    BY DEF TypeOK
  <2>2. FirstPass(t) \in 0..(MaxExtraRetries + 7)
    BY <2>1 DEF FirstPass, WorkerState
  <2>3. SecondPass(t) \in 0..(MaxExtraRetries + 1)
    BY <2>1 DEF SecondPass
  <2>4. details[t] \in {0, 1}
    BY <2>1 DEF OutcomeInv, Undecided, InChannel, InResult, InFailed, TypeOK, WorkerState
  <2>5. QED
    BY <2>2, <2>3, <2>4 DEF TopicProgress
<1>3. QED
  BY <1>1, <1>2 DEF ProgressIsBounded

(* A step of a topic's goroutine that takes it further is an advance.      *)
LEMMA GoroutineAdvances ==
  ASSUME IInv, IInv', NEW t \in Topic, UNCHANGED <<main, next, closed, todo, details>>,
         \A u \in Topic : u # t => worker'[u] = worker[u] /\ tries'[u] = tries[u],
         tries'[t] = tries[t] \/ main \notin {"retry", "done"},
         FirstPass(t) < FirstPass(t)'
  PROVE  Advances
<1>1. CallProgress' = CallProgress
  BY DEF CallProgress
<1>2. \A u \in Topic : SecondPass(u)' = SecondPass(u)
  BY DEF SecondPass
<1>3. \A u \in Topic : u # t => FirstPass(u)' = FirstPass(u)
  BY DEF FirstPass
<1>4. \A u \in Topic : /\ FirstPass(u) \in Int /\ SecondPass(u) \in Int /\ details[u] \in Int
                       /\ FirstPass(u)' \in Int
  BY ConstantsAssumption DEF IInv, TypeOK, WorkerState, FirstPass, SecondPass
<1>5. TopicProgress(t) < TopicProgress(t)'
  BY <1>2, <1>4 DEF TopicProgress
<1>6. \A u \in Topic : u # t => TopicProgress(u)' = TopicProgress(u)
  BY <1>2, <1>3 DEF TopicProgress
<1>7. CallProgress \in Int /\ \A u \in Topic : TopicProgress(u) \in Int /\ TopicProgress(u)' \in Int
  BY <1>1, <1>2, <1>4, ProgressInBounds, ConstantsAssumption DEF ProgressIsBounded, TopicProgress
<1>8. QED
  BY <1>1, <1>5, <1>6, <1>7 DEF Advances

(* So is a step of the calling goroutine that takes the call further and   *)
(* leaves the goroutines and their topics where they are, or further.      *)
LEMMA CallAdvances ==
  ASSUME IInv, IInv', CallProgress < CallProgress',
         UNCHANGED details, \A u \in Topic : FirstPass(u) <= FirstPass(u)',
         \A u \in Topic : SecondPass(u) <= SecondPass(u)'
  PROVE  Advances
<1>1. \A u \in Topic : /\ FirstPass(u) \in Int /\ SecondPass(u) \in Int /\ details[u] \in Int
                       /\ FirstPass(u)' \in Int /\ SecondPass(u)' \in Int
  BY ConstantsAssumption DEF IInv, TypeOK, WorkerState, FirstPass, SecondPass
<1>2. \A u \in Topic : TopicProgress(u) <= TopicProgress(u)'
  BY <1>1 DEF TopicProgress
<1>3. CallProgress \in Int /\ CallProgress' \in Int
  BY ProgressInBounds, ConstantsAssumption DEF IInv, TypeOK, CallProgress
<1>4. QED
  BY <1>2, <1>3 DEF Advances


(* And so is one that takes a topic from the channel or tries it again.    *)
LEMMA TopicAdvances ==
  ASSUME IInv, IInv', NEW t \in Topic, UNCHANGED <<main, next, closed, worker>>,
         \A u \in Topic : FirstPass(u)' = FirstPass(u),
         \A u \in Topic : SecondPass(u) <= SecondPass(u)' /\ details[u] <= details'[u],
         SecondPass(t) < SecondPass(t)' \/ details[t] < details'[t]
  PROVE  Advances
<1>1. CallProgress' = CallProgress /\ CallProgress \in Int
  <2>1. CallProgress' = CallProgress
    BY DEF CallProgress
  <2>2. CallProgress \in 0..(2 * N + 6)
    BY ProgressInBounds DEF ProgressIsBounded
  <2>3. QED
    BY <2>1, <2>2, ConstantsAssumption
<1>2. \A u \in Topic : /\ FirstPass(u) \in Int /\ SecondPass(u) \in Int /\ details[u] \in Int
                       /\ FirstPass(u)' \in Int /\ SecondPass(u)' \in Int /\ details'[u] \in Int
  BY ConstantsAssumption DEF IInv, TypeOK, WorkerState, FirstPass, SecondPass
<1>3. \A u \in Topic : TopicProgress(u) <= TopicProgress(u)'
  BY <1>2 DEF TopicProgress
<1>4. TopicProgress(t) < TopicProgress(t)'
  BY <1>2 DEF TopicProgress
<1>5. QED
  BY <1>1, <1>3, <1>4 DEF Advances

(* Every step, of whoever takes it, is an advance.                         *)
LEMMA EveryStepAdvances ==
  ASSUME IInv, IInv', Next
  PROVE  Advances
<1> USE ConstantsAssumption
<1>0. [Next]_vars
  OBVIOUS
<1>1. /\ main \in {"list", "error", "loop", "spawn", "drain", "retry", "done"}
      /\ next \in 1..(N + 1) /\ closed \in BOOLEAN
      /\ worker \in [Topic -> WorkerState] /\ tries \in [Topic -> 0..MaxExtraRetries]
      /\ details \in [Topic -> Nat] /\ todo \in SUBSET Topic
  BY DEF IInv, TypeOK
<1>2. \A t \in Topic : worker[t] = "describing" => main \notin {"retry", "done"}
  BY DEF IInv, CloseInv, CountedSet, Counted
<1>3. CASE ListTopics \/ ListTopicsFails \/ SkipUnnamed \/ Acquire
  <2>1. UNCHANGED <<worker, tries, todo, details>> /\ {main, main'} \cap {"retry", "done"} = {}
    BY <1>3 DEF ListTopics, ListTopicsFails, SkipUnnamed, Acquire, resultVars
  <2>2. CallProgress < CallProgress'
    BY <1>1, <1>3 DEF ListTopics, ListTopicsFails, SkipUnnamed, Acquire, CallProgress, sharedVars
  <2>3. \A u \in Topic : FirstPass(u)' = FirstPass(u) /\ SecondPass(u)' = SecondPass(u)
    BY <2>1 DEF FirstPass, SecondPass
  <2>4. \A u \in Topic : FirstPass(u) \in Int /\ SecondPass(u) \in Int
    BY <1>1 DEF FirstPass, SecondPass, WorkerState
  <2>5. QED
    BY <2>1, <2>2, <2>3, <2>4, CallAdvances
<1>4. CASE Spawn
  <2>1. /\ main = "spawn" /\ main' = "loop" /\ next' = next + 1
        /\ worker' = [worker EXCEPT ![next] = "describing"]
        /\ UNCHANGED <<tries, todo, details>>
    BY <1>4 DEF Spawn, resultVars
  <2>2. next \in Topic
    BY <2>1, <1>1 DEF IInv, LoopInv, Topic
  <2>3. PICK n \in Topic : n = next
    BY <2>2
  <2>4. worker[n] = "none"
    BY <2>1, <2>3, <1>1 DEF IInv, LoopInv, Topic
  <2>5. CallProgress < CallProgress'
    BY <1>1, <2>1 DEF CallProgress
  <2>6. \A u \in Topic : SecondPass(u)' = SecondPass(u) /\ SecondPass(u) = 0
    BY <2>1 DEF SecondPass
  <2>7. worker'[n] = "describing" /\ tries' = tries /\ tries[n] \in Nat
    BY <2>1, <2>3, <1>1
  <2>8. FirstPass(n) = 0
    BY <2>4 DEF FirstPass
  <2>9. FirstPass(n)' = 1 + tries[n]
    BY <2>7 DEF FirstPass
  <2>10. ASSUME NEW u \in Topic, u # n PROVE FirstPass(u)' = FirstPass(u) /\ FirstPass(u) \in Int
    <3>1. worker'[u] = worker[u] /\ worker[u] \in WorkerState
      BY <1>1, <2>1, <2>3, <2>10
    <3>2. QED
      BY <3>1, <1>1, <2>1 DEF FirstPass, WorkerState
  <2>11. \A u \in Topic : FirstPass(u) <= FirstPass(u)'
    BY <2>7, <2>8, <2>9, <2>10
  <2>12. QED
    BY <2>1, <2>5, <2>6, <2>11, CallAdvances
<1>5. CASE StartDraining \/ StartRetry \/ Return \/ CloseChan
  <2>1. UNCHANGED <<worker, tries, details>>
    BY <1>5 DEF StartDraining, StartRetry, Return, CloseChan, resultVars
  <2>2. CallProgress < CallProgress'
    BY <1>1, <1>5 DEF StartDraining, StartRetry, Return, CloseChan, CallProgress, sharedVars
  <2>3. \A u \in Topic : FirstPass(u)' = FirstPass(u) /\ FirstPass(u) \in Int
    BY <1>1, <2>1 DEF FirstPass, WorkerState
  <2>4. \A u \in Topic : SecondPass(u) <= SecondPass(u)'
    BY <1>1, <1>5, <2>1 DEF StartDraining, StartRetry, Return, CloseChan, SecondPass, resultVars
  <2>5. QED
    BY <2>1, <2>2, <2>3, <2>4, CallAdvances
<1>6. ASSUME NEW t \in Topic,
             \/ DescribeSucceeds(t) \/ DescribeThrottled(t) \/ DescribeFails(t)
             \/ LockFailed(t) \/ AppendFailed(t) \/ Unlock(t) \/ Send(t) \/ Done(t) \/ Release(t)
      PROVE  Advances
  <2>1. /\ UNCHANGED <<main, next, closed, todo, details>>
        /\ \A u \in Topic : u # t => worker'[u] = worker[u] /\ tries'[u] = tries[u]
        /\ tries'[t] = tries[t] \/ worker[t] = "describing"
    BY <1>1, <1>6 DEF DescribeSucceeds, DescribeThrottled, DescribeFails, LockFailed, AppendFailed,
          Unlock, Send, Done, Release, sharedVars, resultVars
  <2>2. FirstPass(t) < FirstPass(t)'
    BY <1>1, <1>6 DEF DescribeSucceeds, DescribeThrottled, DescribeFails, LockFailed, AppendFailed,
          Unlock, Send, Done, Release, FirstPass
  <2>3. QED
    BY <1>2, <2>1, <2>2, GoroutineAdvances
<1>7. ASSUME NEW t \in Topic, Receive(t) \/ RetrySucceeds(t) \/ RetryThrottled(t) \/ RetryFails(t)
      PROVE  Advances
  <2>1. UNCHANGED <<main, next, closed, worker>>
    BY <1>7 DEF Receive, RetrySucceeds, RetryThrottled, RetryFails, sharedVars
  <2>2. \A u \in Topic : FirstPass(u)' = FirstPass(u)
    BY <1>2, <1>7, <2>1
    DEF Receive, RetrySucceeds, RetryThrottled, RetryFails, FirstPass
  <2>3. \A u \in Topic : SecondPass(u) <= SecondPass(u)' /\ details[u] <= details'[u]
    BY <1>1, <1>7 DEF Receive, RetrySucceeds, RetryThrottled, RetryFails, SecondPass, resultVars
  <2>4. SecondPass(t) < SecondPass(t)' \/ details[t] < details'[t]
    BY <1>1, <1>7 DEF Receive, RetrySucceeds, RetryThrottled, RetryFails, SecondPass, resultVars
  <2>5. QED
    BY <2>1, <2>2, <2>3, <2>4, TopicAdvances
<1>8. QED
  BY <1>3, <1>4, <1>5, <1>6, <1>7 DEF Next, Caller, Goroutine

(* Each step takes the call or one topic further and none back, and there is *)
(* an end to either: a call takes a bounded number of steps, whatever is     *)
(* throttled or fails. As somebody can always go on, it returns and leaves   *)
(* no goroutine behind under any scheduler that keeps taking steps.          *)
THEOREM FetchAdvances == Spec => [](IInv /\ ProgressIsBounded) /\ [][Advances]_vars
<1>1. IInv => ProgressIsBounded
  BY ProgressInBounds
<1>2. IInv /\ IInv' /\ [Next]_vars => [Advances]_vars
  BY EveryStepAdvances
<1>3. QED
  BY <1>1, <1>2, Invariance, PTL DEF Spec

-----------------------------------------------------------------------------
(* The connector scans: what either way of scanning records of a connector *)
(* is a configuration, and a state, that it had while the scan went on.     *)


-----------------------------------------------------------------------------
(* Numbers.                                                                *)

\* A set of natural numbers that is not empty has a least element.
LEMMA LeastNumber ==
  ASSUME NEW S, S \subseteq Nat, S # {}
  PROVE  \E n \in S : \A m \in S : n <= m
<1> DEFINE Below == {p \in Nat \X Nat : p[1] < p[2]}
<1>1. Below = OpToRel(<, Nat)
  BY Zenon DEF OpToRel
<1>2. IsWellFoundedOn(Below, Nat)
  BY <1>1, NatLessThanWellFounded, Zenon
<1>3. \A m, n \in Nat : m < n => <<m, n>> \in Below
  OBVIOUS
<1> HIDE DEF Below
<1>4. PICK n \in S : \A m \in S : ~ (<<m, n>> \in Below)
  BY <1>2, WFMin, Zenon
<1>5. \A m \in S : ~ (m < n)
  <2> TAKE m \in S
  <2>1. m \in Nat /\ n \in Nat /\ ~ (<<m, n>> \in Below)
    BY <1>4
  <2>2. QED
    BY <1>3, <2>1
<1>6. QED
  BY <1>5

\* Max finds the greatest of some numbers up to n.
LEMMA GreatestNumber ==
  ASSUME NEW n \in Nat, NEW S, S \subseteq 1..n, S # {}
  PROVE  Max(S) \in S /\ \A m \in S : m <= Max(S)
<1> DEFINE T == {n - m : m \in S}
<1>1. T \subseteq Nat /\ T # {}
  <2>1. \A m \in S : m \in 1..n /\ n - m \in Nat
    OBVIOUS
  <2>2. T \subseteq Nat
    BY <2>1
  <2>3. PICK m \in S : TRUE
    OBVIOUS
  <2>4. n - m \in T
    BY <2>3
  <2>5. QED
    BY <2>2, <2>4
<1>2. PICK t \in T : \A u \in T : t <= u
  BY <1>1, LeastNumber
<1>3. PICK x \in S : t = n - x
  BY <1>2
<1>4. \A y \in S : x >= y
  <2> TAKE y \in S
  <2>1. n - y \in T /\ t <= n - y
    BY <1>2
  <2>2. QED
    BY <1>3, <2>1
<1>5. Max(S) \in S /\ \A y \in S : Max(S) >= y
  BY <1>4 DEF Max
<1>6. QED
  BY <1>5

-----------------------------------------------------------------------------
(* Logs.                                                                   *)

Content == [connector : Connector, value : Nat, stamp : Nat]

\* Whether the i-th message is the last of the first n about k.
IsLast(log, n, k, i) ==
  /\ i \in About(log, n, k)
  /\ \A j \in About(log, n, k) : j <= i

\* Of the messages about a connector there is a last one, if there is any; it
\* gives the newest value.
LEMMA LastGivesNewest ==
  ASSUME NEW log, NEW n \in Nat, NEW k
  PROVE  /\ About(log, n, k) = {} => Newest(log, n, k) = 0
         /\ About(log, n, k) # {} => \E i \in 1..n : IsLast(log, n, k, i)
         /\ \A i : IsLast(log, n, k, i) => Newest(log, n, k) = log[i].value
<1>1. About(log, n, k) \subseteq 1..n
  BY DEF About
<1>2. ASSUME About(log, n, k) # {}
      PROVE  IsLast(log, n, k, Max(About(log, n, k)))
  BY <1>1, <1>2, GreatestNumber DEF IsLast
<1>3. ASSUME NEW i, IsLast(log, n, k, i)
      PROVE  Newest(log, n, k) = log[i].value
  <2>1. About(log, n, k) # {} /\ IsLast(log, n, k, Max(About(log, n, k)))
    BY <1>2, <1>3 DEF IsLast
  <2>2. Max(About(log, n, k)) = i
    BY <1>1, <1>3, <2>1 DEF IsLast
  <2>3. QED
    BY <2>1, <2>2 DEF Newest
<1>4. QED
  BY <1>1, <1>2, <1>3 DEF Newest, IsLast

\* It is a value, whatever the log.
LEMMA NewestIsValue ==
  ASSUME NEW log \in Seq(Content), NEW k
  PROVE  Newest(log, Len(log), k) \in Nat
<1>1. Len(log) \in Nat /\ \A i \in 1..Len(log) : log[i] \in Content
  OBVIOUS
<1>2. CASE About(log, Len(log), k) = {}
  BY <1>2 DEF Newest
<1>3. CASE About(log, Len(log), k) # {}
  <2>1. PICK i \in 1..Len(log) : IsLast(log, Len(log), k, i)
    BY <1>1, <1>3, LastGivesNewest
  <2>2. Newest(log, Len(log), k) = log[i].value
    BY <1>1, <2>1, LastGivesNewest
  <2>3. QED
    BY <1>1, <2>1, <2>2 DEF Content
<1>4. QED
  BY <1>2, <1>3

\* A reader that has read the first m messages, and these reach what the log
\* was at its start, has seen a value that the connector has had since.
LEMMA PrefixIsHeld ==
  ASSUME NEW log \in Seq(Content), NEW n \in Nat, NEW m \in n..Len(log), NEW k
  PROVE  Newest(log, m, k) \in Held(log, n, k)
<1>1. m \in Nat /\ Len(log) \in Nat /\ m <= Len(log) /\ n <= m
  OBVIOUS
<1>2. CASE About(log, m, k) = {}
  <2>1. About(log, n, k) = {}
    BY <1>1, <1>2 DEF About
  <2>2. QED
    BY <1>1, <1>2, <2>1, LastGivesNewest DEF Held
<1>3. CASE About(log, m, k) # {}
  <2>1. PICK i \in 1..m : IsLast(log, m, k, i)
    BY <1>1, <1>3, LastGivesNewest
  <2>2. Newest(log, m, k) = log[i].value
    BY <1>1, <2>1, LastGivesNewest
  <2>3. CASE i <= n
    <3>1. IsLast(log, n, k, i)
      BY <1>1, <2>1, <2>3 DEF IsLast, About
    <3>2. Newest(log, n, k) = log[i].value
      BY <3>1, LastGivesNewest
    <3>3. QED
      BY <2>2, <3>2 DEF Held
  <2>4. CASE i > n
    <3>1. i \in About(log, Len(log), k) \ 1..n
      BY <1>1, <2>1, <2>4 DEF IsLast, About
    <3>2. QED
      BY <2>2, <3>1 DEF Held
  <2>5. QED
    BY <1>1, <2>3, <2>4
<1>4. QED
  BY <1>2, <1>3

\* A reader's next message: it speaks of one connector.
LEMMA NextMessage ==
  ASSUME NEW log \in Seq(Content), NEW n \in Nat, n < Len(log), NEW k
  PROVE  /\ log[n + 1].connector = k => IsLast(log, n + 1, k, n + 1)
         /\ log[n + 1].connector # k => About(log, n + 1, k) = About(log, n, k)
<1>1. 1..(n + 1) = 1..n \cup {n + 1} /\ n + 1 \notin 1..n
  OBVIOUS
<1>2. \A j \in 1..(n + 1) : j <= n + 1
  OBVIOUS
<1>3. QED
  BY <1>1, <1>2 DEF IsLast, About

\* Whether a log begins as a shorter one.
Extends(longer, log) ==
  /\ Len(log) <= Len(longer)
  /\ \A i \in 1..Len(log) : longer[i] = log[i]

\* What a longer log adds leaves the beginning as it is.
LEMMA BeginningStays ==
  ASSUME NEW log \in Seq(Content), NEW longer \in Seq(Content), Extends(longer, log),
         NEW n \in 0..Len(log), NEW k
  PROVE  /\ About(longer, n, k) = About(log, n, k)
         /\ Newest(longer, n, k) = Newest(log, n, k)
<1>1. \A i \in 1..n : longer[i] = log[i]
  BY DEF Extends
<1>2. About(longer, n, k) = About(log, n, k)
  BY <1>1 DEF About
<1>3. CASE About(log, n, k) = {}
  BY <1>2, <1>3 DEF Newest
<1>4. CASE About(log, n, k) # {}
  <2>1. About(log, n, k) \subseteq 1..n /\ n \in Nat
    BY DEF About
  <2>2. Max(About(log, n, k)) \in 1..n
    BY <1>4, <2>1, GreatestNumber
  <2>3. QED
    BY <1>1, <1>2, <1>4, <2>2 DEF Newest
<1>5. QED
  BY <1>2, <1>3, <1>4

\* What was held stays held when the log grows.
LEMMA HeldGrows ==
  ASSUME NEW log \in Seq(Content), NEW longer \in Seq(Content), Extends(longer, log),
         NEW n \in 0..Len(log), NEW k
  PROVE  Held(log, n, k) \subseteq Held(longer, n, k)
<1>1. Newest(longer, n, k) = Newest(log, n, k)
  BY BeginningStays
<1>2. \A i \in About(log, Len(log), k) \ 1..n :
        /\ i \in About(longer, Len(longer), k) \ 1..n
        /\ longer[i].value = log[i].value
  <2>1. Len(log) \in Nat /\ Len(longer) \in Nat
    OBVIOUS
  <2>2. QED
    BY <2>1 DEF About, Extends
<1>3. QED
  BY <1>1, <1>2 DEF Held

-----------------------------------------------------------------------------
(* The types.                                                              *)

Step == {"idle", "configs", "partitions", "statuses", "rest", "rest_status", "record"}

\* Each variable has its type, a partition holds only the messages of the
\* connectors that hash to it, and logs only grow while a scan goes on.
ConnectTypeOK ==
  /\ clock \in Nat
  /\ configs \in Seq(Content)
  /\ statuses \in [Partition -> Seq(Content)]
  /\ \A p \in Partition : \A i \in 1..Len(statuses[p]) : PartitionOf[statuses[p][i].connector] = p
  /\ step \in Step /\ hasStatuses \in BOOLEAN
  /\ step \in {"partitions", "statuses"} => left \subseteq Partition
  /\ step \in {"rest", "rest_status"} => left \subseteq Connector
  /\ step = "statuses" => part \in Partition
  /\ pos \in Nat \ {0}
  /\ gotConfig \in [Connector -> Nat \cup {NoValue}]
  /\ gotState \in [Connector -> [value : Nat \cup {NoValue}, stamp : Nat \cup {NoValue}]]
  /\ begun \in [configs : Nat, statuses : [Partition -> Nat]]
  /\ begun.configs <= Len(configs)
  /\ \A p \in Partition : begun.statuses[p] <= Len(statuses[p])
  /\ missed \subseteq Connector /\ missedState \subseteq Connector

-----------------------------------------------------------------------------
(* What has been read so far.                                              *)

\* The map holds what the first n messages of connect-configs give.
ConfigSeen(k, n) ==
  /\ About(configs, n, k) = {} => gotConfig[k] = NoValue
  /\ About(configs, n, k) # {} => gotConfig[k] = Newest(configs, n, k)

\* What ConnectorsAreCurrent asks of one connector.
ConfigIsCurrent(k) ==
  IF Listed(k) THEN gotConfig[k] \in HeldConfigs(k) \ {0} ELSE 0 \in HeldConfigs(k)

LogOf(k) == statuses[PartitionOf[k]]

Stamp(log, i) == IF log[i].stamp = 0 THEN i - 1 ELSE log[i].stamp

\* The maps hold what the first n messages of k's partition give, provided
\* that its stamps increase.
StateSeen(k, n) ==
  /\ About(LogOf(k), n, k) = {} => gotState[k] = NoStates[k]
  /\ Ordered(k) => \A i \in 1..n : IsLast(LogOf(k), n, k, i) =>
       gotState[k] = [value |-> LogOf(k)[i].value, stamp |-> Stamp(LogOf(k), i)]

StateIsCurrent(k) == State(k) \in HeldStates(k)

\* A scan of the topics, before and after the configurations have been read.
ReadingConfigs ==
  step = "configs" =>
    /\ pos <= Len(configs) + 1
    /\ missed = {} /\ gotState = NoStates
    /\ missedState = IF hasStatuses THEN {} ELSE Connector
    /\ \A k \in Connector : ConfigSeen(k, pos - 1)

ConfigsRead ==
  step \in {"partitions", "statuses", "record"} =>
    \A k \in Connector \ missed : ConfigIsCurrent(k)

\* A partition not yet begun, the one being read, and those that are done.
ReadingStatuses ==
  step \in {"partitions", "statuses"} =>
    /\ hasStatuses
    /\ step = "partitions" => pos = 1
    /\ step = "statuses" => part \notin left /\ pos <= Len(statuses[part]) + 1
    /\ \A k \in Connector :
         \/ PartitionOf[k] \in left /\ gotState[k] = NoStates[k]
         \/ step = "statuses" /\ PartitionOf[k] = part /\ StateSeen(k, pos - 1)
         \/ /\ PartitionOf[k] \notin left /\ ~ (step = "statuses" /\ PartitionOf[k] = part)
            /\ k \in missedState \/ (Ordered(k) => StateIsCurrent(k))

\* A scan of the REST interface is done with the connectors not left; of the
\* others it has the configuration of the one whose status it asks for.
AskingConnectors ==
  step \in {"rest", "rest_status"} =>
    /\ ~ hasStatuses /\ pos = 1
    /\ \A k \in Connector \ (missed \cup left) : ConfigIsCurrent(k)
    /\ \A k \in Connector \ (missedState \cup left) : Listed(k) => StateIsCurrent(k)
    /\ \A k \in left : gotConfig[k] # NoValue => step = "rest_status" /\ ConfigIsCurrent(k)
    /\ \A j, k \in left : gotConfig[j] # NoValue /\ gotConfig[k] # NoValue => j = k

\* Between two scans nothing is remembered.
NothingRemembered ==
  step = "idle" =>
    /\ ~ hasStatuses /\ pos = 1 /\ missed = {} /\ missedState = {}
    /\ gotConfig = Nothing /\ gotState = NoStates

ScanInv ==
  /\ ConnectTypeOK
  /\ ReadingConfigs /\ ConfigsRead /\ ReadingStatuses /\ AskingConnectors /\ NothingRemembered
  /\ StatesAreCurrent

-----------------------------------------------------------------------------
(* What Connect does to a scan.                                            *)

\* One message more is an extension.
LEMMA AppendExtends ==
  ASSUME NEW log \in Seq(Content), NEW m \in Content
  PROVE  /\ Append(log, m) \in Seq(Content) /\ Extends(Append(log, m), log)
         /\ Len(Append(log, m)) = Len(log) + 1 /\ Append(log, m)[Len(log) + 1] = m
BY DEF Extends

\* Whether the logs have their types and have grown, the scan standing still.
LogsGrow ==
  /\ clock' \in Nat
  /\ configs' \in Seq(Content) /\ Extends(configs', configs)
  /\ statuses' \in [Partition -> Seq(Content)]
  /\ \A p \in Partition :
       /\ Extends(statuses'[p], statuses[p])
       /\ \A i \in 1..Len(statuses'[p]) : PartitionOf[statuses'[p][i].connector] = p
  /\ Unread

LEMMA ConnectGrowsLogs ==
  ASSUME ConnectTypeOK, Connect
  PROVE  LogsGrow
<1>1. clock + 1 \in Nat /\ \A log \in Seq(Content) : Extends(log, log)
  BY DEF ConnectTypeOK, Extends
<1>2. ASSUME NEW k \in Connector, Configure(k) \/ Delete(k)
      PROVE  LogsGrow
  <2>1. PICK m \in Content : configs' = Append(configs, m)
    <3>1. Message(k, clock', clock') \in Content /\ Message(k, 0, clock') \in Content
      BY <1>1, <1>2 DEF Message, Content, Tick, Configure, Delete
    <3>2. QED
      BY <1>2, <3>1 DEF Configure, Delete
  <2>2. configs' \in Seq(Content) /\ Extends(configs', configs)
    BY <2>1, AppendExtends DEF ConnectTypeOK
  <2>3. statuses' = statuses /\ Unread /\ clock' = clock + 1
    BY <1>2 DEF Configure, Delete, Tick
  <2>4. QED
    BY <1>1, <2>2, <2>3 DEF LogsGrow, ConnectTypeOK
<1>3. ASSUME NEW k \in Connector, NEW s \in 0..MaxClock, Report(k, s)
      PROVE  LogsGrow
  <2> DEFINE m == Message(k, IF k \in Live THEN clock' ELSE 0, s)
             q == PartitionOf[k]
  <2>1. m \in Content
    BY <1>1, <1>3, ConnectScanAssumption DEF Report, Tick, Message, Content
  <2>2. q \in Partition /\ m.connector = k /\ statuses[q] \in Seq(Content)
    BY ConnectScanAssumption DEF ConnectTypeOK, Message
  <2>3. /\ statuses' = [statuses EXCEPT ![q] = Append(statuses[q], m)]
        /\ configs' = configs /\ Unread /\ clock' = clock + 1
    BY <1>3 DEF Report, Tick
  <2> HIDE DEF m, q
  <2>4. /\ Append(statuses[q], m) \in Seq(Content) /\ Extends(Append(statuses[q], m), statuses[q])
        /\ Len(Append(statuses[q], m)) = Len(statuses[q]) + 1
        /\ Append(statuses[q], m)[Len(statuses[q]) + 1] = m
    BY <2>1, <2>2, AppendExtends
  <2>5. statuses' \in [Partition -> Seq(Content)]
    BY <2>2, <2>3, <2>4 DEF ConnectTypeOK
  <2>6. ASSUME NEW p \in Partition
        PROVE  /\ Extends(statuses'[p], statuses[p])
               /\ \A i \in 1..Len(statuses'[p]) : PartitionOf[statuses'[p][i].connector] = p
    <3>1. CASE p # q
      <4>1. statuses'[p] = statuses[p] /\ statuses[p] \in Seq(Content)
        BY <2>3, <3>1 DEF ConnectTypeOK
      <4>2. QED
        BY <1>1, <4>1 DEF ConnectTypeOK
    <3>2. CASE p = q
      <4>1. statuses'[p] = Append(statuses[q], m)
        BY <2>2, <2>3, <3>2 DEF ConnectTypeOK
      <4>2. ASSUME NEW i \in 1..Len(statuses'[p])
            PROVE  PartitionOf[statuses'[p][i].connector] = p
        <5>1. CASE i \in 1..Len(statuses[q])
          BY <2>4, <3>2, <4>1, <5>1 DEF ConnectTypeOK, Extends
        <5>2. CASE i = Len(statuses[q]) + 1
          BY <2>2, <2>4, <3>2, <4>1, <5>2 DEF q
        <5>3. Len(statuses[q]) \in Nat
          BY <2>2
        <5>4. QED
          BY <2>4, <4>1, <5>1, <5>2, <5>3
      <4>3. QED
        BY <2>4, <3>2, <4>1, <4>2
    <3>3. QED
      BY <3>1, <3>2
  <2>7. QED
    BY <1>1, <2>3, <2>5, <2>6 DEF LogsGrow, ConnectTypeOK
<1>4. QED
  BY <1>2, <1>3 DEF Connect

\* Of what has been read nothing changes then, and what was current remains so.
LEMMA GrowthKeepsWhatWasRead ==
  ASSUME ConnectTypeOK, LogsGrow, NEW k \in Connector
  PROVE  /\ ConfigIsCurrent(k) => ConfigIsCurrent(k)'
         /\ StateIsCurrent(k) => StateIsCurrent(k)'
         /\ Ordered(k)' => Ordered(k)
         /\ \A n \in 0..Len(configs) : ConfigSeen(k, n) => ConfigSeen(k, n)'
         /\ \A n \in 0..Len(LogOf(k)) : StateSeen(k, n) => StateSeen(k, n)'
<1>1. UNCHANGED <<gotConfig, gotState, begun>> /\ (Listed(k)' <=> Listed(k)) /\ State(k)' = State(k)
  BY DEF LogsGrow, Unread, history, Listed, State
<1>2. PartitionOf[k] \in Partition
  BY ConnectScanAssumption
<1>3. /\ LogOf(k) \in Seq(Content) /\ LogOf(k)' \in Seq(Content) /\ Extends(LogOf(k)', LogOf(k))
      /\ begun.statuses[PartitionOf[k]] \in 0..Len(LogOf(k))
  BY <1>2 DEF ConnectTypeOK, LogsGrow, LogOf
<1>4. /\ configs \in Seq(Content) /\ configs' \in Seq(Content) /\ Extends(configs', configs)
      /\ begun.configs \in 0..Len(configs)
  BY DEF ConnectTypeOK, LogsGrow
<1>5. HeldConfigs(k) \subseteq HeldConfigs(k)'
  BY <1>1, <1>4, HeldGrows DEF HeldConfigs
<1>6. HeldStates(k) \subseteq HeldStates(k)'
  BY <1>1, <1>3, HeldGrows DEF HeldStates, LogOf
<1>7. \A i \in 1..Len(LogOf(k)) : i \in 1..Len(LogOf(k)') /\ LogOf(k)'[i] = LogOf(k)[i]
  BY <1>3 DEF Extends
<1>8. \A i \in 1..Len(LogOf(k)) : Stamp(LogOf(k)', i) = Stamp(LogOf(k), i)
  BY <1>7 DEF Stamp
<1>9. ASSUME Ordered(k)'
      PROVE  Ordered(k)
  BY <1>7, <1>9 DEF Ordered, About, LogOf
<1>10. ASSUME NEW n \in 0..Len(configs), ConfigSeen(k, n)
       PROVE  ConfigSeen(k, n)'
  BY <1>1, <1>4, <1>10, BeginningStays DEF ConfigSeen
<1>11. ASSUME NEW n \in 0..Len(LogOf(k)), StateSeen(k, n)
       PROVE  StateSeen(k, n)'
  <2>1. About(LogOf(k)', n, k) = About(LogOf(k), n, k)
    BY <1>3, BeginningStays
  <2>2. ASSUME Ordered(k)', NEW i \in 1..n, IsLast(LogOf(k)', n, k, i)
        PROVE  gotState'[k] = [value |-> LogOf(k)'[i].value, stamp |-> Stamp(LogOf(k)', i)]
    <3>1. i \in 1..Len(LogOf(k)) /\ IsLast(LogOf(k), n, k, i)
      BY <1>3, <2>1, <2>2 DEF IsLast
    <3>2. gotState[k] = [value |-> LogOf(k)[i].value, stamp |-> Stamp(LogOf(k), i)]
      BY <1>9, <1>11, <2>2, <3>1 DEF StateSeen
    <3>3. QED
      BY <1>1, <1>7, <1>8, <3>1, <3>2
  <2>3. About(LogOf(k)', n, k) = {} => gotState'[k] = NoStates[k]
    BY <1>1, <1>11, <2>1 DEF StateSeen
  <2>4. QED
    BY <2>2, <2>3 DEF StateSeen
<1>12. QED
  BY <1>1, <1>5, <1>6, <1>9, <1>10, <1>11 DEF ConfigIsCurrent, StateIsCurrent

-----------------------------------------------------------------------------
(* What a reading amounts to.                                              *)

\* A configuration read up to where the topic ended at the scan's start, or
\* beyond, is one the connector has had since.
LEMMA ConfigSeenIsCurrent ==
  ASSUME ConnectTypeOK, NEW k \in Connector, NEW n \in Nat, begun.configs <= n, n <= Len(configs),
         ConfigSeen(k, n)
  PROVE  ConfigIsCurrent(k)
<1>1. configs \in Seq(Content) /\ begun.configs \in Nat /\ n \in begun.configs..Len(configs)
  BY DEF ConnectTypeOK
<1>2. Newest(configs, n, k) \in HeldConfigs(k)
  BY <1>1, PrefixIsHeld DEF HeldConfigs
<1>3. CASE About(configs, n, k) = {}
  <2>1. gotConfig[k] = NoValue /\ Newest(configs, n, k) = 0
    BY <1>3, LastGivesNewest DEF ConfigSeen
  <2>2. QED
    BY <1>2, <2>1 DEF ConfigIsCurrent, Listed
<1>4. CASE About(configs, n, k) # {}
  <2>1. gotConfig[k] = Newest(configs, n, k)
    BY <1>4 DEF ConfigSeen
  <2>2. PICK i \in 1..n : IsLast(configs, n, k, i)
    BY <1>4, LastGivesNewest
  <2>3. gotConfig[k] = configs[i].value
    BY <2>1, <2>2, LastGivesNewest
  <2>4. gotConfig[k] # NoValue
    <3>1. i \in 1..Len(configs)
      BY <1>1
    <3>2. configs[i] \in Content
      BY <1>1, <3>1
    <3>3. QED
      BY <2>3, <3>2 DEF Content, NoValue
  <2>5. QED
    BY <1>2, <2>1, <2>4 DEF ConfigIsCurrent, Listed
<1>5. QED
  BY <1>3, <1>4

\* The same for the statuses, as long as their stamps increase.
LEMMA StateSeenIsCurrent ==
  ASSUME ConnectTypeOK, NEW k \in Connector, NEW n \in Nat, StateSeen(k, n), Ordered(k),
         begun.statuses[PartitionOf[k]] <= n, n <= Len(LogOf(k))
  PROVE  StateIsCurrent(k)
<1>1. PartitionOf[k] \in Partition
  BY ConnectScanAssumption
<1>2. /\ LogOf(k) \in Seq(Content) /\ begun.statuses[PartitionOf[k]] \in Nat
      /\ n \in begun.statuses[PartitionOf[k]]..Len(LogOf(k))
  BY <1>1 DEF ConnectTypeOK, LogOf
<1>3. Newest(LogOf(k), n, k) \in HeldStates(k)
  BY <1>2, PrefixIsHeld DEF HeldStates, LogOf
<1>4. CASE About(LogOf(k), n, k) = {}
  <2>1. State(k) = 0 /\ Newest(LogOf(k), n, k) = 0
    BY <1>4, LastGivesNewest DEF StateSeen, State, NoStates
  <2>2. QED
    BY <1>3, <2>1 DEF StateIsCurrent
<1>5. CASE About(LogOf(k), n, k) # {}
  <2>1. PICK i \in 1..n : IsLast(LogOf(k), n, k, i)
    BY <1>5, LastGivesNewest
  <2>2. Newest(LogOf(k), n, k) = LogOf(k)[i].value
    BY <2>1, LastGivesNewest
  <2>3. gotState[k].value = LogOf(k)[i].value
    <3>1. gotState[k] = [value |-> LogOf(k)[i].value, stamp |-> Stamp(LogOf(k), i)]
      BY <2>1, Zenon DEF StateSeen
    <3>2. QED
      BY <3>1
  <2>4. LogOf(k)[i].value # NoValue
    <3>1. i \in 1..Len(LogOf(k))
      BY <1>2
    <3>2. LogOf(k)[i] \in Content
      BY <1>2, <3>1
    <3>3. QED
      BY <3>2 DEF Content, NoValue
  <2>5. QED
    BY <1>3, <2>2, <2>3, <2>4 DEF StateIsCurrent, State
<1>6. QED
  BY <1>4, <1>5

\* The map takes over what the next configuration says.
LEMMA NextConfigIsSeen ==
  ASSUME ConnectTypeOK, ReadConfig, NEW k \in Connector, ConfigSeen(k, pos - 1)
  PROVE  ConfigSeen(k, pos - 1)'
<1>1. /\ configs' = configs /\ configs \in Seq(Content) /\ pos' = pos + 1 /\ pos' - 1 = pos
      /\ pos - 1 \in Nat /\ pos - 1 < Len(configs) /\ (pos - 1) + 1 = pos
      /\ configs[pos] \in Content
  BY DEF ConnectTypeOK, ReadConfig, connect
<1>2. gotConfig' = [gotConfig EXCEPT ![configs[pos].connector] = configs[pos].value]
  BY DEF ReadConfig
<1>3. CASE configs[pos].connector = k
  <2>1. IsLast(configs, pos, k, pos)
    BY <1>1, <1>3, NextMessage
  <2>2. About(configs, pos, k) # {} /\ Newest(configs, pos, k) = configs[pos].value
    <3>1. pos \in Nat
      BY DEF ConnectTypeOK
    <3>2. QED
      BY <2>1, <3>1, LastGivesNewest DEF IsLast
  <2>3. gotConfig'[k] = configs[pos].value
    BY <1>2, <1>3 DEF ConnectTypeOK
  <2>4. QED
    BY <1>1, <2>2, <2>3 DEF ConfigSeen
<1>4. CASE configs[pos].connector # k
  <2>1. About(configs, pos, k) = About(configs, pos - 1, k)
    BY <1>1, <1>4, NextMessage
  <2>2. gotConfig'[k] = gotConfig[k]
    BY <1>2, <1>4 DEF ConnectTypeOK
  <2>3. Newest(configs, pos, k) = Newest(configs, pos - 1, k)
    BY <2>1 DEF Newest
  <2>4. QED
    BY <1>1, <2>1, <2>2, <2>3 DEF ConfigSeen
<1>5. QED
  BY <1>3, <1>4

\* And so do the maps of the statuses: a stamp that increases is newer.
LEMMA NextStatusIsSeen ==
  ASSUME ConnectTypeOK, ReadStatus, NEW k \in Connector, PartitionOf[k] = part, StateSeen(k, pos - 1)
  PROVE  StateSeen(k, pos - 1)'
<1> DEFINE log == LogOf(k)
           m == log[pos]
           new == [value |-> m.value, stamp |-> Stamp(log, pos)]
<1>1. PartitionOf[k] \in Partition
  BY ConnectScanAssumption
<1>2. log \in Seq(Content) /\ statuses[part] = log /\ LogOf(k)' = log
  BY <1>1 DEF ConnectTypeOK, ReadStatus, connect, LogOf
<1>3. /\ pos \in 1..Len(log) /\ pos' - 1 = pos
      /\ pos - 1 \in Nat /\ pos - 1 < Len(log) /\ (pos - 1) + 1 = pos /\ pos \in Nat
  BY <1>2 DEF ConnectTypeOK, ReadStatus
<1>4. m \in Content
  BY <1>2, <1>3
<1>5. gotState' = IF Newer(Stamp(log, pos), gotState[m.connector].stamp)
                    THEN [gotState EXCEPT ![m.connector] = new] ELSE gotState
  BY <1>2 DEF ReadStatus, Stamp
<1>6. Ordered(k)' <=> Ordered(k)
  BY DEF ReadStatus, connect, Ordered
<1>7. CASE m.connector = k
  <2>1. IsLast(log, pos, k, pos)
    BY <1>2, <1>3, <1>7, NextMessage
  <2>2. \A i \in 1..pos : IsLast(log, pos, k, i) => i = pos
    BY <1>3, <2>1 DEF IsLast
  <2>3. About(log, pos, k) # {}
    BY <2>1 DEF IsLast
  <2>4. ASSUME Ordered(k)
        PROVE  Newer(Stamp(log, pos), gotState[k].stamp)
    <3>1. CASE About(log, pos - 1, k) = {}
      <4>1. gotState[k] = NoStates[k]
        BY <3>1 DEF StateSeen
      <4>2. QED
        BY <4>1 DEF NoStates, Newer
    <3>2. CASE About(log, pos - 1, k) # {}
      <4>1. PICK j \in 1..(pos - 1) : IsLast(log, pos - 1, k, j)
        BY <1>3, <3>2, LastGivesNewest
      <4>2. gotState[k] = [value |-> log[j].value, stamp |-> Stamp(log, j)]
        BY <2>4, <4>1, Zenon DEF StateSeen
      <4>3. j \in About(log, Len(log), k) /\ pos \in About(log, Len(log), k) /\ j < pos
        BY <1>2, <1>3, <1>7, <4>1 DEF IsLast, About
      <4>4. Stamp(log, j) < Stamp(log, pos)
        BY <2>4, <4>3 DEF Ordered, LogOf, Stamp
      <4>5. QED
        BY <4>2, <4>4 DEF Newer
    <3>3. QED
      BY <3>1, <3>2
  <2>5. Ordered(k) => gotState'[k] = new
    BY <1>5, <1>7, <2>4 DEF ConnectTypeOK
  <2>6. About(LogOf(k)', pos' - 1, k) # {}
    BY <1>2, <1>3, <2>3
  <2>7. ASSUME Ordered(k)', NEW i \in 1..(pos' - 1), IsLast(LogOf(k)', pos' - 1, k, i)
        PROVE  gotState'[k] = [value |-> LogOf(k)'[i].value, stamp |-> Stamp(LogOf(k)', i)]
    <3>1. i = pos
      BY <1>2, <1>3, <2>2, <2>7
    <3>2. QED
      BY <1>2, <1>6, <2>5, <2>7, <3>1
  <2>8. QED
    BY <2>6, <2>7 DEF StateSeen
<1>8. CASE m.connector # k
  <2>1. About(log, pos, k) = About(log, pos - 1, k)
    BY <1>2, <1>3, <1>8, NextMessage
  <2>2. gotState'[k] = gotState[k]
    BY <1>5, <1>8 DEF ConnectTypeOK
  <2>3. About(LogOf(k)', pos' - 1, k) = {} => gotState'[k] = NoStates[k]
    BY <1>2, <1>3, <2>1, <2>2 DEF StateSeen
  <2>4. ASSUME Ordered(k)', NEW i \in 1..(pos' - 1), IsLast(LogOf(k)', pos' - 1, k, i)
        PROVE  gotState'[k] = [value |-> LogOf(k)'[i].value, stamp |-> Stamp(LogOf(k)', i)]
    <3>1. IsLast(log, pos - 1, k, i) /\ i \in 1..(pos - 1)
      BY <1>2, <1>3, <2>1, <2>4 DEF IsLast, About
    <3>2. gotState[k] = [value |-> log[i].value, stamp |-> Stamp(log, i)]
      BY <1>6, <2>4, <3>1, Zenon DEF StateSeen
    <3>3. QED
      BY <1>2, <2>2, <3>2
  <2>5. QED
    BY <2>3, <2>4 DEF StateSeen
<1>9. QED
  BY <1>7, <1>8

-----------------------------------------------------------------------------
(* Type correctness.                                                       *)

LEMMA TypesAtFirst == ConnectInit => ConnectTypeOK
<1> SUFFICES ASSUME ConnectInit PROVE ConnectTypeOK
  OBVIOUS
<1>1. <<>> \in Seq(Content) /\ Len(<<>>) = 0
  OBVIOUS
<1>2. statuses \in [Partition -> Seq(Content)] /\ \A p \in Partition : Len(statuses[p]) = 0
  BY <1>1 DEF ConnectInit
<1>3. begun \in [configs : Nat, statuses : [Partition -> Nat]]
  BY DEF ConnectInit, NothingBegun
<1>4. begun.configs = 0 /\ \A p \in Partition : begun.statuses[p] = 0
  BY DEF ConnectInit, NothingBegun
<1>5. gotState \in [Connector -> [value : Nat \cup {NoValue}, stamp : Nat \cup {NoValue}]]
  BY DEF ConnectInit, NoStates
<1>6. gotConfig \in [Connector -> Nat \cup {NoValue}]
  BY DEF ConnectInit, Nothing
<1>7. configs \in Seq(Content) /\ begun.configs <= Len(configs)
  BY <1>1, <1>4 DEF ConnectInit
<1>8. /\ \A p \in Partition : begun.statuses[p] <= Len(statuses[p])
      /\ \A p \in Partition : \A i \in 1..Len(statuses[p]) : PartitionOf[statuses[p][i].connector] = p
  BY <1>2, <1>4
<1>9. /\ clock \in Nat /\ step = "idle" /\ pos \in Nat \ {0}
      /\ missed \subseteq Connector /\ missedState \subseteq Connector
  BY DEF ConnectInit
<1>10. hasStatuses \in BOOLEAN
  BY Zenon DEF ConnectInit
<1>11. QED
  BY <1>10, <1>2, <1>3, <1>5, <1>6, <1>7, <1>8, <1>9 DEF ConnectTypeOK, Step

LEMMA TypesStay == ConnectTypeOK /\ [ConnectNext]_connectVars => ConnectTypeOK'
<1> SUFFICES ASSUME ConnectTypeOK, [ConnectNext]_connectVars PROVE ConnectTypeOK'
  OBVIOUS
<1>1. CASE UNCHANGED connectVars
  BY <1>1 DEF ConnectTypeOK, connectVars, connect, history
<1>2. CASE Connect
  <2>1. LogsGrow
    BY <1>2, ConnectGrowsLogs
  <2>2. UNCHANGED <<step, hasStatuses, left, part, pos, gotConfig, gotState, begun, missed, missedState>>
    BY <2>1 DEF LogsGrow, Unread, history
  <2>3. configs \in Seq(Content) /\ configs' \in Seq(Content) /\ begun.configs <= Len(configs')
    BY <2>1 DEF ConnectTypeOK, LogsGrow, Extends
  <2>4. ASSUME NEW p \in Partition
        PROVE  begun.statuses[p] <= Len(statuses'[p])
    <3>1. statuses[p] \in Seq(Content) /\ statuses'[p] \in Seq(Content)
      BY <2>1 DEF ConnectTypeOK, LogsGrow
    <3>2. QED
      BY <2>1, <3>1 DEF ConnectTypeOK, LogsGrow, Extends
  <2>5. QED
    BY <2>1, <2>2, <2>3, <2>4 DEF LogsGrow, ConnectTypeOK
<1>3. ASSUME NEW withStatuses \in BOOLEAN, ScanKafkaResources(withStatuses) \/ ListConnectors
      PROVE  ConnectTypeOK'
  <2>1. begun' \in [configs : Nat, statuses : [Partition -> Nat]]
    BY <1>3 DEF ScanKafkaResources, ListConnectors, Begin, ConnectTypeOK
  <2>2. begun'.configs = Len(configs) /\ \A p \in Partition : begun'.statuses[p] = Len(statuses[p])
    BY <1>3 DEF ScanKafkaResources, ListConnectors, Begin
  <2>3. UNCHANGED <<connect, part, pos, gotConfig, gotState, missed>>
    BY <1>3 DEF ScanKafkaResources, ListConnectors
  <2>4. configs \in Seq(Content) /\ \A p \in Partition : statuses[p] \in Seq(Content)
    BY DEF ConnectTypeOK
  <2>5. begun'.configs <= Len(configs) /\ \A p \in Partition : begun'.statuses[p] <= Len(statuses[p])
    BY <2>2, <2>4
  <2>6. CASE ScanKafkaResources(withStatuses)
    BY <2>1, <2>3, <2>5, <2>6 DEF ConnectTypeOK, ScanKafkaResources, connect, Step
  <2>7. CASE ListConnectors
    BY <2>1, <2>3, <2>5, <2>7 DEF ConnectTypeOK, ListConnectors, connect, Step, Live
  <2>8. QED
    BY <1>3, <2>6, <2>7
<1>4. CASE ReadConfig
  <2>1. configs[pos] \in Content
    BY <1>4 DEF ReadConfig, ConnectTypeOK
  <2>2. gotConfig' \in [Connector -> Nat \cup {NoValue}]
    BY <1>4, <2>1 DEF ReadConfig, ConnectTypeOK, Content
  <2>3. QED
    BY <1>4, <2>2 DEF ReadConfig, ConnectTypeOK, connect, history
<1>5. CASE EndOfConfigs
  BY <1>5 DEF EndOfConfigs, ConnectTypeOK, connect, Step
<1>6. ASSUME NEW p \in Partition, StartPartition(p)
      PROVE  ConnectTypeOK'
  BY <1>6 DEF StartPartition, ConnectTypeOK, connect, history, Step
<1>7. CASE ReadStatus
  <2> DEFINE m == statuses[part][pos]
             new == [value |-> m.value, stamp |-> IF m.stamp = 0 THEN pos - 1 ELSE m.stamp]
  <2>1. statuses[part] \in Seq(Content) /\ pos \in 1..Len(statuses[part])
    BY <1>7 DEF ReadStatus, ConnectTypeOK
  <2>2. m \in Content
    BY <2>1
  <2>3. new \in [value : Nat \cup {NoValue}, stamp : Nat \cup {NoValue}]
    BY <2>1, <2>2 DEF Content
  <2>4. gotState' \in {gotState, [gotState EXCEPT ![m.connector] = new]}
    BY <1>7 DEF ReadStatus
  <2> HIDE DEF new
  <2>5. gotState' \in [Connector -> [value : Nat \cup {NoValue}, stamp : Nat \cup {NoValue}]]
    BY <2>3, <2>4 DEF ConnectTypeOK
  <2>6. QED
    BY <1>7, <2>5 DEF ReadStatus, ConnectTypeOK, connect, history
<1>8. CASE EndOfPartition
  BY <1>8 DEF EndOfPartition, ConnectTypeOK, connect, Step
<1>9. CASE End
  <2>1. /\ begun' \in [configs : Nat, statuses : [Partition -> Nat]]
        /\ begun'.configs = 0 /\ \A p \in Partition : begun'.statuses[p] = 0
    BY <1>9 DEF End, NothingBegun
  <2>2. gotState' \in [Connector -> [value : Nat \cup {NoValue}, stamp : Nat \cup {NoValue}]]
    BY <1>9 DEF End, NoStates
  <2>3. 0 <= Len(configs) /\ \A p \in Partition : 0 <= Len(statuses[p])
    BY DEF ConnectTypeOK
  <2>4. gotConfig' \in [Connector -> Nat \cup {NoValue}]
    BY <1>9 DEF End, Nothing
  <2>5. UNCHANGED connect /\ step' = "idle" /\ pos' \in Nat \ {0}
    BY <1>9 DEF End
  <2>6. missed' \subseteq Connector /\ missedState' \subseteq Connector
    BY <1>9 DEF End
  <2>7. hasStatuses' \in BOOLEAN
    BY <1>9, Zenon DEF End
  <2>8. QED
    BY <2>1, <2>2, <2>3, <2>4, <2>5, <2>6, <2>7 DEF ConnectTypeOK, connect, Step
<1>10. CASE ConsumerFails /\ ~ End
  BY <1>10 DEF ConsumerFails, ConnectTypeOK, connect, Step
<1>11. ASSUME NEW k \in Connector, NEW ok \in BOOLEAN, GetConnectorConfig(k, ok)
       PROVE  ConnectTypeOK'
  <2>1. Current(configs, k) \in Nat
    BY NewestIsValue DEF ConnectTypeOK, Current
  <2>2. gotConfig' \in [Connector -> Nat \cup {NoValue}]
    BY <1>11, <2>1 DEF GetConnectorConfig, ConnectTypeOK
  <2>3. QED
    BY <1>11, <2>2 DEF GetConnectorConfig, ConnectTypeOK, connect, Step
<1>12. ASSUME NEW k \in Connector, NEW ok \in BOOLEAN, GetConnectorStatus(k, ok)
       PROVE  ConnectTypeOK'
  <2>1. Current(statuses[PartitionOf[k]], k) \in Nat
    BY NewestIsValue, ConnectScanAssumption DEF ConnectTypeOK, Current
  <2>2. gotState' \in [Connector -> [value : Nat \cup {NoValue}, stamp : Nat \cup {NoValue}]]
    BY <1>12, <2>1 DEF GetConnectorStatus, ConnectTypeOK
  <2>3. QED
    BY <1>12, <2>2 DEF GetConnectorStatus, ConnectTypeOK, connect, Step
<1>13. QED
  BY <1>1, <1>2, <1>3, <1>4, <1>5, <1>6, <1>7, <1>8, <1>9, <1>10, <1>11, <1>12
     DEF ConnectNext, Scan, Record

-----------------------------------------------------------------------------
(* The invariant of a scan.                                                *)

LEMMA InvAtFirst == ConnectInit => ScanInv
<1> SUFFICES ASSUME ConnectInit PROVE ScanInv
  OBVIOUS
<1>1. ConnectTypeOK
  BY TypesAtFirst
<1>2. NothingRemembered /\ step = "idle"
  BY DEF ConnectInit, NothingRemembered
<1>3. QED
  BY <1>1, <1>2 DEF ScanInv, ReadingConfigs, ConfigsRead, ReadingStatuses, AskingConnectors,
                    StatesAreCurrent

\* A step of the scan leaves the logs alone, and of the connectors whose
\* configuration or status it leaves alone what holds goes on to hold.
LEMMA ScanStepKeeps ==
  ASSUME UNCHANGED <<connect, begun>>, NEW k \in Connector
  PROVE  /\ HeldConfigs(k)' = HeldConfigs(k) /\ HeldStates(k)' = HeldStates(k)
         /\ Ordered(k)' <=> Ordered(k)
         /\ gotConfig'[k] = gotConfig[k] => /\ Listed(k)' <=> Listed(k)
                                            /\ ConfigIsCurrent(k)' <=> ConfigIsCurrent(k)
         /\ gotState'[k] = gotState[k] => StateIsCurrent(k)' <=> StateIsCurrent(k)
BY DEF connect, HeldConfigs, HeldStates, Ordered, Listed, ConfigIsCurrent, State, StateIsCurrent

\* Connect's messages never spoil what a scan has read.
LEMMA InvAndConnect == ScanInv /\ Connect => ScanInv'
<1> SUFFICES ASSUME ScanInv, Connect PROVE ScanInv'
  OBVIOUS
<1>1. ConnectTypeOK /\ LogsGrow
  BY ConnectGrowsLogs DEF ScanInv
<1>2. ConnectTypeOK'
  BY <1>1, TypesStay DEF ConnectNext
<1>3. UNCHANGED <<step, hasStatuses, left, part, pos, gotConfig, gotState, begun, missed, missedState>>
  BY <1>1 DEF LogsGrow, Unread, history
<1>4. /\ pos \in Nat /\ pos - 1 \in Nat /\ Len(configs) \in Nat /\ Len(configs') \in Nat
      /\ Len(configs) <= Len(configs')
  BY <1>1 DEF ConnectTypeOK, LogsGrow, Extends
<1>5. \A k \in Connector : /\ ConfigIsCurrent(k) => ConfigIsCurrent(k)'
                           /\ StateIsCurrent(k) => StateIsCurrent(k)'
                           /\ Ordered(k)' => Ordered(k)
  BY <1>1, GrowthKeepsWhatWasRead
<1>6. \A k \in Connector : Listed(k)' <=> Listed(k)
  BY <1>3 DEF Listed
<1>7. ReadingConfigs'
  <2> SUFFICES ASSUME step = "configs" PROVE ReadingConfigs'
    BY <1>3 DEF ReadingConfigs
  <2>1. pos <= Len(configs') + 1 /\ pos - 1 \in 0..Len(configs)
    BY <1>4 DEF ScanInv, ReadingConfigs
  <2>2. ASSUME NEW k \in Connector
        PROVE  ConfigSeen(k, pos - 1)'
    <3>1. ConfigSeen(k, pos - 1)
      BY DEF ScanInv, ReadingConfigs
    <3>2. \A n \in 0..Len(configs) : ConfigSeen(k, n) => ConfigSeen(k, n)'
      BY <1>1, GrowthKeepsWhatWasRead
    <3>3. QED
      BY <1>3, <2>1, <3>1, <3>2 DEF ConfigSeen
  <2>3. QED
    BY <1>3, <2>1, <2>2 DEF ScanInv, ReadingConfigs
<1>8. ConfigsRead'
  BY <1>3, <1>5 DEF ScanInv, ConfigsRead
<1>9. ReadingStatuses'
  <2> SUFFICES ASSUME step \in {"partitions", "statuses"} PROVE ReadingStatuses'
    BY <1>3 DEF ReadingStatuses
  <2>1. ASSUME step = "statuses"
        PROVE  pos <= Len(statuses[part]) + 1 /\ pos <= Len(statuses'[part]) + 1
    <3>1. Len(statuses[part]) \in Nat /\ Len(statuses'[part]) \in Nat
      BY <1>1, <2>1 DEF ConnectTypeOK, LogsGrow
    <3>2. pos <= Len(statuses[part]) + 1 /\ Extends(statuses'[part], statuses[part])
      BY <1>1, <2>1 DEF ScanInv, ReadingStatuses, ConnectTypeOK, LogsGrow
    <3>3. QED
      BY <1>4, <3>1, <3>2 DEF Extends
  <2>2. ASSUME NEW k \in Connector, step = "statuses", PartitionOf[k] = part, StateSeen(k, pos - 1)
        PROVE  StateSeen(k, pos - 1)'
    <3>1. pos - 1 \in 0..Len(LogOf(k))
      <4>1. Len(statuses[part]) \in Nat
        BY <1>1, <2>2 DEF ConnectTypeOK
      <4>2. QED
        BY <1>4, <2>1, <2>2, <4>1 DEF LogOf
    <3>2. \A n \in 0..Len(LogOf(k)) : StateSeen(k, n) => StateSeen(k, n)'
      BY <1>1, GrowthKeepsWhatWasRead
    <3>3. QED
      BY <1>3, <2>2, <3>1, <3>2 DEF StateSeen
  <2>3. QED
    BY <1>3, <1>5, <2>1, <2>2 DEF ScanInv, ReadingStatuses
<1>10. AskingConnectors'
  <2> SUFFICES ASSUME step \in {"rest", "rest_status"} PROVE AskingConnectors'
    BY <1>3 DEF AskingConnectors
  <2>1. left \subseteq Connector /\ AskingConnectors
    BY DEF ScanInv, ConnectTypeOK
  <2>2. \A k \in Connector \ (missed \cup left) : ConfigIsCurrent(k)'
    BY <1>5, <2>1 DEF AskingConnectors
  <2>3. \A k \in Connector \ (missedState \cup left) : Listed(k)' => StateIsCurrent(k)'
    BY <1>5, <1>6, <2>1 DEF AskingConnectors
  <2>4. \A k \in left : gotConfig[k] # NoValue => step = "rest_status" /\ ConfigIsCurrent(k)'
    BY <1>5, <2>1 DEF AskingConnectors
  <2>5. /\ ~ hasStatuses /\ pos = 1
        /\ \A j, k \in left : gotConfig[j] # NoValue /\ gotConfig[k] # NoValue => j = k
    BY <2>1 DEF AskingConnectors
  <2>6. QED
    BY <1>3, <2>2, <2>3, <2>4, <2>5 DEF AskingConnectors
<1>11. NothingRemembered'
  BY <1>3 DEF ScanInv, NothingRemembered
<1>12. StatesAreCurrent'
  BY <1>3, <1>5, <1>6 DEF ScanInv, StatesAreCurrent, StateIsCurrent
<1>13. QED
  BY <1>2, <1>7, <1>8, <1>9, <1>10, <1>11, <1>12 DEF ScanInv

\* The scan of the topics preserves the invariant.
LEMMA InvAndTopics ==
  ASSUME ScanInv, ConnectTypeOK',
         \/ \E withStatuses \in BOOLEAN : ScanKafkaResources(withStatuses)
         \/ ReadConfig \/ EndOfConfigs
         \/ \E p \in Partition : StartPartition(p)
         \/ ReadStatus \/ EndOfPartition \/ (ConsumerFails /\ ~ End)
  PROVE  ScanInv'
<1>1. ASSUME NEW withStatuses \in BOOLEAN, ScanKafkaResources(withStatuses)
      PROVE  ScanInv'
  <2>1. /\ step = "idle" /\ step' = "configs" /\ pos' = 1 /\ missed' = {} /\ gotState' = NoStates
        /\ gotConfig' = Nothing
    BY <1>1 DEF ScanKafkaResources, ScanInv, NothingRemembered
  <2>2. missedState' = IF hasStatuses' THEN {} ELSE Connector
    BY <1>1 DEF ScanKafkaResources
  <2>3. ASSUME NEW k \in Connector
        PROVE  ConfigSeen(k, pos - 1)'
    <3>1. About(configs', pos' - 1, k) = {}
      BY <2>1 DEF About
    <3>2. QED
      BY <2>1, <3>1 DEF ConfigSeen, Nothing
  <2>4. pos' <= Len(configs') + 1
    BY <2>1 DEF ConnectTypeOK
  <2>5. ReadingConfigs'
    BY <2>1, <2>2, <2>3, <2>4 DEF ReadingConfigs
  <2>6. QED
    BY <2>1, <2>5 DEF ScanInv, ConfigsRead, ReadingStatuses, AskingConnectors, NothingRemembered,
                      StatesAreCurrent
<1>2. CASE ReadConfig
  <2>1. /\ step = "configs" /\ UNCHANGED <<connect, step, hasStatuses, gotState, history>>
        /\ pos <= Len(configs) /\ pos' = pos + 1 /\ pos \in Nat /\ Len(configs) \in Nat
    BY <1>2 DEF ReadConfig, ScanInv, ConnectTypeOK
  <2>2. ASSUME NEW k \in Connector
        PROVE  ConfigSeen(k, pos - 1)'
    BY <1>2, <2>1, NextConfigIsSeen DEF ScanInv, ReadingConfigs
  <2>3. pos' <= Len(configs') + 1
    BY <2>1 DEF connect
  <2>4. ReadingConfigs'
    BY <2>1, <2>2, <2>3 DEF ReadingConfigs, ScanInv, history
  <2>5. QED
    BY <2>1, <2>4 DEF ScanInv, ConfigsRead, ReadingStatuses, AskingConnectors, NothingRemembered,
                      StatesAreCurrent
<1>3. CASE EndOfConfigs
  <2>1. /\ step = "configs" /\ ReadingConfigs /\ ConnectTypeOK
        /\ UNCHANGED <<connect, begun, hasStatuses, gotConfig, gotState, missedState>> /\ pos' = 1
        /\ step' = IF hasStatuses THEN "partitions" ELSE "record"
        /\ hasStatuses => left' = Partition
    BY <1>3 DEF EndOfConfigs, ScanInv
  <2>2. /\ pos \in Nat /\ pos - 1 \in Nat /\ pos <= Len(configs) + 1 /\ Len(configs) \in Nat
        /\ begun.configs \in Nat
    BY <2>1 DEF ReadingConfigs, ConnectTypeOK
  <2>3. ASSUME NEW k \in Connector, k \notin missed'
        PROVE  ConfigIsCurrent(k)'
    <3>1. begun.configs <= pos - 1 /\ pos - 1 <= Len(configs)
      BY <1>3, <2>2, <2>3 DEF EndOfConfigs
    <3>2. ConfigSeen(k, pos - 1)
      BY <2>1 DEF ReadingConfigs
    <3>3. ConfigIsCurrent(k)
      BY <2>1, <2>2, <3>1, <3>2, ConfigSeenIsCurrent
    <3>4. QED
      BY <2>1, <3>3, ScanStepKeeps
  <2>4. ASSUME hasStatuses, NEW k \in Connector
        PROVE  PartitionOf[k] \in left' /\ gotState'[k] = NoStates[k]
    BY <2>1, <2>4, ConnectScanAssumption DEF ReadingConfigs
  <2>5. ~ hasStatuses => missedState' = Connector
    BY <2>1 DEF ReadingConfigs
  <2>6. ConfigsRead'
    BY <2>3 DEF ConfigsRead
  <2>7. ReadingStatuses'
    BY <2>1, <2>4 DEF ReadingStatuses
  <2>8. StatesAreCurrent'
    BY <2>1, <2>5 DEF StatesAreCurrent
  <2>9. QED
    BY <2>1, <2>6, <2>7, <2>8 DEF ScanInv, ReadingConfigs, AskingConnectors, NothingRemembered
<1>4. ASSUME NEW p \in Partition, StartPartition(p)
      PROVE  ScanInv'
  <2>1. /\ step = "partitions" /\ step' = "statuses" /\ p \in left /\ left' = left \ {p} /\ part' = p
        /\ UNCHANGED <<connect, begun, hasStatuses, gotConfig, gotState, missed, missedState, pos>>
    BY <1>4 DEF StartPartition, history
  <2>2. ReadingStatuses /\ pos' = 1 /\ hasStatuses'
    BY <2>1 DEF ScanInv, ReadingStatuses
  <2>3. pos' <= Len(statuses'[part']) + 1
    <3>1. Len(statuses'[part']) \in Nat
      BY <2>1 DEF ConnectTypeOK
    <3>2. QED
      BY <2>2, <3>1
  <2>4. ASSUME NEW k \in Connector, PartitionOf[k] = p
        PROVE  StateSeen(k, pos - 1)'
    <3>1. gotState'[k] = NoStates[k]
      BY <2>1, <2>2, <2>4 DEF ReadingStatuses
    <3>2. pos' - 1 = 0 /\ \A i : ~ (i \in 1..(pos' - 1))
      BY <2>2
    <3>3. QED
      BY <3>1, <3>2 DEF StateSeen
  <2>5. \A k \in Connector : (Ordered(k)' => Ordered(k)) /\ (StateIsCurrent(k) => StateIsCurrent(k)')
    BY <2>1, ScanStepKeeps
  <2>6. ReadingStatuses'
    BY <2>1, <2>2, <2>3, <2>4, <2>5 DEF ReadingStatuses
  <2>7. \A k \in Connector : ConfigIsCurrent(k) => ConfigIsCurrent(k)'
    BY <2>1, ScanStepKeeps
  <2>8. ConfigsRead'
    BY <2>1, <2>7 DEF ScanInv, ConfigsRead
  <2>9. QED
    BY <2>1, <2>6, <2>8 DEF ScanInv, ReadingConfigs, AskingConnectors, NothingRemembered,
                            StatesAreCurrent
<1>5. CASE ReadStatus
  <2>1. /\ step = "statuses" /\ ReadingStatuses /\ ConnectTypeOK
        /\ UNCHANGED <<connect, begun, step, hasStatuses, left, part, gotConfig, missed, missedState>>
        /\ pos' = pos + 1 /\ pos \in Nat /\ pos \in 1..Len(statuses[part]) /\ part \in Partition
    BY <1>5 DEF ReadStatus, history, ScanInv, ConnectTypeOK
  <2>2. PartitionOf[statuses[part][pos].connector] = part
    BY <2>1 DEF ConnectTypeOK
  <2>3. \A k \in Connector : PartitionOf[k] # part => gotState'[k] = gotState[k]
    BY <1>5, <2>2 DEF ReadStatus, ScanInv, ConnectTypeOK
  <2>4. \A k \in Connector : PartitionOf[k] = part =>
          (StateSeen(k, pos - 1) => StateSeen(k, pos - 1)')
    BY <1>5, <2>1, NextStatusIsSeen
  <2>5. \A k \in Connector : /\ Ordered(k)' => Ordered(k)
                             /\ PartitionOf[k] # part /\ StateIsCurrent(k) => StateIsCurrent(k)'
                             /\ ConfigIsCurrent(k) => ConfigIsCurrent(k)'
    BY <2>1, <2>3, ScanStepKeeps
  <2>6. pos' <= Len(statuses'[part']) + 1
    <3>1. Len(statuses[part]) \in Nat
      BY <2>1 DEF ConnectTypeOK
    <3>2. QED
      BY <2>1, <3>1 DEF connect
  <2>7. ReadingStatuses'
    BY <2>1, <2>3, <2>4, <2>5, <2>6 DEF ReadingStatuses
  <2>8. ConfigsRead'
    BY <2>1, <2>5 DEF ScanInv, ConfigsRead
  <2>9. QED
    BY <2>1, <2>7, <2>8 DEF ScanInv, ReadingConfigs, AskingConnectors, NothingRemembered,
                            StatesAreCurrent
<1>6. CASE EndOfPartition
  <2>1. /\ step = "statuses" /\ ReadingStatuses /\ ConnectTypeOK /\ part \in Partition
        /\ UNCHANGED <<connect, begun, hasStatuses, left, part, gotConfig, gotState, missed>>
        /\ pos' = 1 /\ step' = IF left = {} THEN "record" ELSE "partitions"
        /\ missedState' = IF pos <= begun.statuses[part]
                            THEN missedState \cup {k \in Connector : PartitionOf[k] = part}
                            ELSE missedState
    BY <1>6 DEF EndOfPartition, ScanInv, ConnectTypeOK
  <2>2. /\ pos \in Nat /\ pos - 1 \in Nat /\ pos <= Len(statuses[part]) + 1
        /\ Len(statuses[part]) \in Nat /\ begun.statuses[part] \in Nat
    BY <2>1 DEF ReadingStatuses, ConnectTypeOK
  <2>3. ASSUME NEW k \in Connector, PartitionOf[k] = part, k \notin missedState', Ordered(k)'
        PROVE  StateIsCurrent(k)'
    <3>1. begun.statuses[PartitionOf[k]] <= pos - 1 /\ pos - 1 <= Len(LogOf(k))
      BY <2>1, <2>2, <2>3 DEF LogOf
    <3>2. StateSeen(k, pos - 1) /\ Ordered(k)
      BY <2>1, <2>3, ScanStepKeeps DEF ReadingStatuses
    <3>3. StateIsCurrent(k)
      BY <2>1, <2>2, <3>1, <3>2, StateSeenIsCurrent
    <3>4. QED
      BY <2>1, <3>3, ScanStepKeeps
  <2>4. \A k \in Connector : /\ Ordered(k)' => Ordered(k)
                             /\ StateIsCurrent(k) => StateIsCurrent(k)'
                             /\ ConfigIsCurrent(k) => ConfigIsCurrent(k)'
    BY <2>1, ScanStepKeeps
  <2>5. ASSUME NEW k \in Connector, PartitionOf[k] \notin left
        PROVE  k \in missedState' \/ (Ordered(k)' => StateIsCurrent(k)')
    <3>1. CASE PartitionOf[k] = part
      BY <2>3, <3>1
    <3>2. CASE PartitionOf[k] # part
      BY <2>1, <2>4, <2>5, <3>2 DEF ReadingStatuses
    <3>3. QED
      BY <3>1, <3>2
  <2>6. ASSUME NEW k \in Connector, PartitionOf[k] \in left
        PROVE  gotState'[k] = NoStates[k]
    BY <2>1, <2>6 DEF ReadingStatuses
  <2>7. ReadingStatuses'
    BY <2>1, <2>5, <2>6 DEF ReadingStatuses
  <2>8. StatesAreCurrent'
    BY <2>1, <2>5 DEF StatesAreCurrent, StateIsCurrent, ReadingStatuses
  <2>9. ConfigsRead'
    BY <2>1, <2>4 DEF ScanInv, ConfigsRead
  <2>10. QED
    BY <2>1, <2>7, <2>8, <2>9 DEF ScanInv, ReadingConfigs, AskingConnectors, NothingRemembered
<1>7. CASE ConsumerFails /\ ~ End
  <2>1. /\ step = "partitions" /\ step' = "record" /\ missedState' = Connector
        /\ UNCHANGED <<connect, begun, gotConfig, missed>>
    BY <1>7 DEF ConsumerFails
  <2>2. \A k \in Connector : ConfigIsCurrent(k) => ConfigIsCurrent(k)'
    BY <2>1, ScanStepKeeps
  <2>3. ConfigsRead' /\ StatesAreCurrent'
    BY <2>1, <2>2 DEF ScanInv, ConfigsRead, StatesAreCurrent
  <2>4. QED
    BY <2>1, <2>3 DEF ScanInv, ReadingConfigs, ReadingStatuses, AskingConnectors, NothingRemembered
<1>8. QED
  BY <1>1, <1>2, <1>3, <1>4, <1>5, <1>6, <1>7

\* What a connector has now is among what it has had.
LEMMA CurrentIsHeld ==
  ASSUME ConnectTypeOK, NEW k \in Connector
  PROVE  /\ Current(configs, k) \in HeldConfigs(k)
         /\ Current(LogOf(k), k) \in HeldStates(k) /\ Current(LogOf(k), k) \in Nat
<1>1. PartitionOf[k] \in Partition
  BY ConnectScanAssumption
<1>2. /\ configs \in Seq(Content) /\ begun.configs \in Nat /\ Len(configs) \in begun.configs..Len(configs)
      /\ LogOf(k) \in Seq(Content) /\ begun.statuses[PartitionOf[k]] \in Nat
      /\ Len(LogOf(k)) \in begun.statuses[PartitionOf[k]]..Len(LogOf(k))
  BY <1>1 DEF ConnectTypeOK, LogOf
<1>3. QED
  BY <1>2, PrefixIsHeld, NewestIsValue DEF HeldConfigs, HeldStates, Current, LogOf

\* The scan of the REST interface preserves the invariant.
LEMMA InvAndRest ==
  ASSUME ScanInv, ConnectTypeOK',
         \/ ListConnectors
         \/ \E k \in Connector, ok \in BOOLEAN : GetConnectorConfig(k, ok) \/ GetConnectorStatus(k, ok)
  PROVE  ScanInv'
<1>1. CASE ListConnectors
  <2>1. /\ step = "idle" /\ step' = "rest" /\ left' = Live /\ pos' = 1 /\ ~ hasStatuses'
        /\ gotConfig' = Nothing /\ UNCHANGED connect
    BY <1>1 DEF ListConnectors, ScanInv, NothingRemembered
  <2>2. ASSUME NEW k \in Connector, k \notin Live
        PROVE  ConfigIsCurrent(k)'
    <3>1. Newest(configs', begun'.configs, k) = 0
      BY <1>1, <2>1, <2>2 DEF ListConnectors, Begin, Live, Current, connect
    <3>2. QED
      BY <2>1, <3>1 DEF ConfigIsCurrent, Listed, Nothing, HeldConfigs, Held
  <2>3. \A k \in Connector : ~ Listed(k)' /\ gotConfig'[k] = NoValue
    BY <2>1 DEF Listed, Nothing
  <2>4. Live \subseteq Connector
    BY DEF Live
  <2>5. AskingConnectors'
    BY <2>1, <2>2, <2>3, <2>4 DEF AskingConnectors
  <2>6. QED
    BY <2>1, <2>5 DEF ScanInv, ReadingConfigs, ConfigsRead, ReadingStatuses, NothingRemembered,
                      StatesAreCurrent
<1>2. ASSUME NEW k \in Connector, NEW ok \in BOOLEAN, GetConnectorConfig(k, ok)
      PROVE  ScanInv'
  <2>1. /\ step = "rest" /\ k \in left /\ ConnectTypeOK /\ AskingConnectors /\ left \subseteq Connector
        /\ UNCHANGED <<connect, begun, hasStatuses, pos, gotState, missedState>>
        /\ gotConfig[k] = NoValue
    BY <1>2 DEF GetConnectorConfig, ScanInv, AskingConnectors, ConnectTypeOK
  <2>2. \A j \in left : gotConfig[j] = NoValue
    BY <2>1 DEF AskingConnectors
  <2>3. Current(configs, k) \in HeldConfigs(k)
    BY <2>1, CurrentIsHeld
  <2>4. \A j \in Connector : StateIsCurrent(j)' <=> StateIsCurrent(j)
    BY <2>1, ScanStepKeeps
  <2>5. CASE ok /\ k \in Live
    <3>1. /\ gotConfig' = [gotConfig EXCEPT ![k] = Current(configs, k)] /\ step' = "rest_status"
          /\ UNCHANGED <<left, missed>>
      BY <1>2, <2>5 DEF GetConnectorConfig
    <3>2. gotConfig'[k] = Current(configs, k) /\ \A j \in Connector \ {k} : gotConfig'[j] = gotConfig[j]
      BY <3>1 DEF ScanInv, ConnectTypeOK
    <3>3. ConfigIsCurrent(k)'
      <4>1. Current(configs, k) # 0 /\ HeldConfigs(k)' = HeldConfigs(k)
        BY <2>1, <2>5, ScanStepKeeps DEF Live
      <4>2. Current(configs, k) # NoValue
        BY <2>1, NewestIsValue DEF ConnectTypeOK, Current, NoValue
      <4>3. QED
        BY <2>3, <3>2, <4>1, <4>2 DEF ConfigIsCurrent, Listed
    <3>4. \A j \in Connector \ {k} : /\ ConfigIsCurrent(j)' <=> ConfigIsCurrent(j)
                                     /\ Listed(j)' <=> Listed(j)
      BY <2>1, <3>2, ScanStepKeeps
    <3>5. \A j \in Connector \ (missed' \cup left') : ConfigIsCurrent(j)'
      BY <2>1, <3>1, <3>4 DEF AskingConnectors
    <3>6. \A j \in Connector \ (missedState' \cup left') : Listed(j)' => StateIsCurrent(j)'
      BY <2>1, <2>4, <3>1, <3>4 DEF AskingConnectors
    <3>7. \A j \in left' : gotConfig'[j] # NoValue => j = k
      BY <2>1, <2>2, <3>1, <3>2
    <3>8. AskingConnectors'
      BY <2>1, <3>1, <3>3, <3>5, <3>6, <3>7 DEF AskingConnectors
    <3>9. QED
      BY <3>1, <3>8 DEF ScanInv, ReadingConfigs, ConfigsRead, ReadingStatuses, NothingRemembered,
                        StatesAreCurrent
  <2>6. CASE ~ (ok /\ k \in Live)
    <3>1. /\ left' = left \ {k} /\ UNCHANGED gotConfig
          /\ missed' = IF ok THEN missed ELSE missed \cup {k}
          /\ step' = IF left = {k} THEN "record" ELSE "rest"
      BY <1>2, <2>6 DEF GetConnectorConfig
    <3>2. \A j \in Connector : /\ ConfigIsCurrent(j)' <=> ConfigIsCurrent(j)
                               /\ Listed(j)' <=> Listed(j)
      BY <2>1, <3>1, ScanStepKeeps
    <3>3. ok => ConfigIsCurrent(k)
      BY <2>1, <2>3, <2>6 DEF ConfigIsCurrent, Listed, Live
    <3>4. \A j \in Connector \ (missed' \cup left') : ConfigIsCurrent(j)'
      BY <2>1, <3>1, <3>2, <3>3 DEF AskingConnectors
    <3>5. ~ Listed(k)
      BY <2>1 DEF Listed
    <3>6. \A j \in Connector \ (missedState' \cup left') : Listed(j)' => StateIsCurrent(j)'
      BY <2>1, <2>4, <3>1, <3>2, <3>5 DEF AskingConnectors
    <3>7. CASE left = {k}
      <4>1. step' = "record" /\ left' = {}
        BY <3>1, <3>7
      <4>2. ConfigsRead' /\ StatesAreCurrent'
        BY <3>4, <3>6, <4>1 DEF ConfigsRead, StatesAreCurrent, StateIsCurrent
      <4>3. QED
        BY <4>1, <4>2 DEF ScanInv, ReadingConfigs, ReadingStatuses, AskingConnectors, NothingRemembered
    <3>8. CASE left # {k}
      <4>1. step' = "rest" /\ \A j \in left' : gotConfig'[j] = NoValue
        BY <2>2, <3>1, <3>8
      <4>2. AskingConnectors'
        BY <2>1, <3>4, <3>6, <4>1 DEF AskingConnectors
      <4>3. QED
        BY <4>1, <4>2 DEF ScanInv, ReadingConfigs, ConfigsRead, ReadingStatuses, NothingRemembered,
                          StatesAreCurrent
    <3>9. QED
      BY <3>7, <3>8
  <2>7. QED
    BY <2>5, <2>6
<1>3. ASSUME NEW k \in Connector, NEW ok \in BOOLEAN, GetConnectorStatus(k, ok)
      PROVE  ScanInv'
  <2>1. /\ step = "rest_status" /\ k \in left /\ ConnectTypeOK /\ AskingConnectors /\ left \subseteq Connector
        /\ UNCHANGED <<connect, begun, hasStatuses, pos, gotConfig, missed>>
        /\ gotConfig[k] # NoValue /\ left' = left \ {k}
        /\ step' = IF left = {k} THEN "record" ELSE "rest"
        /\ missedState' = IF ok THEN missedState ELSE missedState \cup {k}
        /\ gotState' = IF ok THEN [gotState EXCEPT ![k].value = Current(LogOf(k), k)] ELSE gotState
    BY <1>3 DEF GetConnectorStatus, ScanInv, ConnectTypeOK, LogOf
  <2>2. /\ \A j \in left' : gotConfig'[j] = NoValue
        /\ ConfigIsCurrent(k)
    BY <2>1 DEF AskingConnectors
  <2>3. \A j \in Connector : /\ ConfigIsCurrent(j)' <=> ConfigIsCurrent(j)
                             /\ Listed(j)' <=> Listed(j) /\ HeldStates(j)' = HeldStates(j)
    BY <2>1, ScanStepKeeps
  <2>4. \A j \in Connector \ {k} : gotState'[j] = gotState[j]
    BY <2>1 DEF ConnectTypeOK
  <2>5. \A j \in Connector \ {k} : StateIsCurrent(j)' <=> StateIsCurrent(j)
    BY <2>1, <2>4, ScanStepKeeps
  <2>6. ASSUME ok
        PROVE  StateIsCurrent(k)'
    <3>1. Current(LogOf(k), k) \in HeldStates(k) /\ Current(LogOf(k), k) \in Nat
      BY <2>1, CurrentIsHeld
    <3>2. gotState'[k].value = Current(LogOf(k), k)
      BY <2>1, <2>6 DEF ConnectTypeOK
    <3>3. State(k)' = Current(LogOf(k), k)
      BY <3>1, <3>2 DEF State, NoValue
    <3>4. HeldStates(k)' = HeldStates(k)
      BY <2>1, ScanStepKeeps
    <3>5. QED
      BY <3>1, <3>3, <3>4, Zenon DEF StateIsCurrent
  <2>7. \A j \in Connector \ (missed' \cup left') : ConfigIsCurrent(j)'
    BY <2>1, <2>2, <2>3 DEF AskingConnectors
  <2>8. \A j \in Connector \ (missedState' \cup left') : Listed(j)' => StateIsCurrent(j)'
    BY <2>1, <2>3, <2>5, <2>6 DEF AskingConnectors
  <2>9. CASE left = {k}
    <3>1. step' = "record" /\ left' = {}
      BY <2>1, <2>9
    <3>2. ConfigsRead' /\ StatesAreCurrent'
      BY <2>7, <2>8, <3>1 DEF ConfigsRead, StatesAreCurrent, StateIsCurrent
    <3>3. QED
      BY <3>1, <3>2 DEF ScanInv, ReadingConfigs, ReadingStatuses, AskingConnectors, NothingRemembered
  <2>10. CASE left # {k}
    <3>1. step' = "rest"
      BY <2>1, <2>10
    <3>2. AskingConnectors'
      BY <2>1, <2>2, <2>7, <2>8, <3>1 DEF AskingConnectors
    <3>3. QED
      BY <3>1, <3>2 DEF ScanInv, ReadingConfigs, ConfigsRead, ReadingStatuses, NothingRemembered,
                        StatesAreCurrent
  <2>11. QED
    BY <2>9, <2>10
<1>4. QED
  BY <1>1, <1>2, <1>3

\* So does every step.
LEMMA InvStays == ScanInv /\ [ConnectNext]_connectVars => ScanInv'
<1> SUFFICES ASSUME ScanInv, [ConnectNext]_connectVars PROVE ScanInv'
  OBVIOUS
<1>1. ConnectTypeOK'
  BY TypesStay DEF ScanInv
<1>2. CASE UNCHANGED connectVars
  BY <1>1, <1>2 DEF ScanInv, connectVars, connect, history, ReadingConfigs, ConfigsRead, ReadingStatuses,
     AskingConnectors, NothingRemembered, StatesAreCurrent, ConfigSeen, ConfigIsCurrent, HeldConfigs,
     StateSeen, LogOf, Ordered, StateIsCurrent, HeldStates, Listed, State
<1>3. CASE End
  <2>1. step' = "idle" /\ NothingRemembered'
    BY <1>3 DEF End, NothingRemembered
  <2>2. QED
    BY <1>1, <2>1 DEF ScanInv, ReadingConfigs, ConfigsRead, ReadingStatuses, AskingConnectors,
                      StatesAreCurrent
<1>4. CASE Connect
  BY <1>4, InvAndConnect
<1>5. QED
  BY <1>1, <1>2, <1>3, <1>4, InvAndTopics, InvAndRest DEF ConnectNext, Scan, Record

LEMMA ScanInvariant == ConnectSpec => []ScanInv
BY InvAtFirst, InvStays, PTL DEF ConnectSpec

-----------------------------------------------------------------------------
(* The theorems.                                                           *)

\* Types: in particular the messages of a partition are those of its own
\* connectors, and nothing that was there at a scan's start goes away.
THEOREM ConnectTypesCorrect == ConnectSpec => []ConnectTypeOK
<1>1. ScanInv => ConnectTypeOK
  BY DEF ScanInv
<1>2. QED
  BY <1>1, ScanInvariant, PTL

\* However Connect goes on writing, and wherever a reading stops: a scan that
\* reads connect-configs to its old end, or asks the REST interface for one
\* connector after the other, records of each a configuration it had in the
\* meantime, and leaves out only what did not exist at some moment of it
\* (GetAllMessagesWithKeyFilter, getConnectorDetails).
THEOREM RecordedConnectorsAreCurrent == ConnectSpec => []ConnectorsAreCurrent
<1>1. ScanInv => ConnectorsAreCurrent
  BY DEF ScanInv, ConfigsRead, ConnectorsAreCurrent, ConfigIsCurrent
<1>2. QED
  BY <1>1, ScanInvariant, PTL

\* And with it a state the connector had in the meantime, as long as the time
\* stamps of its statuses increase (GetConnectorStatusMessages).
THEOREM RecordedStatesAreCurrent == ConnectSpec => []StatesAreCurrent
<1>1. ScanInv => StatesAreCurrent
  BY DEF ScanInv
<1>2. QED
  BY <1>1, ScanInvariant, PTL
=============================================================================
