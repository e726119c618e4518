------------------------------ MODULE Benchmark ------------------------------
(***************************************************************************)
(* One iteration of concurrent_queue_benchmarks.cpp: producers and         *)
(* consumers that start together at a Barrier, any queue that keeps its    *)
(* promise (BoundedFifo), stop flags that end the consumers, and the two   *)
(* time stamps and the sums the iteration reports.  Init picks the kind of *)
(* iteration.                                                              *)
(*                                                                         *)
(* The loads in the Barrier are relaxed.  A thread's own increment comes   *)
(* first, so an old value it reads is not 0, and main can only read too    *)
(* small a count: old values only delay.                                   *)
(***************************************************************************)
EXTENDS Integers, Sequences, FiniteSets, FiniteSetsExt

CONSTANTS Producers, Consumers,  \* as many of each: thread_count
          NumItems,              \* items per producer
          Capacity,              \* of the queue
          Kinds                  \* the iterations to check

ASSUME KindsAssumption == Kinds \subseteq {"balanced", "single_producer", "single_consumer"}
ASSUME ThreadsAssumption == /\ Cardinality(Producers) = Cardinality(Consumers)
                            /\ Producers \cap Consumers = {} /\ Producers # {}
ASSUME ItemsAssumption == NumItems \in Nat /\ Capacity \in Nat \ {0}

StopFlag == NumItems + 1

VARIABLES
  kind, producers, consumers,  \* the iteration and its threads
  count_, main,                \* the Barrier; where main() is
  queue, taken,                \* the queue
  pc, now,                     \* per thread: position, time read
  n,                           \* producers: pushes done
  flags,                       \* consumers: stop flags still to come
  local_sum, sum,              \* consumers: what they add up, and report
  clock,                       \* the time, 0 stands for `not started'
  start, end, active_consumers

threads == producers \cup consumers
barrierVars == <<count_, main>>
queueVars   == <<queue, taken>>
timeVars    == <<now, clock, start, end, active_consumers>>
sumVars     == <<flags, local_sum, sum>>
vars == <<kind, producers, consumers, barrierVars, queueVars, pc, n, sumVars, timeVars>>

One(S) == CHOOSE x \in S : TRUE

Init ==
  /\ kind \in Kinds
  /\ producers = IF kind = "single_producer" THEN {One(Producers)} ELSE Producers
  /\ consumers = IF kind = "single_consumer" THEN {One(Consumers)} ELSE Consumers
  /\ count_ = 0 /\ main = "release"
  /\ queue = << >> /\ taken = << >>
  /\ pc = [t \in threads |-> "created"]
  /\ now = [t \in threads |-> 0]
  /\ n = [p \in producers |-> 0]
  /\ flags = [c \in consumers |-> IF kind = "single_consumer" THEN Cardinality(producers) ELSE 1]
  /\ local_sum = [c \in consumers |-> 0] /\ sum = [c \in consumers |-> 0]
  /\ clock = 1 /\ start = 0 /\ end = 0
  /\ active_consumers = Cardinality(consumers)

Queue == INSTANCE BoundedFifo WITH Values <- 1 .. StopFlag

Goto(t, where) == pc' = [pc EXCEPT ![t] = where]

-----------------------------------------------------------------------------
(* Barrier::wait and Barrier::release.                                     *)

Arrive(t) ==
  /\ pc[t] = "created"
  /\ count_' = count_ + 1
  /\ Goto(t, "spin")
  /\ UNCHANGED <<kind, producers, consumers, main, queueVars, n, sumVars, timeVars>>

Leave(t) ==
  /\ pc[t] = "spin" /\ count_ = 0
  /\ Goto(t, IF t \in producers THEN "now" ELSE "run")
  /\ UNCHANGED <<kind, producers, consumers, barrierVars, queueVars, n, sumVars, timeVars>>

(* Mutant: main releases the consumers' count only.                        *)
SeeConsumers ==
  /\ main = "release" /\ count_ >= Cardinality(consumers)
  /\ main' = "zero"
  /\ UNCHANGED <<kind, producers, consumers, count_, queueVars, pc, n, sumVars, timeVars>>

SeeAll ==
  /\ main = "release" /\ count_ = Cardinality(threads)
  /\ main' = "zero"
  /\ UNCHANGED <<kind, producers, consumers, count_, queueVars, pc, n, sumVars, timeVars>>

StoreZero ==
  /\ main = "zero"
  /\ count_' = 0
  /\ main' = "join"
  /\ UNCHANGED <<kind, producers, consumers, queueVars, pc, n, sumVars, timeVars>>

-----------------------------------------------------------------------------
(* producer, single_producer                                               *)

(* high_resolution_clock::now(): two readings may be equal.                *)
ReadClock(t) ==
  /\ pc[t] = "now"
  /\ clock' \in {clock, clock + 1}
  /\ now' = [now EXCEPT ![t] = clock']
  /\ Goto(t, IF t \in producers THEN "start" ELSE "end")
  /\ UNCHANGED <<kind, producers, consumers, barrierVars, queueVars, n, sumVars,
                 start, end, active_consumers>>

(* Mutant: the last producer to get here sets the start.                   *)
StoreStart(p) ==
  /\ pc[p] = "start"
  /\ start' = now[p]
  /\ Goto(p, "run")
  /\ UNCHANGED <<kind, producers, consumers, barrierVars, queueVars, n, sumVars,
                 now, clock, end, active_consumers>>

(* start.compare_exchange_strong(0, now)                                   *)
CasStart(p) ==
  /\ pc[p] = "start"
  /\ start' = IF start = 0 THEN now[p] ELSE start
  /\ Goto(p, "run")
  /\ UNCHANGED <<kind, producers, consumers, barrierVars, queueVars, n, sumVars,
                 now, clock, end, active_consumers>>

(* Mutant: one stop flag, whatever the number of consumers.                *)
PushesOneFlag(p) == NumItems + 1

(* Items 1 .. NumItems, then a stop flag; single_producer sends one stop   *)
(* flag for each consumer.                                                 *)
Pushes(p) == NumItems + (IF kind = "single_producer" THEN Cardinality(consumers) ELSE 1)

Push(p) ==
  /\ pc[p] = "run"
  /\ Queue!Push(IF n[p] < NumItems THEN n[p] + 1 ELSE StopFlag)
  /\ n' = [n EXCEPT ![p] = @ + 1]
  /\ Goto(p, IF n'[p] = Pushes(p) THEN "done" ELSE "run")
  /\ UNCHANGED <<kind, producers, consumers, barrierVars, sumVars, timeVars>>

-----------------------------------------------------------------------------
(* consumer, single_consumer                                               *)

(* Mutant: the consumers are told a stop flag that is one too small.       *)
LastFlagTooSmall(c, v) == v >= NumItems /\ flags[c] = 1

(* item == stop_flag, in single_consumer && 0 == --producer_count          *)
LastFlag(c, v) == v = StopFlag /\ flags[c] = 1

(* single_consumer adds the stop flags but the last one to its sum.        *)
Pop(c) ==
  /\ pc[c] = "run"
  /\ Queue!Pop
  /\ LET v == Head(queue) IN
       /\ flags' = [flags EXCEPT ![c] = IF v = StopFlag THEN @ - 1 ELSE @]
       /\ local_sum' = [local_sum EXCEPT ![c] = IF LastFlag(c, v) THEN @ ELSE @ + v]
       /\ Goto(c, IF LastFlag(c, v) THEN "now" ELSE "run")
  /\ UNCHANGED <<kind, producers, consumers, barrierVars, n, sum, timeVars>>

(* The last consumer sets the end; each reports its sum.                   *)
Finish(c) ==
  /\ pc[c] = "end"
  /\ active_consumers' = active_consumers - 1
  /\ end' = IF active_consumers = 1 THEN now[c] ELSE end
  /\ sum' = [sum EXCEPT ![c] = local_sum[c]]
  /\ Goto(c, "done")
  /\ UNCHANGED <<kind, producers, consumers, barrierVars, queueVars, n, flags, local_sum,
                 now, clock, start>>

-----------------------------------------------------------------------------
Thread(t) == \/ Arrive(t) \/ Leave(t) \/ ReadClock(t)
             \/ t \in producers /\ (CasStart(t) \/ Push(t))
             \/ t \in consumers /\ (Pop(t) \/ Finish(t))

Main == SeeAll \/ StoreZero

Done == \A t \in threads : pc[t] = "done"

Joined == Done /\ UNCHANGED vars

Next == Main \/ (\E t \in threads : Thread(t)) \/ Joined

(* Every thread runs.  A push or pop is delayed by the other threads' ones *)
(* for ever only if these go on for ever, but their number is bounded.     *)
Fairness == WF_vars(Main) /\ \A t \in Producers \cup Consumers : WF_vars(t \in threads /\ Thread(t))

Spec == Init /\ [][Next]_vars
FairSpec == Spec /\ Fairness
-----------------------------------------------------------------------------
(* Nobody passes the barrier before everybody, and main, has come to it.   *)
StartTogether == (\E t \in threads : pc[t] \notin {"created", "spin"}) =>
                    main = "join" /\ \A t \in threads : pc[t] # "created"

(* The duration reported is not negative, though `start' is the time of    *)
(* the first producer that gets to store it and `end' that of the consumer *)
(* that happens to leave last: neither need be the first or the last time. *)
DurationSane == Done => start # 0 /\ start <= end

(* The check of the balanced iteration, total_sum = expected_sum, and in   *)
(* all three the queue is empty when the threads are joined: no stop flag  *)
(* is left over and none was taken while items were behind it.             *)
TotalSum == Done =>
  /\ kind = "balanced" => MapThenSumSet(LAMBDA c : sum[c], consumers) =
                            Cardinality(producers) * ((NumItems * (1 + NumItems)) \div 2)
  /\ queue = << >>

(* Every iteration ends.                                                   *)
AllJoined == <>Done
=============================================================================
