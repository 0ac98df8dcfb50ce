---------------------------- MODULE WorkerProofs ----------------------------
(***************************************************************************)
(* Proofs about the SimConnect worker.  TaxiButtons, for any number of     *)
(* requests, of calls outstanding and any of the times, where nobody else  *)
(* presses the buttons and a kept connection keeps its session: what the   *)
(* button events never do.  AircraftSession, for any aircraft, polls,      *)
(* packets and disturbances, where lifecycle events are not lost: what is  *)
(* believed of a flight.                                                   *)
(***************************************************************************)
EXTENDS MCWorker, FiniteSetTheorems, TLAPS

Calls   == [kind : {"sample", "poll", "command"}, side : Sides \cup {0}, on : SUBSET Sides, id : Nat]
Replies == [kind : {"sample", "poll", "exception"}, side : Sides \cup {0}, on : SUBSET Sides, id : Nat]
Samples == [on : SUBSET Sides, age : Ages]
Terms   == [serial : Nat, current : BOOLEAN, selected : SUBSET Sides, desired : SUBSET Sides]
Flights == [active : BOOLEAN, desired : BOOLEAN, sample : Ages, sent : Ages, serial : Nat]
Orders  == [permission : BOOLEAN, permitted : Ages, started : Ages, latest : Terms, pending : SUBSET Sides,
            flights : [Sides -> Flights]]
Decisions == [send : SUBSET Sides, desired : SUBSET Sides, cutoff : SUBSET Sides, serial : Nat, sample : Ages]
Workers == [at : {"wait", "drain", "decide", "check", "transmit", "accepted", "refused"}, speed : Speeds,
            seen : Samples, now : 0..Stall, decision : Decisions, left : SUBSET Sides]
Cutoffs == [over : BOOLEAN, pending : SUBSET Sides, waiting : SUBSET Sides,
            sample : [Sides -> Ages], attempt : [Sides -> Ages]]

Types ==
  /\ control \in Controls /\ latch \in SUBSET Sides /\ pipe \in Seq(Calls) /\ inbox \in Seq(Replies)
  /\ packets \in [Sides -> Nat] /\ cache \in Samples /\ identity \in [known : BOOLEAN, poll : Nat]
  /\ cutoff \in Cutoffs /\ command \in Orders /\ worker \in Workers
  /\ sends \in [Sides -> [serial : Nat, count : {0, 1}]]

(* The calls outstanding leave a number free.                              *)
NumbersLeft == Queued <= MaxQueued + 2

Sending == worker.at \in {"check", "transmit", "accepted", "refused"}

(* An event of side s is on its way, or not yet known to be done: what it  *)
(* is meant to reach, and the age of the sample it was decided on.         *)
Unrecorded(s) == worker.at = "accepted" /\ Side = s
UnderWay(s)   == Unrecorded(s) \/ command.flights[s].active
Goal(s)  == IF Unrecorded(s) THEN s \in worker.decision.desired ELSE command.flights[s].desired
Since(s) == IF Unrecorded(s) THEN worker.decision.sample ELSE command.flights[s].sample

Commands(s) == {i \in DOMAIN pipe : pipe[i].kind = "command" /\ pipe[i].side = s}
Seen     == {i \in DOMAIN inbox : inbox[i].kind = "sample"}
On(i, s) == s \in inbox[i].on

(* Commands are of a side, and none where there is no latch; the number of *)
(* a sample request is not kept.                                           *)
CallsFit ==
  /\ \A i \in DOMAIN pipe : pipe[i].kind = "sample" => pipe[i].id = 0
  /\ \A i \in DOMAIN pipe : pipe[i].kind = "command" =>
       aircraft_buttons /\ pipe[i].side \in Sides /\ pipe[i].on \subseteq {pipe[i].side}
  /\ Sending => aircraft_buttons

(* With no event under way, every sample that may count shows the button   *)
(* as it is.                                                               *)
Quiet(s) ==
  /\ Commands(s) = {}
  /\ \A i \in Seen : On(i, s) <=> s \in latch
  /\ cache.age < Never => (s \in cache.on <=> s \in latch)

(* With one, of the samples since the decision the older show the button   *)
(* as it was, the newer as it is to be.                                    *)
Turning(s) ==
  /\ \A i, j \in Commands(s) : i = j
  /\ \A i \in Commands(s) : (pipe[i].on # {} <=> Goal(s)) /\ ~(s \in latch <=> Goal(s))
  /\ ~(s \in latch <=> Goal(s)) => \A i \in Seen : ~(On(i, s) <=> Goal(s))
  /\ \A i, j \in Seen : i < j /\ (On(i, s) <=> Goal(s)) => (On(j, s) <=> Goal(s))
  /\ cache.age < Since(s) /\ (s \in cache.on <=> Goal(s)) =>
       (s \in latch <=> Goal(s)) /\ \A i \in Seen : On(i, s) <=> Goal(s)

SideFits(s) == IF UnderWay(s) THEN Turning(s) ELSE Quiet(s)
EventsFit   == \A s \in Sides : SideFits(s)

(* A number stands for one event; refused, it changed nothing.             *)
RefusalFits(s) ==
  /\ \A t \in Sides : \A i \in Commands(t) : packets[s] # 0 /\ pipe[i].id = packets[s] => s = t
  /\ \A i \in DOMAIN inbox :
       inbox[i].kind = "exception" /\ packets[s] # 0 /\ inbox[i].id = packets[s] /\ UnderWay(s) =>
         Commands(s) = {} /\ ~(s \in latch <=> Goal(s))

RefusalsFit == \A s \in Sides : RefusalFits(s)

(* The worker's decision is of the sample in the cache, and still right.   *)
WorkerFits ==
  /\ worker.at = "decide" => worker.seen = cache
  /\ Sending =>
       /\ worker.left # {} /\ worker.decision.sample = cache.age
       /\ \A s \in worker.left : /\ ~command.flights[s].active
                                 /\ Unrecorded(s) \/ ~(s \in latch <=> s \in worker.decision.desired)

(* An event for the request under way is meant for what it asks for, and   *)
(* once sent and done, the button is there.                                *)
RequestsFit ==
  /\ \A s \in Sides : sends[s].serial <= command.latest.serial
  /\ Sending =>
       /\ worker.decision.serial <= command.latest.serial
       /\ \A s \in Sides : sends[s].serial <= worker.decision.serial
       /\ \A s \in worker.left \cap command.pending :
            worker.decision.serial = command.latest.serial =>
              (s \in worker.decision.desired <=> s \in command.latest.desired)
  /\ worker.at = "transmit" /\ Side \notin worker.decision.cutoff => sends[Side].serial # worker.decision.serial
  /\ \A s \in command.pending : sends[s].serial = command.latest.serial =>
       IF UnderWay(s)
         THEN /\ Goal(s) <=> s \in command.latest.desired
              /\ ~Unrecorded(s) => command.flights[s].serial = command.latest.serial
         ELSE s \in latch <=> s \in command.latest.desired

(* An ON decided on yields to the cutoff until it is recorded.             *)
Yielding ==
  Sending /\ worker.decision.desired \cap worker.left # {} => ~cutoff.over /\ cutoff.pending = {}

IInv ==
  /\ Types /\ NumbersLeft /\ CallsFit /\ EventsFit /\ RefusalsFit /\ WorkerFits /\ RequestsFit
  /\ Yielding
-----------------------------------------------------------------------------
(* The side the worker turns to is one of those left.                      *)
LEMMA SideLeft == ASSUME Types, worker.left # {} PROVE Side \in worker.left /\ Side \in Sides
<1>1. worker.left \in SUBSET Sides /\ Sides \subseteq {0, 1}
  BY TaxiAssumption DEF Types, Workers
<1>2. PICK s \in worker.left : \A t \in worker.left : s <= t
  <2>1. CASE 0 \in worker.left
    <3>1. \A t \in worker.left : t = 0 \/ t = 1
      BY <1>1
    <3>2. \A t \in worker.left : 0 <= t
      BY <3>1
    <3> QED BY <2>1, <3>2
  <2>2. CASE 0 \notin worker.left
    <3>1. worker.left = {1}
      BY <1>1, <2>2
    <3> QED BY <3>1
  <2> QED BY <2>1, <2>2
<1>3. Side \in worker.left
  BY <1>2 DEF Side
<1> QED BY <1>1, <1>3

(* It stays the same as long as those do.                                  *)
LEMMA SideSame == worker'.left = worker.left => Side' = Side
BY Zenon DEF Side

(* Numbers are left for one more call.                                     *)
LEMMA FreshNumber == ASSUME Types, NumbersLeft PROVE FreshId \in Nat \ {0} /\ FreshId \notin Used
<1> DEFINE P == Len(pipe)
           I == Len(inbox)
           N == P + I + 3
           all[k \in 1..N] ==
             IF k <= P THEN pipe[k].id ELSE IF k <= P + I THEN inbox[k - P].id
             ELSE IF k = P + I + 1 THEN identity.poll ELSE IF k = P + I + 2 THEN packets[0] ELSE packets[1]
           numbers == [k \in 1..N |-> IF all[k] \in Ids THEN all[k] ELSE 1]
<1>1. P \in Nat /\ I \in Nat /\ DOMAIN pipe = 1..P /\ DOMAIN inbox = 1..I /\ N < MaxQueued + 6 /\ MaxQueued \in Nat
  <2>1. pipe \in Seq(Calls) /\ inbox \in Seq(Replies)
    BY DEF Types
  <2>2. MaxQueued \in Nat
    BY TaxiAssumption
  <2>3. Len(pipe) + Len(inbox) <= MaxQueued + 2
    BY DEF NumbersLeft, Queued
  <2> QED BY <2>1, <2>2, <2>3
<1>2. IsFiniteSet(Ids) /\ Cardinality(Ids) = MaxQueued + 6
  BY <1>1, FS_Interval DEF Ids
<1>3. IsFiniteSet(1..N) /\ Cardinality(1..N) = N
  BY <1>1, FS_Interval
<1>4. ASSUME Ids \subseteq Used PROVE FALSE
  <2>1. \A i \in Used : \E k \in 1..N : all[k] = i
    <3> SUFFICES ASSUME NEW i \in Used PROVE \E k \in 1..N : all[k] = i
      OBVIOUS
    <3>1. CASE \E q \in ToSet(pipe) : i = q.id
      <4>1. PICK k \in 1..P : i = pipe[k].id
        BY <3>1, <1>1 DEF ToSet
      <4>2. k \in 1..N /\ k <= P
        BY <1>1
      <4>3. all[k] = i
        BY <4>1, <4>2
      <4> QED BY <4>2, <4>3
    <3>2. CASE \E q \in ToSet(inbox) : i = q.id
      <4>1. PICK k \in 1..I : i = inbox[k].id
        BY <3>2, <1>1 DEF ToSet
      <4>2. k + P \in 1..N /\ ~(k + P <= P) /\ k + P <= P + I /\ (k + P) - P = k
        BY <1>1
      <4>3. all[k + P] = i
        BY <4>1, <4>2
      <4> QED BY <4>2, <4>3
    <3>3. CASE i = identity.poll
      <4>2. P + I + 1 \in 1..N /\ ~(P + I + 1 <= P) /\ ~(P + I + 1 <= P + I)
        BY <1>1
      <4>3. all[P + I + 1] = i
        BY <3>3, <4>2
      <4> QED BY <4>2, <4>3
    <3>4. CASE \E s \in Sides : i = packets[s]
      <4>1. i = packets[0] \/ i = packets[1]
        BY <3>4, TaxiAssumption
      <4>2. /\ P + I + 2 \in 1..N /\ ~(P + I + 2 <= P) /\ ~(P + I + 2 <= P + I) /\ P + I + 2 # P + I + 1
            /\ P + I + 3 \in 1..N /\ ~(P + I + 3 <= P) /\ ~(P + I + 3 <= P + I)
            /\ P + I + 3 # P + I + 1 /\ P + I + 3 # P + I + 2
        BY <1>1
      <4>3. all[P + I + 2] = packets[0] /\ all[P + I + 3] = packets[1]
        BY <4>2
      <4> QED BY <4>1, <4>2, <4>3
    <3> QED BY <3>1, <3>2, <3>3, <3>4 DEF Used
  <2>2. 1 \in Ids
    BY <1>1 DEF Ids
  <2> HIDE DEF all
  <2>3. numbers \in [1..N -> Ids]
    BY <2>2
  <2>4. \A i \in Ids : \E k \in 1..N : numbers[k] = i
    <3> SUFFICES ASSUME NEW i \in Ids PROVE \E k \in 1..N : numbers[k] = i
      OBVIOUS
    <3>1. PICK k \in 1..N : all[k] = i
      BY <1>4, <2>1
    <3> QED BY <3>1
  <2> HIDE DEF numbers, N
  <2>5. numbers \in Surjection(1..N, Ids)
    BY <2>3, <2>4 DEF Surjection
  <2>6. Cardinality(Ids) <= Cardinality(1..N)
    BY <2>5, <1>3, FS_Surjection
  <2> QED BY <2>6, <1>1, <1>2, <1>3 DEF N
<1>5. FreshId \in Ids /\ FreshId \notin Used
  BY <1>4 DEF FreshId
<1> QED BY <1>5, <1>1 DEF Ids
-----------------------------------------------------------------------------
(* How a step moves the calls and replies, k or m places forward, and what *)
(* it may do to a side without disturbing what is known of its button.     *)
CallsMove(k) ==
  \A s \in Sides : \A i \in Commands(s)' : i + k \in Commands(s) /\ pipe'[i] = pipe[i + k]
SamplesMove(m) == \A i \in Seen' : i + m \in Seen /\ inbox'[i] = inbox[i + m]
RefusedMove(m) ==
  \A i \in DOMAIN inbox' : inbox'[i].kind = "exception" => i + m \in DOMAIN inbox /\ inbox'[i] = inbox[i + m]
CacheMoves(s) == cache'.age < Never => cache.age < Never /\ (s \in cache'.on <=> s \in cache.on)
AimStays(s) ==
  /\ UnderWay(s)' <=> UnderWay(s)
  /\ UnderWay(s) => /\ Goal(s)' <=> Goal(s)
                    /\ cache'.age < Since(s)' => cache.age < Since(s) /\ (s \in cache'.on <=> s \in cache.on)
LatchStays(s) == s \in latch' <=> s \in latch

(* The queues as sequences.                                                *)
LEMMA QueueTypes ==
  ASSUME Types
  PROVE  /\ Len(pipe) \in Nat /\ DOMAIN pipe = 1..Len(pipe) /\ \A i \in DOMAIN pipe : pipe[i] \in Calls
         /\ Len(inbox) \in Nat /\ DOMAIN inbox = 1..Len(inbox) /\ \A i \in DOMAIN inbox : inbox[i] \in Replies
BY DEF Types

LEMMA PipeSame == Types /\ pipe' = pipe => CallsMove(0)
<1> SUFFICES ASSUME Types, pipe' = pipe, NEW s \in Sides, NEW i \in Commands(s)'
             PROVE  i + 0 \in Commands(s) /\ pipe'[i] = pipe[i + 0]
  BY DEF CallsMove
<1> QED BY QueueTypes DEF Commands

LEMMA PipeTail == Types /\ pipe # <<>> /\ pipe' = Tail(pipe) => CallsMove(1)
<1> SUFFICES ASSUME Types, pipe # <<>>, pipe' = Tail(pipe), NEW s \in Sides, NEW i \in Commands(s)'
             PROVE  i + 1 \in Commands(s) /\ pipe'[i] = pipe[i + 1]
  BY DEF CallsMove
<1>1. i \in 1..(Len(pipe) - 1) /\ pipe'[i] = pipe[i + 1]
  BY DEF Commands, Types
<1> QED BY <1>1, QueueTypes DEF Commands

LEMMA InboxSame == Types /\ inbox' = inbox => SamplesMove(0) /\ RefusedMove(0)
BY QueueTypes DEF SamplesMove, RefusedMove, Seen

LEMMA InboxTail == Types /\ inbox # <<>> /\ inbox' = Tail(inbox) => SamplesMove(1) /\ RefusedMove(1)
<1> SUFFICES ASSUME Types, inbox # <<>>, inbox' = Tail(inbox)
             PROVE  \A i \in DOMAIN inbox' : i + 1 \in DOMAIN inbox /\ inbox'[i] = inbox[i + 1]
  BY DEF SamplesMove, RefusedMove, Seen
<1> QED BY DEF Types

(* Taking a reply, with the calls as they were, leaves the numbers.        *)
LEMMA InboxTailLeaves ==
  Types /\ NumbersLeft /\ inbox # <<>> /\ inbox' = Tail(inbox) /\ pipe' = pipe => NumbersLeft'
<1> SUFFICES ASSUME Types, NumbersLeft, inbox # <<>>, inbox' = Tail(inbox), pipe' = pipe PROVE NumbersLeft'
  OBVIOUS
<1>1. inbox \in Seq(Replies) /\ pipe \in Seq(Calls)
  BY DEF Types
<1>2. Len(inbox') = Len(inbox) - 1 /\ Len(inbox) \in Nat
  BY <1>1
<1>3. Len(pipe') = Len(pipe) /\ Len(pipe) \in Nat /\ MaxQueued \in Nat
  BY <1>1, TaxiAssumption
<1>4. Len(pipe) + Len(inbox) <= MaxQueued + 2
  BY DEF NumbersLeft, Queued
<1> QED BY <1>2, <1>3, <1>4 DEF NumbersLeft, Queued

(* A reply put into the inbox adds to what is of its own kind only.        *)
LEMMA InboxAppend ==
  \A reply : Types /\ inbox' = Append(inbox, reply) =>
    /\ reply.kind # "sample" => SamplesMove(0)
    /\ reply.kind # "exception" => RefusedMove(0)
<1> SUFFICES ASSUME NEW reply, Types, inbox' = Append(inbox, reply)
             PROVE  /\ reply.kind # "sample" => SamplesMove(0)
                    /\ reply.kind # "exception" => RefusedMove(0)
  OBVIOUS
<1>1. \A i \in DOMAIN inbox' :
        \/ i \in DOMAIN inbox /\ i + 0 = i /\ inbox'[i] = inbox[i]
        \/ inbox'[i] = reply
  BY DEF Types
<1> QED BY <1>1 DEF SamplesMove, RefusedMove, Seen

(* What is known of a side's button lasts through such a step.             *)
LEMMA SideFrame ==
  \A s \in Sides, k, m \in {0, 1} :
    CallsMove(k) /\ SamplesMove(m) /\ CacheMoves(s) /\ AimStays(s) /\ LatchStays(s) /\ Types /\ Types' =>
      (SideFits(s) => SideFits(s)')
<1> SUFFICES ASSUME NEW s \in Sides, NEW k \in {0, 1}, NEW m \in {0, 1}, CallsMove(k), SamplesMove(m),
                    CacheMoves(s), AimStays(s), LatchStays(s), SideFits(s), Types, Types'
             PROVE  SideFits(s)'
  OBVIOUS
<1>1. /\ \A i \in Commands(s)' : i + k \in Commands(s) /\ pipe'[i] = pipe[i + k]
      /\ \A i \in Seen' : i + m \in Seen /\ (On(i, s)' <=> On(i + m, s))
  BY DEF CallsMove, SamplesMove, On
<1>2. CASE ~UnderWay(s)
  <2>1. Quiet(s) /\ ~UnderWay(s)'
    BY <1>2 DEF SideFits, AimStays
  <2>2. Quiet(s)'
    <3>1. Commands(s)' = {}
      BY <1>1, <2>1 DEF Quiet
    <3>2. \A i \in Seen' : On(i, s)' <=> s \in latch'
      BY <1>1, <2>1 DEF Quiet, LatchStays
    <3>3. cache'.age < Never => (s \in cache'.on <=> s \in latch')
      BY <2>1 DEF Quiet, LatchStays, CacheMoves
    <3> QED BY <3>1, <3>2, <3>3 DEF Quiet
  <2> QED BY <2>1, <2>2 DEF SideFits
<1>3. CASE UnderWay(s)
  <2>1. Turning(s) /\ UnderWay(s)' /\ (Goal(s)' <=> Goal(s))
    BY <1>3 DEF SideFits, AimStays
  <2>2. \A i \in Seen' \cup Commands(s)' : i \in Int
    BY DEF Types, Seen, Commands
  <2>3. Turning(s)'
    <3>1. \A i, j \in Commands(s)' : i = j
      <4> TAKE i, j \in Commands(s)'
      <4>1. i + k = j + k
        BY <1>1, <2>1 DEF Turning
      <4> QED BY <4>1, <2>2
    <3>2. \A i \in Commands(s)' : (pipe'[i].on # {} <=> Goal(s)') /\ ~(s \in latch' <=> Goal(s)')
      BY <1>1, <2>1 DEF Turning, LatchStays
    <3>3. ~(s \in latch' <=> Goal(s)') => \A i \in Seen' : ~(On(i, s)' <=> Goal(s)')
      BY <1>1, <2>1 DEF Turning, LatchStays
    <3>4. \A i, j \in Seen' : i < j /\ (On(i, s)' <=> Goal(s)') => (On(j, s)' <=> Goal(s)')
      <4> SUFFICES ASSUME NEW i \in Seen', NEW j \in Seen', i < j, On(i, s)' <=> Goal(s)'
                   PROVE  On(j, s)' <=> Goal(s)'
        OBVIOUS
      <4>1. i + m < j + m
        BY <2>2
      <4> QED BY <4>1, <1>1, <2>1 DEF Turning
    <3>5. cache'.age < Since(s)' /\ (s \in cache'.on <=> Goal(s)') =>
            (s \in latch' <=> Goal(s)') /\ \A i \in Seen' : On(i, s)' <=> Goal(s)'
      BY <1>1, <1>3, <2>1 DEF Turning, LatchStays, AimStays
    <3> QED BY <3>1, <3>2, <3>3, <3>4, <3>5 DEF Turning
  <2> QED BY <2>1, <2>3 DEF SideFits
<1> QED BY <1>2, <1>3

(* So is what is known of its refusals.                                    *)
LEMMA RefusalFrame ==
  \A s \in Sides, k, m \in {0, 1} :
    /\ CallsMove(k) /\ RefusedMove(m) /\ packets'[s] \in {0, packets[s]} /\ LatchStays(s)
    /\ UnderWay(s)' => UnderWay(s) /\ (Goal(s)' <=> Goal(s))
    => (RefusalFits(s) => RefusalFits(s)')
<1> SUFFICES ASSUME NEW s \in Sides, NEW k \in {0, 1}, NEW m \in {0, 1}, CallsMove(k), RefusedMove(m),
                    packets'[s] \in {0, packets[s]}, LatchStays(s), RefusalFits(s),
                    UnderWay(s)' => UnderWay(s) /\ (Goal(s)' <=> Goal(s))
             PROVE  RefusalFits(s)'
  OBVIOUS
<1>1. \A t \in Sides : \A i \in Commands(t)' : packets'[s] # 0 /\ pipe'[i].id = packets'[s] => s = t
  BY DEF CallsMove, RefusalFits
<1>2. ASSUME NEW i \in DOMAIN inbox', inbox'[i].kind = "exception", packets'[s] # 0, inbox'[i].id = packets'[s],
             UnderWay(s)'
      PROVE  Commands(s)' = {} /\ ~(s \in latch' <=> Goal(s)')
  <2>1. Commands(s) = {} /\ ~(s \in latch <=> Goal(s))
    BY <1>2 DEF RefusedMove, RefusalFits
  <2> QED BY <1>2, <2>1 DEF CallsMove, LatchStays
<1> QED BY <1>1, <1>2 DEF RefusalFits
-----------------------------------------------------------------------------
(* The age an event was decided at is one.                                 *)
LEMMA SinceAge == \A s \in Sides : Types => Since(s) \in Ages
<1> SUFFICES ASSUME NEW s \in Sides, Types PROVE Since(s) \in Ages
  OBVIOUS
<1>1. command.flights[s] \in Flights /\ worker.decision \in Decisions
  BY DEF Types, Orders, Workers
<1> QED BY <1>1 DEF Since, Flights, Decisions

(* Steps of others, and of the worker away from a call, leave the events   *)
(* under way what they are.                                                *)
Apart == worker' = worker \/ (worker.at # "accepted" /\ worker'.at # "accepted")

LEMMA AimKept ==
  \A s \in Sides : Apart /\ command'.flights[s] = command.flights[s] =>
    (UnderWay(s)' <=> UnderWay(s)) /\ (Goal(s)' <=> Goal(s)) /\ Since(s)' = Since(s)
                                   /\ (Unrecorded(s)' <=> Unrecorded(s))
<1> SUFFICES ASSUME NEW s \in Sides, Apart, command'.flights[s] = command.flights[s]
             PROVE  (UnderWay(s)' <=> UnderWay(s)) /\ (Goal(s)' <=> Goal(s)) /\ Since(s)' = Since(s)
                                                   /\ (Unrecorded(s)' <=> Unrecorded(s))
  OBVIOUS
<1>1. CASE worker' = worker
  <2>1. Side' = Side
    BY <1>1, SideSame
  <2> QED BY <1>1, <2>1 DEF UnderWay, Goal, Since, Unrecorded
<1>2. CASE worker.at # "accepted" /\ worker'.at # "accepted"
  BY <1>2 DEF UnderWay, Goal, Since, Unrecorded
<1> QED BY <1>1, <1>2 DEF Apart

CacheStays == cache' = cache \/ cache'.age = Never

LEMMA AimFrame ==
  \A s \in Sides : Types /\ Types' /\ Apart /\ CacheStays /\ command'.flights[s] = command.flights[s] =>
    AimStays(s) /\ CacheMoves(s)
<1> SUFFICES ASSUME NEW s \in Sides, Types, Types', Apart, CacheStays,
                    command'.flights[s] = command.flights[s]
             PROVE  AimStays(s) /\ CacheMoves(s)
  OBVIOUS
<1>1. /\ (UnderWay(s)' <=> UnderWay(s)) /\ (Goal(s)' <=> Goal(s)) /\ Since(s)' = Since(s)
  BY AimKept
<1>2. Since(s) \in Ages /\ Never \in Nat /\ cache'.age \in Ages /\ cache.age \in Ages
  BY SinceAge, TaxiAssumption DEF Types, Samples
<1> QED BY <1>1, <1>2 DEF AimStays, CacheMoves, CacheStays, Ages

(* So a step that moves the queues only leaves EventsFit and RefusalsFit.  *)
LEMMA EventsFrame ==
  \A k, m \in {0, 1} :
    /\ Types /\ Types' /\ CallsMove(k) /\ SamplesMove(m) /\ Apart /\ CacheStays
    /\ latch' = latch /\ command'.flights = command.flights
    => (EventsFit => EventsFit')
<1> SUFFICES ASSUME NEW k \in {0, 1}, NEW m \in {0, 1}, Types, Types', CallsMove(k), SamplesMove(m), Apart,
                    CacheStays, latch' = latch, command'.flights = command.flights, EventsFit
             PROVE  EventsFit'
  OBVIOUS
<1>1. ASSUME NEW s \in Sides PROVE SideFits(s)'
  <2>1. AimStays(s) /\ CacheMoves(s)
    BY AimFrame
  <2> QED BY <2>1, SideFrame DEF LatchStays, EventsFit
<1> QED BY <1>1 DEF EventsFit

LEMMA RefusalsFrame ==
  \A k, m \in {0, 1} :
    /\ CallsMove(k) /\ RefusedMove(m) /\ Apart
    /\ latch' = latch /\ command'.flights = command.flights /\ packets' = packets
    => (RefusalsFit => RefusalsFit')
<1> SUFFICES ASSUME NEW k \in {0, 1}, NEW m \in {0, 1}, CallsMove(k), RefusedMove(m), Apart,
                    latch' = latch, command'.flights = command.flights, packets' = packets, RefusalsFit
             PROVE  RefusalsFit'
  OBVIOUS
<1>1. ASSUME NEW s \in Sides PROVE RefusalFits(s)'
  <2>1. (UnderWay(s)' <=> UnderWay(s)) /\ (Goal(s)' <=> Goal(s))
    BY AimKept
  <2> QED BY <2>1, RefusalFrame DEF LatchStays, RefusalsFit
<1> QED BY <1>1 DEF RefusalsFit

(* Nothing is known of the worker's decision before there is one.          *)
LEMMA AtRestFits == ~Sending' /\ worker'.at # "decide" => WorkerFits'
BY DEF WorkerFits, Sending

(* RequestsFit, for steps that send nothing, and of the request only let   *)
(* go of sides.                                                            *)
Narrows ==
  /\ command'.latest.serial = command.latest.serial /\ command'.pending \subseteq command.pending
  /\ command'.pending # {} => command'.latest = command.latest
  /\ \A s \in command'.pending : sends[s].serial = command.latest.serial => command'.flights[s] = command.flights[s]

LEMMA RequestsFrame ==
  /\ Types /\ Apart /\ latch' = latch /\ sends' = sends /\ Narrows
  /\ worker' = worker \/ ~Sending'
  => (RequestsFit => RequestsFit')
<1> SUFFICES ASSUME Types, Apart, latch' = latch, sends' = sends, Narrows,
                    worker' = worker \/ ~Sending', RequestsFit
             PROVE  RequestsFit'
  OBVIOUS
<1> USE DEF Narrows
<1>1. \A s \in command'.pending : sends[s].serial = command'.latest.serial =>
       IF UnderWay(s)'
         THEN /\ Goal(s)' <=> s \in command'.latest.desired
              /\ ~Unrecorded(s)' => command'.flights[s].serial = command'.latest.serial
         ELSE s \in latch <=> s \in command'.latest.desired
  <2> TAKE s \in command'.pending
  <2> HAVE sends[s].serial = command'.latest.serial
  <2>1. s \in command.pending /\ s \in Sides /\ command'.latest = command.latest /\ command'.flights[s] = command.flights[s]
    BY DEF Types, Orders
  <2>2. (UnderWay(s)' <=> UnderWay(s)) /\ (Goal(s)' <=> Goal(s)) /\ (Unrecorded(s)' <=> Unrecorded(s))
    BY <2>1, AimKept
  <2>3. sends[s].serial = command.latest.serial
    OBVIOUS
  <2> QED BY <2>1, <2>2, <2>3 DEF RequestsFit
<1>2. Sending' =>
       /\ worker'.decision.serial <= command'.latest.serial
       /\ \A s \in Sides : sends[s].serial <= worker'.decision.serial
       /\ \A s \in worker'.left \cap command'.pending :
            worker'.decision.serial = command'.latest.serial =>
              (s \in worker'.decision.desired <=> s \in command'.latest.desired)
  BY DEF RequestsFit, Sending
<1>3. worker'.at = "transmit" /\ Side' \notin worker'.decision.cutoff => sends[Side'].serial # worker'.decision.serial
  BY SideSame DEF RequestsFit, Sending
<1>4. \A s \in Sides : sends[s].serial <= command'.latest.serial
  BY DEF RequestsFit
<1> QED BY <1>1, <1>2, <1>3, <1>4 DEF RequestsFit

LEMMA SameNarrows == command' = command => Narrows
BY DEF Narrows

(* A request that fails lets go of all sides, one that is over keeps only  *)
(* its serial.                                                             *)
LEMMA FailKeeps ==
  \A c \in Orders : Fail(c) \in Orders /\ Fail(c).flights = c.flights /\ Fail(c).latest = c.latest /\ Fail(c).pending = {}
BY DEF Fail, Orders

LEMMA SettledKeeps ==
  \A c \in Orders : /\ Settled(c) \in Orders /\ Settled(c).flights = c.flights /\ Settled(c).pending = c.pending
                    /\ Settled(c).latest.serial = c.latest.serial
                    /\ c.pending # {} => Settled(c) = c
<1> SUFFICES ASSUME NEW c \in Orders
             PROVE  /\ Settled(c) \in Orders /\ Settled(c).flights = c.flights /\ Settled(c).pending = c.pending
                    /\ Settled(c).latest.serial = c.latest.serial
                    /\ c.pending # {} => Settled(c) = c
  OBVIOUS
<1>1. CASE c.pending # {}
  BY <1>1 DEF Settled
<1>2. CASE c.pending = {}
  <2> DEFINE over == [NoRequest EXCEPT !.serial = c.latest.serial]
  <2>1. over \in Terms /\ over.serial = c.latest.serial
    <3>1. c.latest.serial \in Nat
      BY DEF Orders, Terms
    <3> QED BY <3>1 DEF NoRequest, Terms
  <2>2. Never \in Ages
    BY TaxiAssumption DEF Ages
  <2>3. Settled(c) = [c EXCEPT !.permission = FALSE, !.permitted = Never, !.started = Never, !.latest = over]
    BY <1>2 DEF Settled
  <2> HIDE DEF over
  <2> QED BY <1>2, <2>1, <2>2, <2>3 DEF Orders
<1> QED BY <1>1, <1>2
-----------------------------------------------------------------------------
(* A call joined to the queue that is no command leaves the commands.      *)
LEMMA Joined ==
  \A p, x \in Seq(Calls) : (\A i \in DOMAIN x : x[i].kind # "command") =>
    /\ p \o x \in Seq(Calls) /\ Len(p \o x) = Len(p) + Len(x)
    /\ \A i \in DOMAIN (p \o x) : (p \o x)[i].kind = "command" => i \in DOMAIN p /\ (p \o x)[i] = p[i]
    /\ (\A i \in DOMAIN p : p[i].kind = "sample" => p[i].id = 0) /\ (\A i \in DOMAIN x : x[i].id = 0 \/ x[i].kind # "sample") =>
         \A i \in DOMAIN (p \o x) : (p \o x)[i].kind = "sample" => (p \o x)[i].id = 0
OBVIOUS

(* The head of the worker's loop.                                          *)
LEMMA WakeKeeps == \A poll, sample \in BOOLEAN : IInv /\ wake(poll, sample) => IInv'
<1> SUFFICES ASSUME NEW poll \in BOOLEAN, NEW sample \in BOOLEAN, IInv, wake(poll, sample) PROVE IInv'
  OBVIOUS
<1> DEFINE a == IF poll THEN <<Call("poll", 0, {}, FreshId)>> ELSE <<>>
           b == IF sample THEN <<Call("sample", 0, {}, 0)>> ELSE <<>>
<1>1. /\ worker.at = "wait" /\ pipe' = pipe \o a \o b
      /\ Queued + (IF poll THEN 1 ELSE 0) + (IF sample THEN 1 ELSE 0) <= MaxQueued \/ (~poll /\ ~sample)
      /\ identity' = IF poll THEN [identity EXCEPT !.poll = FreshId] ELSE identity
      /\ worker' = [worker EXCEPT !.at = "drain"]
      /\ UNCHANGED <<control, latch, inbox, packets, cache, cutoff, command, sends>>
  BY Zenon DEF wake
<1>2. Types /\ NumbersLeft /\ FreshId \in Nat
  BY FreshNumber DEF IInv
<1>3. /\ a \in Seq(Calls) /\ Len(a) = (IF poll THEN 1 ELSE 0)
      /\ \A i \in DOMAIN a : a[i].kind # "command" /\ (a[i].id = 0 \/ a[i].kind # "sample")
      /\ b \in Seq(Calls) /\ Len(b) = (IF sample THEN 1 ELSE 0)
      /\ \A i \in DOMAIN b : b[i].kind # "command" /\ (b[i].id = 0 \/ b[i].kind # "sample")
  <2>1. Call("poll", 0, {}, FreshId) \in Calls /\ Call("sample", 0, {}, 0) \in Calls
    BY <1>2 DEF Call, Calls
  <2>2. /\ Call("poll", 0, {}, FreshId).kind \notin {"command", "sample"}
        /\ Call("sample", 0, {}, 0).kind # "command" /\ Call("sample", 0, {}, 0).id = 0
    BY DEF Call
  <2>3. \A c \in Calls : /\ <<c>> \in Seq(Calls) /\ Len(<<c>>) = 1
                         /\ \A i \in DOMAIN <<c>> : <<c>>[i] = c
    OBVIOUS
  <2>4. <<>> \in Seq(Calls) /\ Len(<<>>) = 0 /\ DOMAIN <<>> = {}
    OBVIOUS
  <2> QED BY <2>1, <2>2, <2>3, <2>4
<1> HIDE DEF a, b
<1>4. pipe \in Seq(Calls) /\ (pipe \o a) \in Seq(Calls)
  BY <1>2, <1>3 DEF Types
<1>5. /\ pipe' \in Seq(Calls) /\ Len(pipe') = Len(pipe) + Len(a) + Len(b)
      /\ \A i \in DOMAIN pipe' : pipe'[i].kind = "command" => i \in DOMAIN pipe /\ pipe'[i] = pipe[i]
      /\ \A i \in DOMAIN pipe' : pipe'[i].kind = "sample" => pipe'[i].id = 0
  <2>0. \A i \in DOMAIN pipe : pipe[i].kind = "sample" => pipe[i].id = 0
    BY DEF IInv, CallsFit
  <2>1. /\ Len(pipe \o a) = Len(pipe) + Len(a)
        /\ \A i \in DOMAIN (pipe \o a) : (pipe \o a)[i].kind = "command" => i \in DOMAIN pipe /\ (pipe \o a)[i] = pipe[i]
        /\ \A i \in DOMAIN (pipe \o a) : (pipe \o a)[i].kind = "sample" => (pipe \o a)[i].id = 0
    <3>1. \A i \in DOMAIN a : a[i].kind # "command"
      BY <1>3
    <3>2. \A i \in DOMAIN a : a[i].id = 0 \/ a[i].kind # "sample"
      BY <1>3
    <3>3. pipe \in Seq(Calls) /\ a \in Seq(Calls)
      BY <1>3, <1>4
    <3> QED BY <2>0, <3>1, <3>2, <3>3, Joined
  <2>2. /\ pipe' \in Seq(Calls) /\ Len(pipe') = Len(pipe \o a) + Len(b)
        /\ \A i \in DOMAIN pipe' : pipe'[i].kind = "command" => i \in DOMAIN (pipe \o a) /\ pipe'[i] = (pipe \o a)[i]
        /\ \A i \in DOMAIN pipe' : pipe'[i].kind = "sample" => pipe'[i].id = 0
    <3> DEFINE c == pipe \o a
    <3>1. \A i \in DOMAIN b : b[i].kind # "command"
      BY <1>3
    <3>2. \A i \in DOMAIN b : b[i].id = 0 \/ b[i].kind # "sample"
      BY <1>3
    <3>3. c \in Seq(Calls) /\ b \in Seq(Calls) /\ pipe' = c \o b
      BY <1>1, <1>3, <1>4
    <3>4. \A i \in DOMAIN c : c[i].kind = "sample" => c[i].id = 0
      BY <2>1
    <3> HIDE DEF c
    <3>5. /\ pipe' \in Seq(Calls) /\ Len(pipe') = Len(c) + Len(b)
          /\ \A i \in DOMAIN pipe' : pipe'[i].kind = "command" => i \in DOMAIN c /\ pipe'[i] = c[i]
          /\ \A i \in DOMAIN pipe' : pipe'[i].kind = "sample" => pipe'[i].id = 0
      BY <3>1, <3>2, <3>3, <3>4, Joined
    <3> QED BY <3>5 DEF c
  <2> QED BY <2>1, <2>2
<1>6. Types'
  <2>1. worker' \in Workers
    BY <1>1, <1>2 DEF Types, Workers
  <2>2. identity' \in [known : BOOLEAN, poll : Nat]
    BY <1>1, <1>2 DEF Types
  <2> QED BY <1>1, <1>2, <1>5, <2>1, <2>2 DEF Types
<1>7. worker'.at = "drain" /\ ~Sending'
  BY <1>1, <1>2 DEF Types, Workers, Sending
<1>8. NumbersLeft'
  <2>1. Len(pipe) \in Nat /\ Len(inbox) \in Nat /\ Len(inbox') = Len(inbox) /\ MaxQueued \in Nat
    BY <1>1, <1>2, QueueTypes, TaxiAssumption
  <2>2. Len(pipe) + Len(inbox) + Len(a) + Len(b) <= MaxQueued + 2
    <3>1. CASE ~poll /\ ~sample
      BY <3>1, <1>2, <1>3, <2>1 DEF NumbersLeft, Queued
    <3>2. CASE poll \/ sample
      BY <3>2, <1>1, <1>3, <2>1 DEF Queued
    <3> QED BY <3>1, <3>2
  <2>3. Len(a) \in Nat /\ Len(b) \in Nat
    BY <1>3
  <2> QED BY <1>5, <2>1, <2>2, <2>3 DEF NumbersLeft, Queued
<1>9. CallsMove(0) /\ SamplesMove(0) /\ RefusedMove(0) /\ Apart /\ CacheStays
  <2>1. CallsMove(0)
    <3>1. \A i \in DOMAIN pipe : i + 0 = i
      BY <1>2, QueueTypes
    <3> QED BY <1>5, <3>1 DEF CallsMove, Commands
  <2> QED BY <1>1, <1>2, <1>7, <2>1, InboxSame DEF Apart, CacheStays
<1>10. CallsFit'
  BY <1>1, <1>5, <1>7 DEF CallsFit, IInv, aircraft_buttons
<1>11. EventsFit' /\ RefusalsFit'
  BY <1>1, <1>2, <1>6, <1>9, EventsFrame, RefusalsFrame DEF IInv
<1>12. WorkerFits' /\ RequestsFit' /\ Yielding'
  BY <1>1, <1>2, <1>7, <1>9, AtRestFits, RequestsFrame, SameNarrows DEF IInv, Yielding
<1> QED BY <1>6, <1>8, <1>10, <1>11, <1>12 DEF IInv

(* A poll's answer.                                                        *)
LEMMA IdentityKeeps == IInv /\ accept_identity_packet => IInv'
<1> SUFFICES ASSUME IInv, accept_identity_packet PROVE IInv'
  OBVIOUS
<1>1. /\ worker.at = "drain" /\ inbox # <<>> /\ inbox' = Tail(inbox)
      /\ identity' = IF Head(inbox).id = identity.poll THEN [known |-> TRUE, poll |-> 0] ELSE identity
      /\ UNCHANGED <<control, latch, pipe, packets, cache, cutoff, command, worker, sends>>
  BY DEF accept_identity_packet
<1>2. Types /\ NumbersLeft /\ ~Sending'
  BY <1>1 DEF IInv, Sending
<1>3. Types'
  <2>1. identity' \in [known : BOOLEAN, poll : Nat] /\ inbox' \in Seq(Replies)
    BY <1>1, <1>2 DEF Types
  <2> QED BY <1>1, <1>2, <2>1 DEF Types
<1>4. NumbersLeft'
  BY <1>1, <1>2, InboxTailLeaves
<1>5. CallsMove(0) /\ SamplesMove(1) /\ RefusedMove(1) /\ Apart /\ CacheStays
  BY <1>1, <1>2, PipeSame, InboxTail DEF Apart, CacheStays
<1>6. CallsFit'
  BY <1>1, <1>2 DEF CallsFit, IInv, aircraft_buttons
<1>7. EventsFit' /\ RefusalsFit'
  BY <1>1, <1>2, <1>3, <1>5, EventsFrame, RefusalsFrame DEF IInv
<1>8. WorkerFits' /\ RequestsFit' /\ Yielding'
  BY <1>1, <1>2, <1>5, AtRestFits, RequestsFrame, SameNarrows DEF IInv, Yielding
<1> QED BY <1>3, <1>4, <1>6, <1>7, <1>8 DEF IInv

(* The worker's reading.                                                   *)
LEMMA ReadKeeps == \A speed \in Speeds : IInv /\ read(speed) => IInv'
<1> SUFFICES ASSUME NEW speed \in Speeds, IInv, read(speed) PROVE IInv'
  OBVIOUS
<1>1. /\ worker.at = "drain"
      /\ worker' = [worker EXCEPT !.at = "decide", !.speed = speed, !.seen = cache, !.now = 0]
      /\ UNCHANGED <<control, latch, pipe, inbox, packets, cache, identity, cutoff, command, sends>>
  BY Zenon DEF read
<1>2. Types /\ NumbersLeft
  BY DEF IInv
<1>3. worker' \in Workers /\ worker'.at = "decide" /\ worker'.seen = cache
  <2>1. 0 \in 0..Stall /\ cache \in Samples
    BY <1>2, TaxiAssumption DEF Types
  <2> QED BY <1>1, <1>2, <2>1 DEF Types, Workers
<1>4. Types' /\ NumbersLeft' /\ ~Sending'
  BY <1>1, <1>2, <1>3 DEF Types, NumbersLeft, Queued, Sending
<1>5. CallsMove(0) /\ SamplesMove(0) /\ RefusedMove(0) /\ Apart /\ CacheStays
  BY <1>1, <1>2, <1>3, PipeSame, InboxSame DEF Apart, CacheStays
<1>6. CallsFit' /\ WorkerFits' /\ Yielding'
  BY <1>1, <1>3, <1>4 DEF CallsFit, IInv, aircraft_buttons, WorkerFits, Yielding
<1>7. EventsFit' /\ RefusalsFit' /\ RequestsFit'
  BY <1>1, <1>2, <1>4, <1>5, EventsFrame, RefusalsFrame, RequestsFrame, SameNarrows DEF IInv
<1> QED BY <1>4, <1>6, <1>7 DEF IInv
-----------------------------------------------------------------------------
(* A sample's dispatch.                                                    *)
LEMMA SampleKeeps == IInv /\ accept_taxi_packet => IInv'
<1> SUFFICES ASSUME IInv, accept_taxi_packet PROVE IInv'
  OBVIOUS
<1>1. /\ worker.at = "drain" /\ inbox # <<>> /\ Head(inbox).kind = "sample" /\ inbox' = Tail(inbox)
      /\ cache' = [on |-> Head(inbox).on, age |-> 0]
      /\ UNCHANGED <<control, latch, pipe, packets, identity, cutoff, command, worker, sends>>
  BY DEF accept_taxi_packet
<1>2. Types /\ NumbersLeft /\ ~Sending'
  BY <1>1 DEF IInv, Sending
<1>3. /\ Head(inbox) = inbox[1] /\ 1 \in DOMAIN inbox /\ inbox[1] \in Replies /\ inbox' \in Seq(Replies)
      /\ \A i \in DOMAIN inbox' : i + 1 \in DOMAIN inbox /\ inbox'[i] = inbox[i + 1] /\ 1 < i + 1
  BY <1>1, <1>2 DEF Types
<1>4. Types'
  <2>1. cache' \in Samples
    BY <1>1, <1>3, TaxiAssumption DEF Samples, Replies, Ages
  <2> QED BY <1>1, <1>2, <1>3, <2>1 DEF Types
<1>5. NumbersLeft'
  BY <1>1, <1>2, InboxTailLeaves
<1>6. CallsMove(0) /\ SamplesMove(1) /\ RefusedMove(1) /\ Apart
  BY <1>1, <1>2, PipeSame, InboxTail DEF Apart
<1>7. CallsFit'
  BY <1>1, <1>2 DEF CallsFit, IInv, aircraft_buttons
<1>8. ASSUME NEW s \in Sides PROVE SideFits(s)'
  <2>1. (UnderWay(s)' <=> UnderWay(s)) /\ (Goal(s)' <=> Goal(s))
    BY <1>1, <1>6, AimKept
  <2>2. 1 \in Seen /\ (s \in cache'.on <=> On(1, s)) /\ Commands(s)' = Commands(s)
    BY <1>1, <1>3 DEF Seen, On, Commands
  <2>3. \A i \in Seen' : i + 1 \in Seen /\ (On(i, s)' <=> On(i + 1, s)) /\ 1 < i + 1
    BY <1>3 DEF Seen, On
  <2>4. CASE ~UnderWay(s)
    <3>1. Quiet(s)
      BY <2>4 DEF SideFits, EventsFit, IInv
    <3>2. Quiet(s)'
      BY <1>1, <2>2, <2>3, <3>1 DEF Quiet
    <3> QED BY <2>1, <2>4, <3>2 DEF SideFits
  <2>5. CASE UnderWay(s)
    <3>1. Turning(s)
      BY <2>5 DEF SideFits, EventsFit, IInv
    <3>2. \A i, j \in Seen' : i < j /\ (On(i, s)' <=> Goal(s)') => (On(j, s)' <=> Goal(s)')
      <4> SUFFICES ASSUME NEW i \in Seen', NEW j \in Seen', i < j, On(i, s)' <=> Goal(s)'
                   PROVE  On(j, s)' <=> Goal(s)'
        OBVIOUS
      <4>1. i + 1 < j + 1
        BY <1>4 DEF Seen, Types
      <4> QED BY <4>1, <2>1, <2>3, <3>1 DEF Turning
    <3>3. (s \in cache'.on <=> Goal(s)') => (s \in latch' <=> Goal(s)') /\ \A i \in Seen' : On(i, s)' <=> Goal(s)'
      <4> SUFFICES ASSUME On(1, s) <=> Goal(s)
                   PROVE  (s \in latch <=> Goal(s)) /\ \A i \in Seen' : On(i, s)' <=> Goal(s)
        BY <1>1, <2>1, <2>2
      <4> QED BY <2>2, <2>3, <3>1 DEF Turning
    <3>4. /\ \A i, j \in Commands(s)' : i = j
          /\ \A i \in Commands(s)' : (pipe'[i].on # {} <=> Goal(s)') /\ ~(s \in latch' <=> Goal(s)')
          /\ ~(s \in latch' <=> Goal(s)') => \A i \in Seen' : ~(On(i, s)' <=> Goal(s)')
      BY <1>1, <2>1, <2>2, <2>3, <3>1 DEF Turning
    <3>5. Turning(s)'
      BY <3>2, <3>3, <3>4 DEF Turning
    <3> QED BY <2>1, <2>5, <3>5 DEF SideFits
  <2> QED BY <2>4, <2>5
<1>9. EventsFit' /\ RefusalsFit'
  BY <1>1, <1>2, <1>6, <1>8, RefusalsFrame DEF IInv, EventsFit
<1>10. WorkerFits' /\ RequestsFit' /\ Yielding'
  BY <1>1, <1>2, <1>6, AtRestFits, RequestsFrame, SameNarrows DEF IInv, Yielding
<1> QED BY <1>4, <1>5, <1>7, <1>9, <1>10 DEF IInv

(* An exception: for the last command of a side, its event is over, and it *)
(* changed nothing.                                                        *)
LEMMA ExceptionKeeps == IInv /\ accept_exception => IInv'
<1> SUFFICES ASSUME IInv, accept_exception PROVE IInv'
  OBVIOUS
<1> DEFINE hit == {s \in Sides : packets[s] # 0 /\ packets[s] = Head(inbox).id}
           h == CHOOSE s \in hit : TRUE
<1>1. /\ worker.at = "drain" /\ inbox # <<>> /\ Head(inbox).kind = "exception" /\ inbox' = Tail(inbox)
      /\ command' = IF hit = {} THEN command ELSE Settled(rejected(h))
      /\ cutoff' = [cutoff EXCEPT !.waiting = @ \ hit]
      /\ packets' = [s \in Sides |-> IF s \in hit THEN 0 ELSE packets[s]]
      /\ cache' = NoSample
      /\ UNCHANGED <<control, latch, pipe, identity, worker, sends>>
  BY DEF accept_exception
<1>2. Types /\ NumbersLeft /\ ~Sending'
  BY <1>1 DEF IInv, Sending
<1>3. /\ Head(inbox) = inbox[1] /\ 1 \in DOMAIN inbox /\ inbox' \in Seq(Replies)
  BY <1>1, <1>2 DEF Types
<1>4. hit # {} => h \in hit
  OBVIOUS
<1>5. hit \subseteq Sides
  OBVIOUS
<1>6. \A s \in hit : packets[s] # 0 /\ packets[s] = inbox[1].id
  BY <1>3
<1> DEFINE off == [command EXCEPT !.flights[h] = NoFlight]
<1>7. ASSUME hit # {}
      PROVE  /\ rejected(h) \in Orders
             /\ rejected(h).latest = command.latest
             /\ rejected(h).flights[h].active = FALSE
             /\ \A s \in Sides : s # h => rejected(h).flights[s] = command.flights[s]
             /\ rejected(h).pending \in {command.pending, {}}
             /\ rejected(h).pending = {} \/ ~command.flights[h].active \/ command.flights[h].serial # command.latest.serial
             /\ ~command.flights[h].active => rejected(h) = command
  <2>0. h \in Sides
    BY <1>4, <1>5, <1>7
  <2> HIDE DEF hit, h
  <2>1. NoFlight \in Flights /\ NoFlight.active = FALSE
    BY TaxiAssumption DEF NoFlight, Flights, Ages
  <2>2. command \in Orders
    BY <1>2 DEF Types
  <2>3. /\ off \in Orders /\ off.latest = command.latest /\ off.flights[h].active = FALSE /\ off.pending = command.pending
        /\ \A s \in Sides : s # h => off.flights[s] = command.flights[s]
    BY <2>0, <2>1, <2>2 DEF Orders
  <2>4. rejected(h) = IF command.flights[h].active /\ command.flights[h].serial = command.latest.serial THEN Fail(off)
                      ELSE IF command.flights[h].active THEN off ELSE command
    BY DEF rejected
  <2>5. command.flights[h].active \in BOOLEAN
    BY <2>0, <2>2 DEF Orders, Flights
  <2> HIDE DEF off
  <2>6. /\ Fail(off) \in Orders /\ Fail(off).latest = command.latest /\ Fail(off).flights = off.flights /\ Fail(off).pending = {}
    BY <2>3, FailKeeps
  <2>7. CASE ~command.flights[h].active
    BY <2>2, <2>4, <2>5, <2>7
  <2>8. CASE command.flights[h].active
    BY <2>3, <2>4, <2>6, <2>8
  <2> QED BY <2>7, <2>8
<1> HIDE DEF hit, h, off
<1>8. /\ command' \in Orders /\ command'.latest.serial = command.latest.serial
      /\ command'.pending \subseteq command.pending
      /\ command'.pending # {} => command'.latest = command.latest
      /\ \A s \in Sides : \/ command'.flights[s] = command.flights[s]
                          \/ /\ s = h /\ h \in hit /\ ~command'.flights[s].active
                             /\ command.flights[s].active
                             /\ command'.pending = {} \/ command.flights[s].serial # command.latest.serial
  <2>1. command \in Orders
    BY <1>2 DEF Types
  <2>2. CASE hit = {}
    BY <1>1, <2>1, <2>2
  <2>3. CASE hit # {}
    <3>1. /\ command' \in Orders /\ command'.latest.serial = rejected(h).latest.serial
          /\ command'.pending = rejected(h).pending /\ command'.flights = rejected(h).flights
          /\ command'.pending # {} => command'.latest = rejected(h).latest
      BY <1>1, <1>7, <2>3, SettledKeeps
    <3> QED BY <1>4, <1>7, <2>3, <3>1
  <2> QED BY <2>2, <2>3
<1>9. Types'
  <2>1. cache' \in Samples
    BY <1>1, TaxiAssumption DEF Samples, NoSample, Ages
  <2>2. cutoff' \in Cutoffs /\ packets' \in [Sides -> Nat]
    BY <1>1, <1>2 DEF Types, Cutoffs
  <2> QED BY <1>1, <1>2, <1>3, <1>8, <2>1, <2>2 DEF Types
<1>10. NumbersLeft'
  BY <1>1, <1>2, InboxTailLeaves
<1>11. CallsMove(0) /\ SamplesMove(1) /\ RefusedMove(1) /\ Apart /\ CacheStays
  BY <1>1, <1>2, PipeSame, InboxTail DEF Apart, CacheStays, NoSample
<1>12. CallsFit'
  BY <1>1, <1>2 DEF CallsFit, IInv, aircraft_buttons
<1>13. ASSUME NEW s \in Sides, command'.flights[s] = command.flights[s] PROVE SideFits(s)' /\ RefusalFits(s)'
  <2>1. AimStays(s) /\ CacheMoves(s) /\ LatchStays(s)
    BY <1>1, <1>2, <1>9, <1>11, <1>13, AimFrame DEF LatchStays
  <2>2. SideFits(s)'
    BY <1>2, <1>9, <1>11, <2>1, SideFrame DEF IInv, EventsFit
  <2>3. packets'[s] \in {0, packets[s]}
    BY <1>1
  <2>4. UnderWay(s)' => UnderWay(s) /\ (Goal(s)' <=> Goal(s))
    BY <1>11, <1>13, AimKept
  <2> QED BY <1>11, <2>1, <2>2, <2>3, <2>4, RefusalFrame DEF IInv, RefusalsFit
<1>14. ASSUME NEW s \in Sides, command'.flights[s] # command.flights[s] PROVE SideFits(s)' /\ RefusalFits(s)'
  <2>1. s \in hit /\ command.flights[s].active /\ ~command'.flights[s].active
    BY <1>8, <1>14
  <2>2. UnderWay(s) /\ ~UnderWay(s)'
    BY <1>1, <2>1 DEF UnderWay, Unrecorded
  <2>3. Turning(s) /\ RefusalFits(s)
    BY <2>2 DEF IInv, EventsFit, SideFits, RefusalsFit
  <2>4. Commands(s) = {} /\ ~(s \in latch <=> Goal(s))
    BY <1>1, <1>3, <1>6, <2>1, <2>2, <2>3 DEF RefusalFits
  <2>5. \A i \in Seen' : i + 1 \in Seen /\ (On(i, s)' <=> On(i + 1, s))
    BY <1>11 DEF SamplesMove, On
  <2>6. Quiet(s)'
    <3>1. Commands(s)' = {}
      BY <1>1, <2>4 DEF Commands
    <3>2. \A i \in Seen' : On(i, s)' <=> s \in latch'
      BY <1>1, <2>3, <2>4, <2>5 DEF Turning
    <3>3. ~(cache'.age < Never)
      BY <1>1, TaxiAssumption DEF NoSample
    <3> QED BY <3>1, <3>2, <3>3 DEF Quiet
  <2>7. packets'[s] = 0
    BY <1>1, <2>1
  <2> QED BY <2>2, <2>6, <2>7 DEF SideFits, RefusalFits
<1>15. EventsFit' /\ RefusalsFit'
  BY <1>13, <1>14 DEF EventsFit, RefusalsFit
<1>16. Narrows
  <2>1. ASSUME NEW s \in command'.pending, sends[s].serial = command.latest.serial
        PROVE  command'.flights[s] = command.flights[s]
    <3>1. s \in command.pending /\ s \in Sides /\ command'.pending # {}
      BY <1>8, <2>1 DEF Orders
    <3>2. CASE command'.flights[s] # command.flights[s]
      <4>1. command.flights[s].active /\ command.flights[s].serial # command.latest.serial
        BY <1>8, <3>1, <3>2
      <4>2. UnderWay(s) /\ ~Unrecorded(s)
        BY <1>1, <4>1 DEF UnderWay, Unrecorded
      <4> QED BY <2>1, <3>1, <4>1, <4>2 DEF IInv, RequestsFit
    <3> QED BY <3>2
  <2> QED BY <1>8, <2>1 DEF Narrows
<1>17. WorkerFits' /\ RequestsFit' /\ Yielding'
  BY <1>1, <1>2, <1>11, <1>16, AtRestFits, RequestsFrame DEF IInv, Yielding
<1> QED BY <1>9, <1>10, <1>12, <1>15, <1>17 DEF IInv
-----------------------------------------------------------------------------
(* What is known of the worker's decision lasts while neither it, nor the  *)
(* sample in the cache, nor the buttons change.                            *)
LEMMA WorkerFrame ==
  worker' = worker /\ cache' = cache /\ latch' = latch /\ command'.flights = command.flights =>
    (WorkerFits => WorkerFits')
BY SideSame DEF WorkerFits, Sending, Unrecorded

(* SimConnect's answer: the latches as they are.                           *)
LEMMA AnswerKeeps == IInv /\ Answer => IInv'
<1> SUFFICES ASSUME IInv, Answer PROVE IInv'
  OBVIOUS
<1> DEFINE reply == [Head(pipe) EXCEPT !.on = IF Head(pipe).kind = "sample" THEN latch ELSE {}]
<1>1. /\ pipe # <<>> /\ Head(pipe).kind \in {"sample", "poll"} /\ pipe' = Tail(pipe) /\ inbox' = Append(inbox, reply)
      /\ UNCHANGED <<control, latch, packets, cache, identity, cutoff, command, worker, sends>>
  BY Zenon DEF Answer, Serve
<1>2. Types /\ NumbersLeft
  BY DEF IInv
<1>3. /\ Head(pipe) = pipe[1] /\ pipe[1] \in Calls /\ pipe' \in Seq(Calls) /\ Len(pipe') = Len(pipe) - 1
      /\ \A i \in DOMAIN pipe' : i + 1 \in DOMAIN pipe /\ pipe'[i] = pipe[i + 1]
  BY <1>1, <1>2 DEF Types
<1>4. reply \in Replies /\ reply.kind \in {"sample", "poll"} /\ (reply.kind = "sample" => reply.on = latch)
  <2>1. latch \in SUBSET Sides /\ pipe[1].kind \in {"sample", "poll"}
    BY <1>1, <1>2, <1>3 DEF Types
  <2>2. \A c \in Calls, on \in SUBSET Sides : c.kind \in {"sample", "poll"} =>
          /\ [c EXCEPT !.on = on] \in Replies /\ [c EXCEPT !.on = on].kind = c.kind
          /\ [c EXCEPT !.on = on].on = on
    BY DEF Calls, Replies
  <2> DEFINE shown == IF pipe[1].kind = "sample" THEN latch ELSE {}
  <2>3. reply = [pipe[1] EXCEPT !.on = shown]
    BY <1>3
  <2>4. shown \in SUBSET Sides /\ (pipe[1].kind = "sample" => shown = latch)
    BY <2>1
  <2> HIDE DEF reply, shown
  <2>5. /\ [pipe[1] EXCEPT !.on = shown] \in Replies /\ [pipe[1] EXCEPT !.on = shown].kind = pipe[1].kind
        /\ [pipe[1] EXCEPT !.on = shown].on = shown
    BY <1>3, <2>1, <2>2, <2>4
  <2> QED BY <2>1, <2>3, <2>4, <2>5
<1> HIDE DEF reply
<1>5. /\ inbox' \in Seq(Replies) /\ Len(inbox') = Len(inbox) + 1 /\ inbox \in Seq(Replies)
      /\ \A i \in DOMAIN inbox' : \/ i \in DOMAIN inbox /\ inbox'[i] = inbox[i] /\ i < Len(inbox) + 1
                                  \/ i = Len(inbox) + 1 /\ inbox'[i] = reply
  BY <1>1, <1>2, <1>4 DEF Types
<1>6. Types'
  BY <1>1, <1>2, <1>3, <1>5 DEF Types
<1>7. NumbersLeft'
  BY <1>1, <1>2, <1>3, <1>5, QueueTypes, TaxiAssumption DEF NumbersLeft, Queued
<1>8. CallsMove(1) /\ RefusedMove(0) /\ Apart
  <2>1. RefusedMove(0)
    BY <1>1, <1>2, <1>4, InboxAppend
  <2> QED BY <1>1, <1>2, <2>1, PipeTail DEF Apart
<1>9. CallsFit'
  BY <1>1, <1>3 DEF CallsFit, IInv, aircraft_buttons, Sending
<1>10. ASSUME NEW s \in Sides PROVE SideFits(s)'
  <2>1. (UnderWay(s)' <=> UnderWay(s)) /\ (Goal(s)' <=> Goal(s)) /\ Since(s)' = Since(s)
    BY <1>1, <1>8, AimKept
  <2>2. \A i \in Commands(s)' : i + 1 \in Commands(s) /\ pipe'[i] = pipe[i + 1] /\ i \in Int
    BY <1>3, <1>6 DEF Commands, Types
  <2>3. \A i \in Seen' : \/ i \in Seen /\ (On(i, s)' <=> On(i, s)) /\ i < Len(inbox) + 1
                         \/ i = Len(inbox) + 1 /\ (On(i, s)' <=> s \in latch)
    BY <1>4, <1>5 DEF Seen, On
  <2>4. CASE ~UnderWay(s)
    <3>1. Quiet(s)
      BY <2>4 DEF SideFits, EventsFit, IInv
    <3>2. Quiet(s)'
      BY <1>1, <2>2, <2>3, <3>1 DEF Quiet
    <3> QED BY <2>1, <2>4, <3>2 DEF SideFits
  <2>5. CASE UnderWay(s)
    <3>1. Turning(s)
      BY <2>5 DEF SideFits, EventsFit, IInv
    <3>2. \A i, j \in Commands(s)' : i = j
      <4> TAKE i, j \in Commands(s)'
      <4>1. i + 1 = j + 1
        BY <2>2, <3>1 DEF Turning
      <4> QED BY <4>1, <2>2
    <3>3. \A i \in Commands(s)' : (pipe'[i].on # {} <=> Goal(s)') /\ ~(s \in latch' <=> Goal(s)')
      BY <1>1, <2>1, <2>2, <3>1 DEF Turning
    <3>4. ~(s \in latch <=> Goal(s)) => \A i \in Seen' : ~(On(i, s)' <=> Goal(s))
      BY <2>3, <3>1 DEF Turning
    <3>5. \A i, j \in Seen' : i < j /\ (On(i, s)' <=> Goal(s)') => (On(j, s)' <=> Goal(s)')
      <4> SUFFICES ASSUME NEW i \in Seen', NEW j \in Seen', i < j, On(i, s)' <=> Goal(s)
                   PROVE  On(j, s)' <=> Goal(s)
        BY <2>1
      <4>1. s \in latch <=> Goal(s)
        BY <3>4
      <4>2. CASE j = Len(inbox) + 1
        <5>1. ~(j < Len(inbox) + 1)
          BY <4>2, <1>5
        <5> QED BY <2>3, <4>1, <5>1
      <4>3. CASE j # Len(inbox) + 1
        <5>1. j \in Seen /\ (On(j, s)' <=> On(j, s)) /\ j < Len(inbox) + 1
          BY <2>3, <4>3
        <5>2. i # Len(inbox) + 1
          BY <5>1, <1>5 DEF Seen
        <5> QED BY <2>3, <3>1, <5>1, <5>2 DEF Turning
      <4> QED BY <4>2, <4>3
    <3>6. cache'.age < Since(s)' /\ (s \in cache'.on <=> Goal(s)') =>
            (s \in latch' <=> Goal(s)') /\ \A i \in Seen' : On(i, s)' <=> Goal(s)'
      BY <1>1, <2>1, <2>3, <3>1 DEF Turning
    <3>7. Turning(s)'
      BY <1>1, <2>1, <3>2, <3>3, <3>4, <3>5, <3>6 DEF Turning
    <3> QED BY <2>1, <2>5, <3>7 DEF SideFits
  <2> QED BY <2>4, <2>5
<1>11. EventsFit' /\ RefusalsFit'
  BY <1>1, <1>8, <1>10, RefusalsFrame DEF IInv, EventsFit
<1>12. WorkerFits' /\ RequestsFit' /\ Yielding'
  BY <1>1, <1>2, <1>8, WorkerFrame, RequestsFrame, SameNarrows, SideSame DEF IInv, Sending, Yielding
<1> QED BY <1>6, <1>7, <1>9, <1>11, <1>12 DEF IInv

(* Its refusal of a request or a command, which then is never served.      *)
LEMMA RefuseKeeps == IInv /\ Refuse => IInv'
<1> SUFFICES ASSUME IInv, Refuse PROVE IInv'
  OBVIOUS
<1> DEFINE reply == [Head(pipe) EXCEPT !.kind = "exception", !.on = {}, !.side = 0]
<1>1. /\ pipe # <<>> /\ Head(pipe).kind \in {"sample", "command"} /\ pipe' = Tail(pipe) /\ inbox' = Append(inbox, reply)
      /\ UNCHANGED <<control, latch, packets, cache, identity, cutoff, command, worker, sends>>
  BY Zenon DEF Refuse, Serve
<1>2. Types /\ NumbersLeft
  BY DEF IInv
<1>3. /\ Head(pipe) = pipe[1] /\ pipe[1] \in Calls /\ pipe' \in Seq(Calls) /\ Len(pipe') = Len(pipe) - 1
      /\ 1 \in DOMAIN pipe
      /\ \A i \in DOMAIN pipe' : i + 1 \in DOMAIN pipe /\ pipe'[i] = pipe[i + 1] /\ i + 1 # 1
  BY <1>1, <1>2 DEF Types
<1>4. reply \in Replies /\ reply.kind = "exception" /\ reply.id = pipe[1].id
  <2>1. \A c \in Calls : /\ [c EXCEPT !.kind = "exception", !.on = {}, !.side = 0] \in Replies
                         /\ [c EXCEPT !.kind = "exception", !.on = {}, !.side = 0].kind = "exception"
                         /\ [c EXCEPT !.kind = "exception", !.on = {}, !.side = 0].id = c.id
    BY DEF Calls, Replies
  <2>2. reply = [pipe[1] EXCEPT !.kind = "exception", !.on = {}, !.side = 0]
    BY <1>3
  <2> QED BY <1>3, <2>1, <2>2
<1> HIDE DEF reply
<1>5. /\ inbox' \in Seq(Replies) /\ Len(inbox') = Len(inbox) + 1 /\ inbox \in Seq(Replies)
      /\ \A i \in DOMAIN inbox' : (i \in DOMAIN inbox /\ inbox'[i] = inbox[i]) \/ inbox'[i] = reply
  BY <1>1, <1>2, <1>4 DEF Types
<1>6. Types'
  BY <1>1, <1>2, <1>3, <1>5 DEF Types
<1>7. NumbersLeft'
  BY <1>1, <1>2, <1>3, <1>5, QueueTypes, TaxiAssumption DEF NumbersLeft, Queued
<1>8. CallsMove(1) /\ SamplesMove(0) /\ Apart /\ CacheStays
  <2>1. SamplesMove(0)
    BY <1>1, <1>2, <1>4, InboxAppend
  <2> QED BY <1>1, <1>2, <2>1, PipeTail DEF Apart, CacheStays
<1>9. CallsFit'
  BY <1>1, <1>3 DEF CallsFit, IInv, aircraft_buttons, Sending
<1>10. ASSUME NEW s \in Sides PROVE RefusalFits(s)'
  <2>1. (UnderWay(s)' <=> UnderWay(s)) /\ (Goal(s)' <=> Goal(s))
    BY <1>1, <1>8, AimKept
  <2>2. RefusalFits(s) /\ SideFits(s)
    BY DEF IInv, RefusalsFit, EventsFit
  <2>3. \A t \in Sides : \A i \in Commands(t)' : packets'[s] # 0 /\ pipe'[i].id = packets'[s] => s = t
    BY <1>1, <1>8, <2>2 DEF CallsMove, RefusalFits
  <2>4. ASSUME NEW i \in DOMAIN inbox', inbox'[i].kind = "exception", packets[s] # 0, inbox'[i].id = packets[s],
               UnderWay(s)
        PROVE  Commands(s)' = {} /\ ~(s \in latch <=> Goal(s))
    <3>1. CASE i \in DOMAIN inbox /\ inbox'[i] = inbox[i]
      <4>1. Commands(s) = {} /\ ~(s \in latch <=> Goal(s))
        BY <2>2, <2>4, <3>1 DEF RefusalFits
      <4> QED BY <1>8, <4>1 DEF CallsMove
    <3>2. CASE inbox'[i] = reply
      <4>1. pipe[1].id = packets[s] /\ pipe[1].kind \in {"sample", "command"}
        BY <1>1, <1>3, <1>4, <2>4, <3>2
      <4>2. pipe[1].kind = "command" /\ pipe[1].side \in Sides
        BY <1>3, <2>4, <4>1 DEF IInv, CallsFit
      <4>3. 1 \in Commands(s)
        <5>1. 1 \in Commands(pipe[1].side)
          BY <1>3, <4>2 DEF Commands
        <5>2. s = pipe[1].side
          BY <2>2, <2>4, <4>1, <4>2, <5>1 DEF RefusalFits
        <5> QED BY <5>1, <5>2
      <4>4. Turning(s)
        BY <2>2, <2>4 DEF SideFits
      <4>5. \A k \in Commands(s)' : k + 1 \in Commands(s) /\ k + 1 # 1
        BY <1>3 DEF Commands
      <4> QED BY <4>3, <4>4, <4>5 DEF Turning
    <3> QED BY <1>5, <3>1, <3>2
  <2> QED BY <1>1, <2>1, <2>3, <2>4 DEF RefusalFits
<1>11. EventsFit' /\ RefusalsFit'
  BY <1>1, <1>2, <1>6, <1>8, <1>10, EventsFrame DEF IInv, RefusalsFit
<1>12. WorkerFits' /\ RequestsFit' /\ Yielding'
  BY <1>1, <1>2, <1>8, WorkerFrame, RequestsFrame, SameNarrows, SideSame DEF IInv, Sending, Yielding
<1> QED BY <1>6, <1>7, <1>9, <1>11, <1>12 DEF IInv

(* The aircraft carries out a command: the button gets where it was meant  *)
(* to be, whether it is toggled or set.                                    *)
LEMMA ExecuteKeeps == IInv /\ Execute => IInv'
<1> SUFFICES ASSUME IInv, Execute PROVE IInv'
  OBVIOUS
<1>0. PICK q : q = Head(pipe).side
  OBVIOUS
<1>1. /\ pipe # <<>> /\ Head(pipe).kind = "command" /\ pipe' = Tail(pipe)
      /\ latch' = CASE control = "push_event" -> (latch \ {q}) \cup ({q} \ latch)
                    [] control = "lvar_off"   -> (latch \ {q}) \cup Head(pipe).on
      /\ UNCHANGED <<control, inbox, packets, cache, identity, cutoff, command, worker, sends>>
  BY Zenon, <1>0 DEF Execute
<1>2. Types /\ NumbersLeft
  BY DEF IInv
<1>3. /\ Head(pipe) = pipe[1] /\ pipe[1] \in Calls /\ pipe' \in Seq(Calls) /\ Len(pipe') = Len(pipe) - 1
      /\ 1 \in DOMAIN pipe
      /\ \A i \in DOMAIN pipe' : i + 1 \in DOMAIN pipe /\ pipe'[i] = pipe[i + 1] /\ i + 1 # 1
  BY <1>1, <1>2 DEF Types
<1>4. /\ q \in Sides /\ 1 \in Commands(q) /\ pipe[1].on \subseteq {q}
      /\ control \in {"push_event", "lvar_off"}
  <2>1. aircraft_buttons /\ q \in Sides /\ pipe[1].on \subseteq {q}
    BY <1>0, <1>1, <1>3 DEF IInv, CallsFit
  <2>2. control \in {"push_event", "lvar_off"}
    BY <2>1, <1>2, TaxiAssumption DEF Types, aircraft_buttons
  <2> QED BY <1>0, <1>1, <1>3, <2>1, <2>2 DEF Commands
<1>5. UnderWay(q) /\ Turning(q)
  <2>1. SideFits(q) /\ ~Quiet(q)
    BY <1>4 DEF IInv, EventsFit, Quiet
  <2> QED BY <2>1 DEF SideFits
<1>6. (pipe[1].on # {} <=> Goal(q)) /\ ~(q \in latch <=> Goal(q))
  BY <1>4, <1>5 DEF Turning
<1>7. q \in latch' <=> Goal(q)
  <2>1. CASE control = "push_event"
    <3>1. latch' = (latch \ {q}) \cup ({q} \ latch)
      BY <1>1, <2>1
    <3> QED BY <1>6, <3>1
  <2>2. CASE control = "lvar_off"
    <3>1. latch' = (latch \ {q}) \cup pipe[1].on
      BY <1>1, <1>3, <2>2
    <3>2. q \in latch' <=> q \in pipe[1].on
      BY <3>1
    <3>3. q \in pipe[1].on <=> pipe[1].on # {}
      BY <1>4
    <3> QED BY <1>6, <3>2, <3>3
  <2> QED BY <1>4, <2>1, <2>2
<1>8. latch' \in SUBSET Sides /\ \A t \in Sides \ {q} : LatchStays(t)
  <2>1. latch \in SUBSET Sides
    BY <1>2 DEF Types
  <2>2. latch' = (latch \ {q}) \cup ({q} \ latch) \/ latch' = (latch \ {q}) \cup pipe[1].on
    BY <1>1, <1>3, <1>4
  <2> QED BY <1>4, <2>1, <2>2 DEF LatchStays
<1>9. Types'
  BY <1>1, <1>2, <1>3, <1>8 DEF Types
<1>10. NumbersLeft'
  BY <1>1, <1>2, <1>3, QueueTypes, TaxiAssumption DEF NumbersLeft, Queued
<1>11. CallsMove(1) /\ SamplesMove(0) /\ RefusedMove(0) /\ Apart /\ CacheStays
  BY <1>1, <1>2, PipeTail, InboxSame DEF Apart, CacheStays
<1>12. CallsFit'
  BY <1>1, <1>3 DEF CallsFit, IInv, aircraft_buttons, Sending
<1>13. \A s \in Sides : /\ (UnderWay(s)' <=> UnderWay(s)) /\ (Goal(s)' <=> Goal(s)) /\ Since(s)' = Since(s)
                        /\ (Unrecorded(s)' <=> Unrecorded(s))
  BY <1>1, <1>11, AimKept
<1>14. ASSUME NEW s \in Sides, s # q PROVE SideFits(s)' /\ RefusalFits(s)'
  <2>1. AimStays(s) /\ CacheMoves(s) /\ LatchStays(s)
    BY <1>1, <1>2, <1>8, <1>9, <1>11, <1>14, AimFrame
  <2>2. SideFits(s)'
    BY <1>2, <1>9, <1>11, <2>1, SideFrame DEF IInv, EventsFit
  <2> QED BY <1>1, <1>11, <1>13, <2>1, <2>2, RefusalFrame DEF IInv, RefusalsFit
<1>15. SideFits(q)' /\ RefusalFits(q)'
  <2>1. UnderWay(q)' /\ (Goal(q)' <=> Goal(q)) /\ Since(q)' = Since(q)
    BY <1>4, <1>5, <1>13
  <2>2. Commands(q)' = {}
    <3>1. \A k \in Commands(q)' : k + 1 \in Commands(q) /\ k + 1 # 1
      BY <1>3 DEF Commands
    <3> QED BY <1>4, <1>5, <3>1 DEF Turning
  <2>3. Seen' = Seen /\ \A i \in Seen : On(i, q)' <=> On(i, q)
    BY <1>1 DEF Seen, On
  <2>4. Turning(q)'
    BY <1>1, <1>5, <1>6, <1>7, <2>1, <2>2, <2>3 DEF Turning
  <2>5. RefusalFits(q)'
    <3>1. RefusalFits(q)
      BY <1>4 DEF IInv, RefusalsFit
    <3>2. \A t \in Sides : \A i \in Commands(t)' : packets'[q] # 0 /\ pipe'[i].id = packets'[q] => q = t
      BY <1>1, <1>11, <3>1 DEF CallsMove, RefusalFits
    <3>3. \A i \in DOMAIN inbox' : ~(inbox'[i].kind = "exception" /\ packets'[q] # 0 /\ inbox'[i].id = packets'[q])
      BY <1>1, <1>4, <1>5, <3>1 DEF RefusalFits
    <3> QED BY <3>2, <3>3 DEF RefusalFits
  <2> QED BY <2>1, <2>4, <2>5 DEF SideFits
<1>16. EventsFit' /\ RefusalsFit'
  BY <1>14, <1>15 DEF EventsFit, RefusalsFit
<1>17. WorkerFits'
  <2>1. ASSUME Sending, NEW s \in worker.left PROVE Unrecorded(s) \/ ~(s \in latch' <=> s \in worker.decision.desired)
    <3>1. s \in Sides /\ ~command.flights[s].active
      BY <1>2, <2>1 DEF IInv, WorkerFits, Types, Workers
    <3>2. CASE s = q
      BY <1>5, <3>1, <3>2 DEF UnderWay
    <3>3. CASE s # q
      BY <1>8, <2>1, <3>1, <3>3 DEF IInv, WorkerFits, LatchStays
    <3> QED BY <3>2, <3>3
  <2>2. \A s \in worker.left : Unrecorded(s)' <=> Unrecorded(s)
    BY <1>2, <1>13 DEF Types, Workers
  <2> QED BY <1>1, <2>1, <2>2 DEF IInv, WorkerFits, Sending
<1>18. RequestsFit'
  <2>1. \A s \in command.pending : sends[s].serial = command.latest.serial =>
          IF UnderWay(s)'
            THEN /\ Goal(s)' <=> s \in command.latest.desired
                 /\ ~Unrecorded(s)' => command.flights[s].serial = command.latest.serial
            ELSE s \in latch' <=> s \in command.latest.desired
    <3> TAKE s \in command.pending
    <3>1. s \in Sides
      BY <1>2 DEF Types, Orders
    <3> QED BY <1>5, <1>8, <1>13, <3>1 DEF IInv, RequestsFit, LatchStays
  <2>2. Side' = Side
    BY <1>1, SideSame
  <2> QED BY <1>1, <2>1, <2>2 DEF IInv, RequestsFit, Sending
<1>19. Yielding'
  BY <1>1 DEF IInv, Sending, Yielding
<1> QED BY <1>9, <1>10, <1>12, <1>16, <1>17, <1>18, <1>19 DEF IInv
-----------------------------------------------------------------------------
(* A tick leaves the order of two ages, and what is of no use stays so.    *)
LEMMA OlderAge ==
  \A a, b \in Ages : /\ Older(a) \in Ages
                     /\ Older(a) < Older(b) => a < b
                     /\ Older(a) < Never => a < Never
BY TaxiAssumption DEF Ages, Older

LEMMA TickKeeps == IInv /\ Tick => IInv'
<1> SUFFICES ASSUME IInv, Tick PROVE IInv'
  OBVIOUS
<1> DEFINE flown == [s \in Sides |-> [command.flights[s] EXCEPT !.sample = Older(@), !.sent = Older(@)]]
<1>1. /\ worker.at = "decide" => worker.now < Stall
      /\ cache' = [cache EXCEPT !.age = Older(@)]
      /\ cutoff' = [cutoff EXCEPT !.sample  = [s \in Sides |-> Older(@[s])],
                                  !.attempt = [s \in Sides |-> Older(@[s])]]
      /\ command' = [command EXCEPT !.permitted = Older(@), !.started = Older(@),
                       !.flights = flown]
      /\ worker' = [worker EXCEPT !.seen.age = Older(@), !.decision.sample = Older(@),
                                  !.now = IF worker.at = "decide" THEN @ + 1 ELSE @]
      /\ UNCHANGED <<control, latch, pipe, inbox, packets, identity, sends>>
  BY Zenon DEF Tick
<1>2. Types /\ NumbersLeft
  BY DEF IInv
<1>3. \A a \in Ages : Older(a) \in Ages
  BY OlderAge
<1>4. cache' \in Samples /\ cache'.on = cache.on /\ cache'.age = Older(cache.age)
  BY <1>1, <1>2, <1>3 DEF Types, Samples
<1>5. cutoff' \in Cutoffs /\ cutoff'.over = cutoff.over /\ cutoff'.pending = cutoff.pending
  <2>1. /\ [s \in Sides |-> Older(cutoff.sample[s])] \in [Sides -> Ages]
        /\ [s \in Sides |-> Older(cutoff.attempt[s])] \in [Sides -> Ages]
    BY <1>2, <1>3 DEF Types, Cutoffs
  <2>2. cutoff' = [cutoff EXCEPT !.sample  = [s \in Sides |-> Older(cutoff.sample[s])],
                                 !.attempt = [s \in Sides |-> Older(cutoff.attempt[s])]]
    BY Zenon, <1>1, <1>2 DEF Types, Cutoffs
  <2> QED BY <1>2, <2>1, <2>2 DEF Types, Cutoffs
<1>6. /\ flown \in [Sides -> Flights]
      /\ \A s \in Sides : /\ flown[s].active = command.flights[s].active
                          /\ flown[s].desired = command.flights[s].desired
                          /\ flown[s].serial = command.flights[s].serial
                          /\ flown[s].sample = Older(command.flights[s].sample)
  <2>1. \A f \in Flights : /\ [f EXCEPT !.sample = Older(@), !.sent = Older(@)] \in Flights
                           /\ [f EXCEPT !.sample = Older(@), !.sent = Older(@)].active = f.active
                           /\ [f EXCEPT !.sample = Older(@), !.sent = Older(@)].desired = f.desired
                           /\ [f EXCEPT !.sample = Older(@), !.sent = Older(@)].serial = f.serial
                           /\ [f EXCEPT !.sample = Older(@), !.sent = Older(@)].sample = Older(f.sample)
    BY <1>3 DEF Flights
  <2>2. command.flights \in [Sides -> Flights]
    BY <1>2 DEF Types, Orders
  <2> QED BY <2>1, <2>2
<1> HIDE DEF flown
<1>7. /\ command' \in Orders /\ command'.flights = flown /\ command'.latest = command.latest
      /\ command'.pending = command.pending
  BY <1>1, <1>2, <1>3, <1>6 DEF Types, Orders
<1>8. /\ worker' \in Workers /\ worker'.at = worker.at /\ worker'.left = worker.left
      /\ worker'.seen = [worker.seen EXCEPT !.age = Older(@)]
      /\ worker'.decision = [worker.decision EXCEPT !.sample = Older(@)]
  <2>1. /\ worker.seen \in Samples /\ worker.decision \in Decisions /\ worker.now \in 0..Stall /\ worker \in Workers
    BY <1>2 DEF Types, Workers
  <2>2. [worker.seen EXCEPT !.age = Older(@)] \in Samples
    BY <1>3, <2>1 DEF Samples
  <2>3. [worker.decision EXCEPT !.sample = Older(@)] \in Decisions
    BY <1>3, <2>1 DEF Decisions
  <2>4. (IF worker.at = "decide" THEN worker.now + 1 ELSE worker.now) \in 0..Stall
    BY <1>1, <2>1, TaxiAssumption
  <2>5. worker' = [worker EXCEPT !.seen = [worker.seen EXCEPT !.age = Older(@)],
                                 !.decision = [worker.decision EXCEPT !.sample = Older(@)],
                                 !.now = IF worker.at = "decide" THEN worker.now + 1 ELSE worker.now]
    BY <1>1, <2>1 DEF Workers
  <2> QED BY <2>1, <2>2, <2>3, <2>4, <2>5 DEF Workers
<1>9. /\ worker'.decision.desired = worker.decision.desired /\ worker'.decision.serial = worker.decision.serial
      /\ worker'.decision.cutoff = worker.decision.cutoff
      /\ worker'.decision.sample = Older(worker.decision.sample)
  <2>1. worker.decision \in Decisions
    BY <1>2 DEF Types, Workers
  <2> QED BY <1>8, <2>1 DEF Decisions
<1>10. Types' /\ NumbersLeft'
  BY <1>1, <1>2, <1>4, <1>5, <1>7, <1>6, <1>8 DEF Types, NumbersLeft, Queued
<1>11. CallsMove(0) /\ SamplesMove(0) /\ RefusedMove(0) /\ Side' = Side
  BY <1>1, <1>2, <1>8, PipeSame, InboxSame, SideSame
<1>12. CallsFit'
  BY <1>1, <1>8 DEF CallsFit, IInv, aircraft_buttons, Sending
<1>13. \A s \in Sides : /\ (UnderWay(s)' <=> UnderWay(s)) /\ (Goal(s)' <=> Goal(s))
                        /\ Since(s)' = Older(Since(s)) /\ (Unrecorded(s)' <=> Unrecorded(s))
  BY <1>6, <1>7, <1>8, <1>9, <1>11 DEF UnderWay, Goal, Since, Unrecorded
<1>14. ASSUME NEW s \in Sides PROVE SideFits(s)' /\ RefusalFits(s)'
  <2>1. Since(s) \in Ages /\ cache.age \in Ages
    BY <1>2, SinceAge DEF Types, Samples
  <2>2. AimStays(s) /\ CacheMoves(s) /\ LatchStays(s)
    BY <1>1, <1>4, <1>13, <2>1, OlderAge DEF AimStays, CacheMoves, LatchStays
  <2>3. SideFits(s)'
    BY <1>2, <1>10, <1>11, <2>2, SideFrame DEF IInv, EventsFit
  <2> QED BY <1>1, <1>11, <1>13, <2>2, <2>3, RefusalFrame DEF IInv, RefusalsFit
<1>15. EventsFit' /\ RefusalsFit'
  BY <1>14 DEF EventsFit, RefusalsFit
<1>16. WorkerFits'
  <2>1. worker.left \subseteq Sides
    BY <1>2 DEF Types, Workers
  <2>2. \A s \in worker.left : (Unrecorded(s)' <=> Unrecorded(s)) /\ command'.flights[s].active = command.flights[s].active
    BY <1>6, <1>7, <1>13, <2>1
  <2>3. worker'.at = "decide" => worker'.seen = cache'
    BY <1>1, <1>8 DEF IInv, WorkerFits
  <2>4. Sending' => worker'.decision.sample = cache'.age
    BY <1>4, <1>8, <1>9 DEF IInv, WorkerFits, Sending
  <2> QED BY <1>1, <1>8, <1>9, <2>2, <2>3, <2>4 DEF IInv, WorkerFits, Sending
<1>17. RequestsFit'
  <2>1. command.pending \subseteq Sides
    BY <1>2 DEF Types, Orders
  <2>2. \A s \in command.pending : (UnderWay(s)' <=> UnderWay(s)) /\ (Goal(s)' <=> Goal(s))
          /\ (Unrecorded(s)' <=> Unrecorded(s)) /\ command'.flights[s].serial = command.flights[s].serial
    BY <1>6, <1>7, <1>13, <2>1
  <2> QED BY <1>1, <1>7, <1>8, <1>9, <1>11, <2>2 DEF IInv, RequestsFit, Sending
<1>18. Yielding'
  BY <1>5, <1>8, <1>9 DEF IInv, Sending, Yielding
<1> QED BY <1>10, <1>12, <1>15, <1>16, <1>17, <1>18 DEF IInv

(* Whatever the settings ask, a request seen before is not taken again: it *)
(* only narrows, and a new one is newer than every event.                  *)
LEMMA UpdateKeeps ==
  \A r \in Requests, permitted \in BOOLEAN : IInv /\ update_taxi_button_request(r, permitted) => IInv'
<1> SUFFICES ASSUME NEW r \in Requests, NEW permitted \in BOOLEAN, IInv, update_taxi_button_request(r, permitted)
             PROVE  IInv'
  OBVIOUS
<1> DEFINE base == IF ~permitted \/ r.serial = 0 THEN Fail(command) ELSE command
           c == [base EXCEPT !.permission = permitted, !.permitted = 0]
           fit == r.desired \subseteq r.selected /\ permitted /\ aircraft_buttons /\ r.current
           fresh == [c EXCEPT !.latest = r, !.started = 0, !.pending = IF fit THEN r.selected ELSE {}]
           new == IF r.serial = 0 \/ r.serial < c.latest.serial THEN c
                  ELSE IF r.serial = c.latest.serial THEN (IF r # c.latest THEN Fail(c) ELSE c)
                  ELSE fresh
<1>1. /\ command' = Settled(new)
      /\ UNCHANGED <<control, latch, pipe, inbox, packets, cache, identity, cutoff, worker, sends>>
  BY Zenon DEF update_taxi_button_request, command_update
<1>2. Types /\ NumbersLeft
  BY DEF IInv
<1>3. r \in Terms
  <2>1. command.latest \in Terms /\ command.latest.serial \in Nat
    BY <1>2 DEF Types, Orders, Terms
  <2>2. NoRequest \in Terms
    BY DEF NoRequest, Terms
  <2>3. [serial : {command.latest.serial} \ {0}, current : {TRUE}, selected : SUBSET Sides, desired : {{}}] \subseteq Terms
    BY <2>1 DEF Terms
  <2>4. [serial : {command.latest.serial + 1} \cap 1..MaxSerial, current : BOOLEAN,
         selected : SUBSET Sides, desired : SUBSET Sides] \subseteq Terms
    BY <2>1 DEF Terms
  <2> QED BY <2>1, <2>2, <2>3, <2>4 DEF Requests
<1>4. base \in Orders /\ base.flights = command.flights /\ base.latest = command.latest
      /\ base.pending \in {command.pending, {}}
  BY <1>2, FailKeeps DEF Types
<1> HIDE DEF base
<1>5. c \in Orders /\ c.flights = command.flights /\ c.latest = command.latest /\ c.pending \in {command.pending, {}}
  <2>1. 0 \in Ages
    BY TaxiAssumption DEF Ages
  <2> QED BY <1>4, <2>1 DEF Orders
<1> HIDE DEF c
<1>6. fresh \in Orders /\ fresh.flights = c.flights /\ fresh.latest = r
  <2>1. 0 \in Ages /\ (IF fit THEN r.selected ELSE {}) \in SUBSET Sides
    BY <1>3, TaxiAssumption DEF Ages, Terms
  <2> QED BY <1>3, <1>5, <2>1 DEF Orders
<1>7. Fail(c) \in Orders /\ Fail(c).flights = c.flights /\ Fail(c).latest = c.latest /\ Fail(c).pending = {}
  BY <1>5, FailKeeps
<1> HIDE DEF fresh, fit
<1>8. /\ new \in Orders /\ new.flights = command.flights
      /\ \/ new.latest = command.latest /\ new.pending \subseteq command.pending
         \/ new.latest.serial > command.latest.serial
  <2>1. r.serial \in Nat /\ c.latest.serial \in Nat /\ c.latest = command.latest
    BY <1>3, <1>5 DEF Terms, Orders
  <2>2. CASE new = c \/ new = Fail(c)
    BY <1>5, <1>7, <2>2
  <2>3. CASE new = fresh /\ ~(r.serial = 0 \/ r.serial < c.latest.serial) /\ r.serial # c.latest.serial
    BY <1>5, <1>6, <2>1, <2>3
  <2> QED BY <2>2, <2>3
<1> HIDE DEF new
<1>9. /\ command' \in Orders /\ command'.flights = command.flights
      /\ Narrows \/ command'.latest.serial > command.latest.serial
  BY <1>1, <1>8, SettledKeeps DEF Narrows
<1>10. Types' /\ NumbersLeft'
  BY <1>1, <1>2, <1>9 DEF Types, NumbersLeft, Queued
<1>11. CallsMove(0) /\ SamplesMove(0) /\ RefusedMove(0) /\ Apart /\ CacheStays
  BY <1>1, <1>2, PipeSame, InboxSame DEF Apart, CacheStays
<1>12. CallsFit' /\ WorkerFits' /\ Yielding'
  BY <1>1, <1>9, WorkerFrame, SideSame DEF CallsFit, IInv, aircraft_buttons, Sending, Yielding
<1>13. EventsFit' /\ RefusalsFit'
  BY <1>1, <1>2, <1>9, <1>10, <1>11, EventsFrame, RefusalsFrame DEF IInv
<1>14. RequestsFit'
  <2>1. CASE Narrows
    BY <1>1, <1>2, <1>11, <2>1, RequestsFrame DEF IInv
  <2>2. CASE command'.latest.serial > command.latest.serial
    <3>1. command.latest.serial \in Nat /\ command'.latest.serial \in Nat /\ worker.decision.serial \in Nat
      BY <1>2, <1>10 DEF Types, Orders, Terms, Workers, Decisions
    <3>2. \A s \in Sides : sends[s].serial \in Nat
      BY <1>2 DEF Types
    <3>3. command'.pending \subseteq Sides
      BY <1>10 DEF Types, Orders
    <3>4. \A s \in Sides : sends[s].serial < command'.latest.serial
      BY <2>2, <3>1, <3>2 DEF IInv, RequestsFit
    <3>5. Sending => worker.decision.serial < command'.latest.serial
      BY <2>2, <3>1 DEF IInv, RequestsFit
    <3>6. Side' = Side
      BY <1>1, SideSame
    <3>7. /\ \A s \in Sides : sends[s].serial <= command'.latest.serial /\ sends[s].serial # command'.latest.serial
          /\ Sending => worker.decision.serial <= command'.latest.serial /\ worker.decision.serial # command'.latest.serial
      BY <3>1, <3>2, <3>4, <3>5
    <3> QED BY <1>1, <3>3, <3>6, <3>7 DEF IInv, RequestsFit, Sending
  <2> QED BY <1>9, <2>1, <2>2
<1> QED BY <1>10, <1>12, <1>13, <1>14 DEF IInv
-----------------------------------------------------------------------------
(* The cutoff switches off only while it holds the requests back.          *)
LEMMA CutoffHolds ==
  \A c \in Cutoffs, speed \in Speeds, seen \in Samples, valid \in BOOLEAN, now \in Ages :
    /\ cutoff_update(c, speed, seen, valid, now).cutoff \in Cutoffs
    /\ cutoff_update(c, speed, seen, valid, now).commands \in SUBSET Sides
    /\ cutoff_update(c, speed, seen, valid, now).commands # {} =>
         inhibited(cutoff_update(c, speed, seen, valid, now).cutoff)
<1> SUFFICES ASSUME NEW c \in Cutoffs, NEW speed \in Speeds, NEW seen \in Samples, NEW valid \in BOOLEAN,
                    NEW now \in Ages
             PROVE  /\ cutoff_update(c, speed, seen, valid, now).cutoff \in Cutoffs
                    /\ cutoff_update(c, speed, seen, valid, now).commands \in SUBSET Sides
                    /\ cutoff_update(c, speed, seen, valid, now).commands # {} =>
                         inhibited(cutoff_update(c, speed, seen, valid, now).cutoff)
  OBVIOUS
<1> DEFINE over == cutoff_over(c, speed)
           held == [c EXCEPT !.over = over, !.pending = IF over THEN Sides ELSE @]
           done == cutoff_acknowledged(held, seen)
           due  == cutoff_due(held, seen, now)
           none == [c EXCEPT !.over = over, !.pending = {}, !.waiting = {}]
           next == [held EXCEPT !.pending = @ \ done, !.waiting = @ \ done,
                                !.sample  = [s \in Sides |-> IF s \in due THEN seen.age ELSE @[s]],
                                !.attempt = [s \in Sides |-> IF s \in due THEN now ELSE @[s]]]
<1>1. cutoff_update(c, speed, seen, valid, now) =
        IF ~aircraft_buttons THEN [cutoff |-> none, commands |-> {}]
        ELSE IF ~valid THEN [cutoff |-> held, commands |-> {}]
        ELSE [cutoff |-> next, commands |-> due]
  BY Zenon DEF cutoff_update
<1>2. over \in BOOLEAN
  BY DEF cutoff_over, Cutoffs
<1> HIDE DEF over
<1>3. held \in Cutoffs /\ none \in Cutoffs
  <2>1. (IF over THEN Sides ELSE c.pending) \in SUBSET Sides
    BY DEF Cutoffs
  <2> QED BY <1>2, <2>1 DEF Cutoffs
<1> HIDE DEF held, none
<1>4. done \subseteq Sides /\ done \cap seen.on = {}
  BY DEF cutoff_acknowledged
<1>5. due \subseteq seen.on \cap held.pending /\ due \in SUBSET Sides
  BY DEF cutoff_due, Samples
<1> HIDE DEF done, due
<1>6. next \in Cutoffs /\ next.pending = held.pending \ done
  <2>1. /\ [s \in Sides |-> IF s \in due THEN seen.age ELSE held.sample[s]] \in [Sides -> Ages]
        /\ [s \in Sides |-> IF s \in due THEN now ELSE held.attempt[s]] \in [Sides -> Ages]
        /\ held.pending \ done \in SUBSET Sides /\ held.waiting \ done \in SUBSET Sides
    BY <1>3 DEF Cutoffs, Samples
  <2> DEFINE samples  == [s \in Sides |-> IF s \in due THEN seen.age ELSE held.sample[s]]
             attempts == [s \in Sides |-> IF s \in due THEN now ELSE held.attempt[s]]
             left     == held.pending \ done
             waits    == held.waiting \ done
  <2>2. next = [held EXCEPT !.pending = left, !.waiting = waits, !.sample = samples, !.attempt = attempts]
    OBVIOUS
  <2> HIDE DEF next, samples, attempts, waits, left
  <2>3. left \in SUBSET Sides /\ waits \in SUBSET Sides /\ samples \in [Sides -> Ages] /\ attempts \in [Sides -> Ages]
    BY <2>1 DEF samples, attempts, left, waits
  <2>4. next \in Cutoffs /\ next.pending = left
    BY <1>3, <2>2, <2>3 DEF Cutoffs
  <2> QED BY <2>4 DEF left
<1> HIDE DEF next
<1>7. due # {} => next.pending # {}
  BY <1>4, <1>5, <1>6
<1> QED BY <1>1, <1>3, <1>5, <1>6, <1>7 DEF inhibited

(* What TaxiButtonCommand decides on a sample: nothing for a side with an  *)
(* event that the sample does not confirm, only what turns the button from *)
(* where the sample shows it, as the request wants it, and no ON against   *)
(* the cutoff.                                                             *)
Decided(out, seen, valid, inhibit) ==
  /\ out.command \in Orders /\ out.command.latest = command.latest
  /\ out.command.pending \subseteq command.pending
  /\ \A s \in Sides : \/ out.command.flights[s] = command.flights[s]
                      \/ Acknowledged(command.flights[s], seen, s) /\ ~out.command.flights[s].active
  /\ out.decision \in Decisions /\ out.decision.serial = command.latest.serial
  /\ out.decision.sample = seen.age
  /\ out.decision.send # {} => aircraft_buttons /\ valid
  /\ \A s \in out.decision.send :
       /\ ~out.command.flights[s].active
       /\ Acknowledged(command.flights[s], seen, s) \/ ~command.flights[s].active
       /\ ~(s \in seen.on <=> s \in out.decision.desired)
       /\ s \in out.command.pending => (s \in out.decision.desired <=> s \in command.latest.desired)
  /\ out.decision.desired \cap out.decision.send # {} => ~inhibit

LEMMA StepDecides ==
  \A seen \in Samples, valid, ready, inhibit \in BOOLEAN, commands \in SUBSET Sides :
    Types /\ (commands # {} => inhibit) => Decided(step(seen, valid, ready, inhibit, commands), seen, valid, inhibit)
<1> SUFFICES ASSUME NEW seen \in Samples, NEW valid \in BOOLEAN, NEW ready \in BOOLEAN, NEW inhibit \in BOOLEAN,
                    NEW commands \in SUBSET Sides, Types, commands # {} => inhibit
             PROVE  Decided(step(seen, valid, ready, inhibit, commands), seen, valid, inhibit)
  OBVIOUS
<1> DEFINE c == IF Refused(command, worker.now, inhibit) THEN Fail(command) ELSE command
           none == [NoDecision EXCEPT !.serial = c.latest.serial, !.sample = seen.age]
           Clear(s) == Acknowledged(c.flights[s], seen, s)
           Free(s)  == Clear(s) \/ ~c.flights[s].active
           Off(s)   == Free(s) /\ s \in commands \cap seen.on
           Asks(s)  == Free(s) /\ ~Off(s) /\ s \in c.pending /\ worker.speed # "unknown"
           Barred(s) == Asks(s) /\ s \in c.latest.desired /\ (inhibit \/ worker.speed = "over")
           reached == {s \in Sides : \A t \in Sides : t < s => ~Barred(t)}
           barred  == \E s \in Sides : Barred(s)
           off     == {s \in reached : Off(s)}
           met     == {s \in reached : Asks(s) /\ (s \in seen.on) = (s \in c.latest.desired)}
           user    == IF barred THEN {} ELSE {s \in reached : Asks(s)} \ met
           cleared == [c EXCEPT !.flights = [s \in Sides |-> IF s \in reached /\ Clear(s) THEN NoFlight ELSE @[s]]]
           chosen  == [none EXCEPT !.send = off \cup user, !.cutoff = off, !.desired = user \cap c.latest.desired]
           left    == IF barred THEN Fail(cleared) ELSE [cleared EXCEPT !.pending = @ \ met]
           out     == step(seen, valid, ready, inhibit, commands)
<1>1. out = IF ~ready \/ ~valid \/ ~aircraft_buttons THEN [command |-> c, decision |-> none]
            ELSE [command |-> left, decision |-> chosen]
  BY Zenon DEF step
<1> HIDE DEF out
<1>2. /\ c \in Orders /\ c.latest = command.latest /\ c.flights = command.flights
      /\ c.pending \subseteq command.pending
      /\ c.pending # {} => c = command /\ ~Refused(command, worker.now, inhibit)
  <2>1. command \in Orders
    BY DEF Types
  <2>2. CASE Refused(command, worker.now, inhibit)
    <3>1. c = Fail(command)
      BY <2>2
    <3> QED BY <2>1, <3>1, FailKeeps
  <2>3. CASE ~Refused(command, worker.now, inhibit)
    <3>1. c = command
      BY <2>3
    <3> QED BY <2>1, <2>3, <3>1
  <2> QED BY <2>2, <2>3
<1>3. inhibit => \A s \in c.pending : s \notin command.latest.desired
  BY <1>2 DEF Refused
<1> HIDE DEF c
<1>4. none \in Decisions /\ none.serial = command.latest.serial /\ none.sample = seen.age /\ none.send = {}
      /\ none.desired = {}
  <2>1. c.latest.serial \in Nat /\ seen.age \in Ages
    BY <1>2 DEF Orders, Terms, Samples
  <2> QED BY <1>2, <2>1 DEF NoDecision, Decisions
<1> HIDE DEF none
<1>5. CASE ~ready \/ ~valid \/ ~aircraft_buttons
  <2>1. out.command = c /\ out.decision = none
    BY <1>1, <1>5
  <2>2. out.decision.send = {} /\ out.decision.desired = {}
    BY <1>4, <2>1
  <2> HIDE DEF Clear, Free, Off, Asks, Barred, reached, barred, off, met, user, cleared, chosen, left
  <2>3. Decided(out, seen, valid, inhibit)
    BY <1>2, <1>4, <2>1, <2>2 DEF Decided
  <2> QED BY <2>3 DEF out
<1>6. CASE ~(~ready \/ ~valid \/ ~aircraft_buttons)
  <2>1. out.command = left /\ out.decision = chosen
    BY <1>1, <1>6
  <2>2. /\ off \subseteq Sides /\ \A s \in off : Free(s) /\ Off(s) /\ s \in commands /\ s \in seen.on /\ s \in reached
        /\ user \subseteq Sides
        /\ \A s \in user : /\ Free(s) /\ ~Off(s) /\ s \in reached /\ ~barred /\ Asks(s) /\ s \in c.pending
                           /\ ~(s \in seen.on <=> s \in command.latest.desired)
    BY <1>2
  <2>3. \A s \in user : s \in command.latest.desired => ~inhibit
    <3> SUFFICES ASSUME NEW s \in user, s \in command.latest.desired, inhibit PROVE FALSE
      OBVIOUS
    <3>1. ~Barred(s) /\ Asks(s) /\ s \in c.latest.desired
      BY <1>2, <2>2
    <3> HIDE DEF Asks
    <3> QED BY <3>1
  <2>4. \A s \in Sides : /\ Clear(s) <=> Acknowledged(command.flights[s], seen, s)
                         /\ Free(s) <=> Clear(s) \/ ~command.flights[s].active
    BY <1>2
  <2>5. met \subseteq Sides /\ reached \subseteq Sides
    OBVIOUS
  <2> HIDE DEF Clear, Free, Off, Asks, Barred, reached, barred, off, met, user
  <2>6. /\ cleared \in Orders /\ cleared.latest = c.latest /\ cleared.pending = c.pending
        /\ \A s \in Sides : cleared.flights[s] = IF s \in reached /\ Clear(s) THEN NoFlight ELSE command.flights[s]
    <3>1. NoFlight \in Flights
      BY TaxiAssumption DEF NoFlight, Flights, Ages
    <3>2. [s \in Sides |-> IF s \in reached /\ Clear(s) THEN NoFlight ELSE c.flights[s]] \in [Sides -> Flights]
      BY <1>2, <3>1 DEF Orders
    <3>3. cleared = [c EXCEPT !.flights = [s \in Sides |-> IF s \in reached /\ Clear(s) THEN NoFlight ELSE c.flights[s]]]
      BY Zenon, <1>2 DEF Orders
    <3> QED BY <1>2, <3>2, <3>3 DEF Orders
  <2> HIDE DEF cleared
  <2>7. left \in Orders /\ left.latest = c.latest /\ left.flights = cleared.flights /\ left.pending \subseteq c.pending
    <3>1. CASE barred
      BY <2>6, <3>1, FailKeeps
    <3>2. CASE ~barred
      <4>1. left = [cleared EXCEPT !.pending = cleared.pending \ met]
        BY <2>6, <3>2 DEF Orders
      <4>2. cleared.pending \ met \in SUBSET Sides
        BY <2>6 DEF Orders
      <4> QED BY <2>6, <4>1, <4>2 DEF Orders
    <3> QED BY <3>1, <3>2
  <2>8. /\ chosen \in Decisions /\ chosen.send = off \cup user /\ chosen.desired = user \cap command.latest.desired
        /\ chosen.serial = command.latest.serial /\ chosen.sample = seen.age
    <3>1. off \cup user \in SUBSET Sides /\ off \in SUBSET Sides /\ user \cap c.latest.desired \in SUBSET Sides
      BY <2>2
    <3> QED BY <1>2, <1>4, <3>1 DEF Decisions
  <2> HIDE DEF left, chosen
  <2>9. \A s \in Sides : \/ left.flights[s] = command.flights[s]
                         \/ Acknowledged(command.flights[s], seen, s) /\ ~left.flights[s].active
    BY <2>4, <2>6, <2>7 DEF NoFlight
  <2>10. \A s \in off \cup user :
           /\ ~left.flights[s].active
           /\ Acknowledged(command.flights[s], seen, s) \/ ~command.flights[s].active
    BY <2>2, <2>4, <2>6, <2>7 DEF NoFlight
  <2>11. \A s \in off : s \notin user
    BY <2>2
  <2>12. \A s \in off \cup user : ~(s \in seen.on <=> s \in user \cap command.latest.desired)
    BY <2>2, <2>11
  <2>13. \A s \in off \cup user : s \in left.pending => (s \in user \cap command.latest.desired <=> s \in command.latest.desired)
    <3> SUFFICES ASSUME NEW s \in off, s \in left.pending PROVE s \notin command.latest.desired
      BY <2>2
    <3>1. inhibit /\ s \in c.pending
      BY <2>2, <2>7
    <3> QED BY <1>3, <3>1
  <2>14. out.decision.desired \cap out.decision.send # {} => ~inhibit
    BY <2>1, <2>3, <2>8
  <2>15. \A s \in out.decision.send :
              /\ ~out.command.flights[s].active
              /\ Acknowledged(command.flights[s], seen, s) \/ ~command.flights[s].active
              /\ ~(s \in seen.on <=> s \in out.decision.desired)
              /\ s \in out.command.pending => (s \in out.decision.desired <=> s \in command.latest.desired)
    BY <2>1, <2>8, <2>10, <2>12, <2>13
  <2>16. Decided(out, seen, valid, inhibit)
    BY <1>2, <1>6, <2>1, <2>7, <2>8, <2>9, <2>14, <2>15 DEF Decided
  <2> QED BY <2>16 DEF out
<1> QED BY <1>5, <1>6

(* The locked decision: an acknowledged event has reached its goal, and    *)
(* with none under way the sample shows the button as it is.               *)
LEMMA DecideKeeps == \A ready \in BOOLEAN : IInv /\ decide(ready) => IInv'
<1> SUFFICES ASSUME NEW ready \in BOOLEAN, IInv, decide(ready) PROVE IInv'
  OBVIOUS
<1> DEFINE seen  == worker.seen
           valid == seen.age - worker.now <= Fresh
           cut   == cutoff_update(cutoff, worker.speed, seen, valid, worker.now)
           inhibit == inhibited(cut.cutoff)
           out   == step(seen, valid, ready, inhibit, cut.commands)
           sending == [AtRest EXCEPT !.at = "check", !.decision = out.decision, !.left = out.decision.send]
<1>1. /\ worker.at = "decide"
      /\ cutoff' = cut.cutoff /\ command' = Settled(out.command)
      /\ worker' = IF out.decision.send = {} THEN AtRest ELSE sending
      /\ UNCHANGED <<control, latch, pipe, inbox, packets, cache, identity, sends>>
  BY Zenon DEF decide
<1>2. Types /\ NumbersLeft
  BY DEF IInv
<1>3. seen = cache /\ seen \in Samples /\ worker.now \in 0..Stall /\ worker.now \in Ages /\ worker.speed \in Speeds
  <2>1. worker \in Workers /\ cache \in Samples
    BY <1>2 DEF Types
  <2>2. seen = cache
    BY <1>1 DEF IInv, WorkerFits
  <2>3. worker.now \in 0..Stall /\ worker.speed \in Speeds
    BY <2>1 DEF Workers
  <2>4. 0..Stall \subseteq Ages
    BY TaxiAssumption DEF Ages
  <2> HIDE DEF seen
  <2> QED BY <2>1, <2>2, <2>3, <2>4
<1>4. valid \in BOOLEAN /\ (valid => cache.age < Never)
  BY <1>3, TaxiAssumption DEF Samples, Ages
<1> HIDE DEF seen, valid
<1>5. cut.cutoff \in Cutoffs /\ cut.commands \in SUBSET Sides /\ (cut.commands # {} => inhibit)
  BY <1>2, <1>3, <1>4, CutoffHolds DEF Types
<1>6. inhibit \in BOOLEAN /\ (~inhibit => ~cut.cutoff.over /\ cut.cutoff.pending = {})
  BY <1>5 DEF inhibited, Cutoffs
<1> HIDE DEF cut, inhibit
<1>7. Decided(out, cache, valid, inhibit)
  BY <1>2, <1>3, <1>4, <1>5, <1>6, StepDecides
<1> HIDE DEF out
<1>8. /\ command' \in Orders /\ command'.flights = out.command.flights /\ command'.pending = out.command.pending
      /\ command'.latest.serial = command.latest.serial
      /\ command'.pending # {} => command'.latest = command.latest
  BY <1>1, <1>7, SettledKeeps DEF Decided
<1>9. /\ worker' \in Workers
      /\ \/ worker'.at = "wait"
         \/ /\ worker'.at = "check" /\ worker'.decision = out.decision /\ worker'.left = out.decision.send
            /\ out.decision.send # {}
  <2>1. AtRest \in Workers /\ AtRest.at = "wait"
    <3>1. NoSample \in Samples /\ NoDecision \in Decisions /\ 0 \in 0..Stall
      BY TaxiAssumption DEF NoSample, Samples, NoDecision, Decisions, Ages
    <3> QED BY <3>1 DEF AtRest, Workers, Speeds
  <2>2. sending \in Workers /\ sending.at = "check" /\ sending.decision = out.decision /\ sending.left = out.decision.send
    <3>1. out.decision \in Decisions /\ out.decision.send \in SUBSET Sides
      BY <1>7 DEF Decisions, Decided
    <3> HIDE DEF AtRest
    <3> QED BY <2>1, <3>1 DEF Workers
  <2> HIDE DEF sending
  <2> QED BY <1>1, <2>1, <2>2
<1> HIDE DEF sending
<1>10. Types' /\ NumbersLeft'
  BY <1>1, <1>2, <1>5, <1>8, <1>9 DEF Types, NumbersLeft, Queued
<1>11. CallsMove(0) /\ SamplesMove(0) /\ RefusedMove(0) /\ Apart /\ CacheStays
  BY <1>1, <1>2, <1>9, PipeSame, InboxSame DEF Apart, CacheStays
<1>12. CallsFit'
  BY <1>1, <1>7, <1>9 DEF CallsFit, IInv, aircraft_buttons, Sending, Decided
<1>13. ASSUME NEW s \in Sides, Acknowledged(command.flights[s], cache, s)
       PROVE  /\ UnderWay(s) /\ ~Unrecorded(s) /\ Turning(s) /\ (Goal(s) <=> command.flights[s].desired)
              /\ (s \in latch <=> Goal(s)) /\ (s \in cache.on <=> Goal(s))
              /\ \A i \in Seen : On(i, s) <=> Goal(s)
  <2>1. UnderWay(s) /\ ~Unrecorded(s)
    BY <1>1, <1>13 DEF UnderWay, Unrecorded, Acknowledged
  <2>2. Turning(s) /\ (Goal(s) <=> command.flights[s].desired) /\ Since(s) = command.flights[s].sample
    BY <2>1 DEF IInv, EventsFit, SideFits, Goal, Since
  <2>3. cache.age < Since(s) /\ (s \in cache.on <=> Goal(s))
    <3>1. command.flights[s].desired \in BOOLEAN
      BY <1>2 DEF Types, Orders, Flights
    <3> QED BY <1>13, <2>2, <3>1 DEF Acknowledged
  <2> QED BY <2>1, <2>2, <2>3 DEF Turning
<1>14. ASSUME NEW s \in Sides, command'.flights[s] = command.flights[s] PROVE SideFits(s)' /\ RefusalFits(s)'
  <2>1. AimStays(s) /\ CacheMoves(s) /\ LatchStays(s)
    BY <1>1, <1>2, <1>10, <1>11, <1>14, AimFrame DEF LatchStays
  <2>2. SideFits(s)'
    BY <1>2, <1>10, <1>11, <2>1, SideFrame DEF IInv, EventsFit
  <2>3. UnderWay(s)' => UnderWay(s) /\ (Goal(s)' <=> Goal(s))
    BY <1>11, <1>14, AimKept
  <2> QED BY <1>1, <1>11, <2>1, <2>2, <2>3, RefusalFrame DEF IInv, RefusalsFit
<1>15. ASSUME NEW s \in Sides, Acknowledged(command.flights[s], cache, s), ~command'.flights[s].active
       PROVE  ~UnderWay(s)' /\ SideFits(s)' /\ RefusalFits(s)'
  <2>1. ~UnderWay(s)'
    BY <1>9, <1>15 DEF UnderWay, Unrecorded
  <2>2. Quiet(s)'
    <3>1. Commands(s)' = {}
      BY <1>1, <1>13, <1>15 DEF Commands, Turning
    <3>2. \A i \in Seen' : On(i, s)' <=> s \in latch'
      BY <1>1, <1>13, <1>15 DEF Seen, On
    <3>3. s \in cache'.on <=> s \in latch'
      BY <1>1, <1>13, <1>15
    <3> QED BY <3>1, <3>2, <3>3 DEF Quiet
  <2>3. LatchStays(s)
    BY <1>1 DEF LatchStays
  <2>4. RefusalFits(s)'
    BY <1>1, <1>11, <2>1, <2>3, RefusalFrame DEF IInv, RefusalsFit
  <2> QED BY <2>1, <2>2, <2>4 DEF SideFits
<1>16. EventsFit' /\ RefusalsFit'
  BY <1>7, <1>8, <1>14, <1>15 DEF EventsFit, RefusalsFit, Decided
<1>17. WorkerFits'
  <2>1. ASSUME NEW s \in out.decision.send, worker'.at = "check"
        PROVE  ~command'.flights[s].active /\ ~(s \in latch' <=> s \in out.decision.desired)
    <3>1. s \in Sides /\ valid
      BY <1>7, <2>1 DEF Decisions, Decided
    <3>2. s \in cache.on <=> s \in latch
      <4>1. CASE Acknowledged(command.flights[s], cache, s)
        BY <1>13, <3>1, <4>1
      <4>2. CASE ~command.flights[s].active
        <5>1. ~UnderWay(s)
          BY <1>1, <4>2 DEF UnderWay, Unrecorded
        <5> QED BY <1>4, <3>1, <5>1 DEF IInv, EventsFit, SideFits, Quiet
      <4> QED BY <1>7, <2>1, <4>1, <4>2 DEF Decided
    <3> QED BY <1>1, <1>7, <1>8, <2>1, <3>2 DEF Decided
  <2> QED BY <1>1, <1>7, <1>9, <2>1 DEF WorkerFits, Sending, Decided
<1>18. RequestsFit'
  <2>1. ASSUME NEW s \in command'.pending, sends[s].serial = command'.latest.serial
        PROVE  IF UnderWay(s)'
                 THEN /\ Goal(s)' <=> s \in command'.latest.desired
                      /\ ~Unrecorded(s)' => command'.flights[s].serial = command'.latest.serial
                 ELSE s \in latch' <=> s \in command'.latest.desired
    <3>1. s \in command.pending /\ s \in Sides /\ command'.latest = command.latest /\ sends[s].serial = command.latest.serial
      BY <1>2, <1>7, <1>8, <2>1 DEF Types, Orders, Decided
    <3>2. CASE command'.flights[s] = command.flights[s]
      <4>1. (UnderWay(s)' <=> UnderWay(s)) /\ (Goal(s)' <=> Goal(s)) /\ (Unrecorded(s)' <=> Unrecorded(s))
        BY <1>11, <3>1, <3>2, AimKept
      <4> QED BY <1>1, <3>1, <3>2, <4>1 DEF IInv, RequestsFit
    <3>3. CASE Acknowledged(command.flights[s], cache, s) /\ ~command'.flights[s].active
      <4>1. Goal(s) <=> s \in command.latest.desired
        BY <1>13, <3>1, <3>3 DEF IInv, RequestsFit
      <4> QED BY <1>1, <1>13, <1>15, <3>1, <3>3, <4>1
    <3> QED BY <1>7, <1>8, <3>1, <3>2, <3>3 DEF Decided
  <2>2. \A s \in Sides : sends[s].serial <= command.latest.serial
    BY DEF IInv, RequestsFit
  <2>3. command.latest.serial \in Nat
    BY <1>2 DEF Types, Orders, Terms
  <2>4. Sending' =>
          /\ worker'.decision.serial <= command'.latest.serial
          /\ \A s \in Sides : sends[s].serial <= worker'.decision.serial
          /\ \A s \in worker'.left \cap command'.pending : s \in worker'.decision.desired <=> s \in command'.latest.desired
    BY <1>7, <1>8, <1>9, <2>2, <2>3 DEF Sending, Decided
  <2> QED BY <1>1, <1>8, <1>9, <2>1, <2>2, <2>4 DEF RequestsFit
<1>19. Yielding'
  BY <1>1, <1>6, <1>7, <1>9 DEF Yielding, Sending, Decided
<1> QED BY <1>10, <1>12, <1>16, <1>17, <1>18, <1>19 DEF IInv
-----------------------------------------------------------------------------
(* The worker's next side, or its rest.                                    *)
LEMMA DoneKeeps ==
  Types /\ worker.left # {} /\ worker' = Done =>
    /\ worker' \in Workers
    /\ \/ worker'.at = "wait"
       \/ /\ worker'.at = "check" /\ worker'.decision = worker.decision
          /\ worker'.left = worker.left \ {Side} /\ worker'.left # {}
<1> SUFFICES ASSUME Types, worker.left # {}, worker' = Done
             PROVE  /\ worker' \in Workers
                    /\ \/ worker'.at = "wait"
                       \/ /\ worker'.at = "check" /\ worker'.decision = worker.decision
                          /\ worker'.left = worker.left \ {Side} /\ worker'.left # {}
  OBVIOUS
<1>1. AtRest \in Workers /\ AtRest.at = "wait"
  <2>1. NoSample \in Samples /\ NoDecision \in Decisions /\ 0 \in 0..Stall
    BY TaxiAssumption DEF NoSample, Samples, NoDecision, Decisions, Ages
  <2> QED BY <2>1 DEF AtRest, Workers, Speeds
<1>2. worker \in Workers /\ worker.left \ {Side} \in SUBSET Sides
  BY DEF Types, Workers
<1>3. CASE worker.left = {Side}
  BY <1>1, <1>3 DEF Done
<1>4. CASE worker.left # {Side}
  <2>1. worker' = [worker EXCEPT !.at = "check", !.left = worker.left \ {Side}]
    BY <1>2, <1>4 DEF Done, Workers
  <2>2. worker.left \ {Side} # {}
    BY <1>4, SideLeft
  <2> QED BY <1>2, <2>1, <2>2 DEF Workers
<1> QED BY <1>3, <1>4

(* What the worker turns to next was already known of.                     *)
LEMMA NextSide ==
  /\ IInv /\ Sending /\ worker' = Done /\ Types' /\ latch' = latch /\ cache' = cache /\ control' = control
  /\ pipe' = pipe /\ sends' = sends
  /\ cutoff'.over = cutoff.over /\ cutoff'.pending = cutoff.pending
  /\ command'.latest.serial = command.latest.serial /\ command'.pending \subseteq command.pending
  /\ command'.pending # {} => command'.latest = command.latest
  /\ \A s \in Sides \ {Side} : command'.flights[s] = command.flights[s]
  => /\ CallsFit' /\ WorkerFits' /\ Yielding'
     /\ Sending' =>
          /\ worker'.decision.serial <= command'.latest.serial
          /\ \A s \in Sides : sends'[s].serial <= worker'.decision.serial
          /\ \A s \in worker'.left \cap command'.pending :
               worker'.decision.serial = command'.latest.serial =>
                 (s \in worker'.decision.desired <=> s \in command'.latest.desired)
<1> SUFFICES ASSUME IInv, Sending, worker' = Done, Types', latch' = latch, cache' = cache, control' = control,
                    pipe' = pipe, sends' = sends, cutoff'.over = cutoff.over, cutoff'.pending = cutoff.pending,
                    command'.latest.serial = command.latest.serial, command'.pending \subseteq command.pending,
                    command'.pending # {} => command'.latest = command.latest,
                    \A s \in Sides \ {Side} : command'.flights[s] = command.flights[s]
             PROVE  /\ CallsFit' /\ WorkerFits' /\ Yielding'
                    /\ Sending' =>
                         /\ worker'.decision.serial <= command'.latest.serial
                         /\ \A s \in Sides : sends'[s].serial <= worker'.decision.serial
                         /\ \A s \in worker'.left \cap command'.pending :
                              worker'.decision.serial = command'.latest.serial =>
                                (s \in worker'.decision.desired <=> s \in command'.latest.desired)
  OBVIOUS
<1>1. Types /\ worker.left # {} /\ worker.left \subseteq Sides
  BY DEF IInv, WorkerFits, Types, Workers
<1>2. \/ worker'.at = "wait"
      \/ /\ worker'.at = "check" /\ worker'.decision = worker.decision
         /\ worker'.left = worker.left \ {Side} /\ worker'.left # {}
  BY <1>1, DoneKeeps
<1>3. CallsFit'
  BY DEF CallsFit, IInv, aircraft_buttons
<1>4. WorkerFits'
  <2>1. \A s \in worker.left \ {Side} : /\ ~command'.flights[s].active
                                        /\ ~(s \in latch <=> s \in worker.decision.desired)
    BY <1>1 DEF IInv, WorkerFits, Unrecorded
  <2> QED BY <1>2, <2>1 DEF IInv, WorkerFits, Sending
<1>5. Yielding'
  BY <1>2 DEF IInv, Yielding, Sending
<1>6. Sending' =>
        /\ worker'.decision.serial <= command'.latest.serial
        /\ \A s \in Sides : sends'[s].serial <= worker'.decision.serial
        /\ \A s \in worker'.left \cap command'.pending :
             worker'.decision.serial = command'.latest.serial =>
               (s \in worker'.decision.desired <=> s \in command'.latest.desired)
  BY <1>2 DEF IInv, RequestsFit, Sending
<1> QED BY <1>3, <1>4, <1>5, <1>6

(* The recheck: an event that passes is the first its request sends there. *)
LEMMA CheckKeeps == \A ready \in BOOLEAN : IInv /\ check(ready) => IInv'
<1> SUFFICES ASSUME NEW ready \in BOOLEAN, IInv, check(ready) PROVE IInv'
  OBVIOUS
<1>1. /\ worker.at = "check"
      /\ worker' = IF ready /\ current(worker.decision, Side) THEN [worker EXCEPT !.at = "transmit"] ELSE Done
      /\ UNCHANGED <<control, latch, pipe, inbox, packets, cache, identity, cutoff, command, sends>>
  BY DEF check
<1>2. Types /\ NumbersLeft /\ Sending /\ worker \in Workers
  BY <1>1 DEF IInv, Sending, Types
<1>3. worker.left # {} /\ worker.left \subseteq Sides /\ Side \in worker.left /\ Side \in Sides
  <2>1. worker.left # {}
    BY <1>2 DEF IInv, WorkerFits
  <2> QED BY <1>2, <2>1, SideLeft DEF Workers
<1>4. CASE worker' = [worker EXCEPT !.at = "transmit"] /\ current(worker.decision, Side)
  <2>1. /\ worker' \in Workers /\ worker'.at = "transmit" /\ worker'.left = worker.left
        /\ worker'.decision = worker.decision /\ Side' = Side
    BY <1>2, <1>4, SideSame DEF Workers
  <2>2. Types' /\ NumbersLeft' /\ Apart /\ CacheStays
    BY <1>1, <1>2, <2>1 DEF Types, NumbersLeft, Queued, Apart, CacheStays
  <2>3. CallsMove(0) /\ SamplesMove(0) /\ RefusedMove(0)
    BY <1>1, <1>2, PipeSame, InboxSame
  <2>4. EventsFit' /\ RefusalsFit'
    BY <1>1, <1>2, <2>2, <2>3, EventsFrame, RefusalsFrame DEF IInv
  <2>5. \A s \in Sides : /\ (UnderWay(s)' <=> UnderWay(s)) /\ (Goal(s)' <=> Goal(s))
                         /\ ~Unrecorded(s) /\ ~Unrecorded(s)'
    BY <1>1, <2>1, <2>2, AimKept DEF Unrecorded
  <2>6. CallsFit' /\ WorkerFits' /\ Yielding'
    BY <1>1, <1>2, <1>3, <2>1, <2>5 DEF CallsFit, WorkerFits, Yielding, IInv, aircraft_buttons, Sending
  <2>7. Side \notin worker.decision.cutoff => sends[Side].serial # worker.decision.serial
    <3> SUFFICES ASSUME Side \notin worker.decision.cutoff, sends[Side].serial = worker.decision.serial PROVE FALSE
      OBVIOUS
    <3>1. worker.decision.serial = command.latest.serial /\ Side \in command.pending /\ ~command.flights[Side].active
      BY <1>4 DEF current
    <3>2. ~UnderWay(Side)
      BY <1>3, <2>5, <3>1 DEF UnderWay
    <3>3. Side \in latch <=> Side \in command.latest.desired
      BY <3>1, <3>2 DEF IInv, RequestsFit
    <3>4. Side \in worker.decision.desired <=> Side \in command.latest.desired
      BY <1>2, <1>3, <3>1 DEF IInv, RequestsFit
    <3>5. ~(Side \in latch <=> Side \in worker.decision.desired)
      BY <1>2, <1>3, <2>5 DEF IInv, WorkerFits
    <3> QED BY <3>3, <3>4, <3>5
  <2>8. RequestsFit'
    <3>1. command.pending \subseteq Sides
      BY <1>2 DEF Types, Orders
    <3>2. \A s \in command.pending : sends[s].serial = command.latest.serial =>
            IF UnderWay(s)'
              THEN /\ Goal(s)' <=> s \in command.latest.desired
                   /\ ~Unrecorded(s)' => command.flights[s].serial = command.latest.serial
              ELSE s \in latch <=> s \in command.latest.desired
      BY <2>5, <3>1 DEF IInv, RequestsFit
    <3>3. /\ worker.decision.serial <= command.latest.serial
          /\ \A s \in Sides : sends[s].serial <= worker.decision.serial
          /\ \A s \in Sides : sends[s].serial <= command.latest.serial
          /\ \A s \in worker.left \cap command.pending :
               worker.decision.serial = command.latest.serial =>
                 (s \in worker.decision.desired <=> s \in command.latest.desired)
      BY <1>2 DEF IInv, RequestsFit
    <3> QED BY <1>1, <2>1, <2>7, <3>2, <3>3 DEF RequestsFit
  <2> QED BY <2>2, <2>4, <2>6, <2>8 DEF IInv
<1>5. CASE worker' = Done
  <2>1. worker' \in Workers /\ worker'.at \in {"wait", "check"}
    BY <1>2, <1>3, <1>5, DoneKeeps
  <2>2. Types' /\ NumbersLeft' /\ Apart /\ CacheStays
    BY <1>1, <1>2, <2>1 DEF Types, NumbersLeft, Queued, Apart, CacheStays
  <2>3. CallsMove(0) /\ SamplesMove(0) /\ RefusedMove(0)
    BY <1>1, <1>2, PipeSame, InboxSame
  <2>4. EventsFit' /\ RefusalsFit'
    BY <1>1, <1>2, <2>2, <2>3, EventsFrame, RefusalsFrame DEF IInv
  <2>5. /\ CallsFit' /\ WorkerFits' /\ Yielding'
        /\ Sending' =>
             /\ worker'.decision.serial <= command'.latest.serial
             /\ \A s \in Sides : sends'[s].serial <= worker'.decision.serial
             /\ \A s \in worker'.left \cap command'.pending :
                  worker'.decision.serial = command'.latest.serial =>
                    (s \in worker'.decision.desired <=> s \in command'.latest.desired)
    BY <1>1, <1>2, <1>5, <2>2, NextSide
  <2>6. \A s \in Sides : /\ (UnderWay(s)' <=> UnderWay(s)) /\ (Goal(s)' <=> Goal(s))
                         /\ (Unrecorded(s)' <=> Unrecorded(s))
    BY <1>1, <2>2, AimKept
  <2>7. RequestsFit'
    <3>1. command.pending \subseteq Sides
      BY <1>2 DEF Types, Orders
    <3>2. \A s \in command.pending : sends[s].serial = command.latest.serial =>
            IF UnderWay(s)'
              THEN /\ Goal(s)' <=> s \in command.latest.desired
                   /\ ~Unrecorded(s)' => command.flights[s].serial = command.latest.serial
              ELSE s \in latch <=> s \in command.latest.desired
      BY <2>6, <3>1 DEF IInv, RequestsFit
    <3>3. \A s \in Sides : sends[s].serial <= command.latest.serial
      BY DEF IInv, RequestsFit
    <3>4. worker'.at # "transmit"
      BY <2>1
    <3> QED BY <1>1, <2>5, <3>2, <3>3, <3>4 DEF RequestsFit
  <2> QED BY <2>2, <2>4, <2>5, <2>7 DEF IInv
<1> QED BY <1>1, <1>4, <1>5
-----------------------------------------------------------------------------
(* The call: an accepted one is on its way, the only one for its side, and *)
(* under a number nothing else has.                                        *)
LEMMA TransmitKeeps == \A accepted, tracked \in BOOLEAN : IInv /\ transmit(accepted, tracked) => IInv'
<1> SUFFICES ASSUME NEW accepted \in BOOLEAN, NEW tracked \in BOOLEAN, IInv, transmit(accepted, tracked) PROVE IInv'
  OBVIOUS
<1> DEFINE d == worker.decision
           call == Call("command", Side, {Side} \cap d.desired, FreshId)
           record_of(r) == [serial |-> d.serial, count |-> IF r.serial = d.serial THEN 2 ELSE 1]
<1>1. /\ worker.at = "transmit" /\ (accepted => Queued < MaxQueued + 2)
      /\ pipe' = IF accepted THEN Append(pipe, call) ELSE pipe
      /\ packets' = [packets EXCEPT ![Side] = IF accepted /\ tracked THEN FreshId ELSE 0]
      /\ worker' = [worker EXCEPT !.at = IF accepted THEN "accepted" ELSE "refused"]
      /\ sends' = IF ~accepted \/ Side \in d.cutoff THEN sends
                  ELSE [sends EXCEPT ![Side] = record_of(sends[Side])]
      /\ UNCHANGED <<control, latch, inbox, cache, identity, cutoff, command>>
  BY Zenon DEF transmit
<1>2. Types /\ NumbersLeft /\ Sending /\ worker \in Workers /\ d \in Decisions
  BY <1>1 DEF IInv, Sending, Types, Workers
<1>3. worker.left # {} /\ worker.left \subseteq Sides /\ Side \in worker.left /\ Side \in Sides
  <2>1. worker.left # {}
    BY <1>2 DEF IInv, WorkerFits
  <2> QED BY <1>2, <2>1, SideLeft DEF Workers
<1>4. FreshId \in Nat /\ FreshId # 0 /\ FreshId \notin Used
  BY <1>2, FreshNumber
<1>5. /\ \A i \in DOMAIN pipe : pipe[i].id # FreshId
      /\ \A i \in DOMAIN inbox : inbox[i].id # FreshId
      /\ \A s \in Sides : packets[s] # FreshId
  BY <1>4 DEF Used, ToSet
<1>6. /\ call \in Calls /\ call.kind = "command" /\ call.side = Side /\ call.id = FreshId
      /\ call.on \subseteq {Side} /\ (call.on # {} <=> Side \in d.desired)
  BY <1>2, <1>3, <1>4 DEF Call, Calls, Decisions
<1> HIDE DEF call
<1>7. /\ worker' \in Workers /\ worker'.at = (IF accepted THEN "accepted" ELSE "refused")
      /\ worker'.left = worker.left /\ worker'.decision = d /\ Side' = Side
  BY <1>1, <1>2, SideSame DEF Workers
<1>8. /\ sends' \in [Sides -> [serial : Nat, count : {0, 1}]]
      /\ \A s \in Sides \ {Side} : sends'[s] = sends[s]
      /\ sends'[Side].serial \in {sends[Side].serial, d.serial}
      /\ accepted /\ Side \notin d.cutoff => sends'[Side].serial = d.serial
  <2>1. sends \in [Sides -> [serial : Nat, count : {0, 1}]] /\ d.serial \in Nat
    BY <1>2 DEF Types, Decisions
  <2>2. CASE ~accepted \/ Side \in d.cutoff
    BY <1>1, <1>3, <2>1, <2>2
  <2>3. CASE accepted /\ Side \notin d.cutoff
    <3>1. sends[Side].serial # d.serial
      BY <1>1, <2>3 DEF IInv, RequestsFit
    <3>2. sends' = [sends EXCEPT ![Side] = [serial |-> d.serial, count |-> 1]]
      BY <1>1, <2>3, <3>1
    <3> QED BY <1>3, <2>1, <3>2
  <2> QED BY <2>2, <2>3
<1> HIDE DEF record_of
<1>9. /\ pipe' \in Seq(Calls) /\ Len(pipe') = Len(pipe) + (IF accepted THEN 1 ELSE 0)
      /\ \A i \in DOMAIN pipe : i \in DOMAIN pipe' /\ pipe'[i] = pipe[i]
      /\ \A i \in DOMAIN pipe' : \/ i \in DOMAIN pipe /\ pipe'[i] = pipe[i]
                                 \/ accepted /\ i = Len(pipe) + 1 /\ pipe'[i] = call
      /\ ~accepted => pipe' = pipe
  BY <1>1, <1>2, <1>6 DEF Types
<1>10. Types' /\ NumbersLeft'
  <2>1. packets' \in [Sides -> Nat]
    BY <1>1, <1>2, <1>4 DEF Types
  <2>2. Types'
    BY <1>1, <1>2, <1>7, <1>8, <1>9, <2>1 DEF Types
  <2>3. NumbersLeft'
    <3>1. /\ Len(pipe) \in Nat /\ Len(inbox) \in Nat /\ inbox' = inbox /\ MaxQueued \in Nat
          /\ Len(pipe) + Len(inbox) <= MaxQueued + 2 /\ (accepted => Len(pipe) + Len(inbox) < MaxQueued + 2)
      BY <1>1, <1>2, QueueTypes, TaxiAssumption DEF NumbersLeft, Queued
    <3>2. Len(pipe') = Len(pipe) \/ (accepted /\ Len(pipe') = Len(pipe) + 1)
      BY <1>9
    <3>3. Len(pipe') + Len(inbox) <= MaxQueued + 2
      BY <3>1, <3>2
    <3> QED BY <3>1, <3>3 DEF NumbersLeft, Queued
  <2> QED BY <2>2, <2>3
<1>11. CallsFit'
  <2>1. aircraft_buttons
    BY <1>2 DEF IInv, CallsFit
  <2> QED BY <1>1, <1>3, <1>6, <1>9, <2>1 DEF IInv, CallsFit, aircraft_buttons
<1>12. /\ ~command.flights[Side].active /\ ~UnderWay(Side) /\ Quiet(Side)
       /\ ~(Side \in latch <=> Side \in d.desired)
       /\ \A s \in Sides : ~Unrecorded(s)
  <2>1. \A s \in Sides : ~Unrecorded(s)
    BY <1>1 DEF Unrecorded
  <2>2. ~command.flights[Side].active /\ ~(Side \in latch <=> Side \in d.desired)
    BY <1>2, <1>3, <2>1 DEF IInv, WorkerFits
  <2>3. ~UnderWay(Side)
    BY <1>3, <2>1, <2>2 DEF UnderWay
  <2> QED BY <1>3, <2>1, <2>2, <2>3 DEF IInv, EventsFit, SideFits
<1>13. \A s \in Sides : s # Side \/ ~accepted => ~Unrecorded(s)' /\ (UnderWay(s)' <=> UnderWay(s)) /\ (Goal(s)' <=> Goal(s))
                                                 /\ Since(s)' = Since(s)
  BY <1>1, <1>7, <1>12 DEF Unrecorded, UnderWay, Goal, Since
<1>14. accepted => Unrecorded(Side)' /\ UnderWay(Side)' /\ (Goal(Side)' <=> Side \in d.desired) /\ Since(Side)' = cache.age
  BY <1>2, <1>7 DEF IInv, WorkerFits, Unrecorded, UnderWay, Goal, Since
<1>15. Seen' = Seen /\ \A s \in Sides : \A i \in Seen : On(i, s)' <=> On(i, s)
  BY <1>1 DEF Seen, On
<1>16. ASSUME NEW s \in Sides, s # Side \/ ~accepted PROVE SideFits(s)' /\ RefusalFits(s)'
  <2>1. Commands(s)' = Commands(s) /\ \A i \in Commands(s) : pipe'[i] = pipe[i]
    BY <1>6, <1>9, <1>16 DEF Commands
  <2>2. (UnderWay(s)' <=> UnderWay(s)) /\ (Goal(s)' <=> Goal(s)) /\ Since(s)' = Since(s)
    BY <1>13, <1>16
  <2>3. SideFits(s) /\ RefusalFits(s)
    BY DEF IInv, EventsFit, RefusalsFit
  <2>4. SideFits(s)'
    <3>1. CASE UnderWay(s)
      <4>1. Turning(s)
        BY <2>3, <3>1 DEF SideFits
      <4>2. Turning(s)'
        BY <1>1, <1>15, <2>1, <2>2, <4>1 DEF Turning
      <4> QED BY <2>2, <3>1, <4>2 DEF SideFits
    <3>2. CASE ~UnderWay(s)
      <4>1. Quiet(s)
        BY <2>3, <3>2 DEF SideFits
      <4>2. Quiet(s)'
        BY <1>1, <1>15, <2>1, <4>1 DEF Quiet
      <4> QED BY <2>2, <3>2, <4>2 DEF SideFits
    <3> QED BY <3>1, <3>2
  <2>5. packets'[s] \in {0, packets[s]}
    BY <1>1, <1>2, <1>16 DEF Types
  <2>6. \A t \in Sides : \A i \in Commands(t)' : packets'[s] # 0 /\ pipe'[i].id = packets'[s] => s = t
    <3> SUFFICES ASSUME NEW t \in Sides, NEW i \in Commands(t)', packets'[s] # 0, pipe'[i].id = packets'[s]
                 PROVE  s = t
      OBVIOUS
    <3>1. packets'[s] = packets[s] /\ packets[s] # FreshId
      BY <1>5, <2>5
    <3>2. i \in DOMAIN pipe /\ pipe'[i] = pipe[i]
      BY <1>6, <1>9, <3>1 DEF Commands
    <3>3. i \in Commands(t)
      BY <3>2 DEF Commands
    <3> QED BY <2>3, <3>1, <3>2, <3>3 DEF RefusalFits
  <2>7. RefusalFits(s)'
    BY <1>1, <2>1, <2>2, <2>3, <2>5, <2>6 DEF RefusalFits
  <2> QED BY <2>4, <2>7
<1>17. ASSUME accepted PROVE SideFits(Side)' /\ RefusalFits(Side)'
  <2>1. \A i \in Commands(Side)' : i = Len(pipe) + 1 /\ pipe'[i] = call
    <3>1. Commands(Side) = {}
      BY <1>12 DEF Quiet
    <3> QED BY <1>7, <1>9, <3>1 DEF Commands
  <2>2. /\ UnderWay(Side)' /\ (Goal(Side)' <=> Side \in d.desired) /\ Since(Side)' = cache.age
        /\ (Side \in latch' <=> Side \in latch)
    BY <1>1, <1>14, <1>17
  <2>3. \A i \in Seen' : ~(On(i, Side)' <=> Goal(Side)')
    BY <1>3, <1>7, <1>12, <1>15, <2>2 DEF Quiet
  <2>4. Turning(Side)'
    <3>1. ~(cache'.age < Since(Side)')
      <4>1. cache.age \in Nat /\ cache' = cache
        BY <1>1, <1>2, TaxiAssumption DEF Types, Samples, Ages
      <4> QED BY <2>2, <4>1
    <3>2. \A i, j \in Commands(Side)' : i = j
      BY <2>1
    <3>3. \A i \in Commands(Side)' : (pipe'[i].on # {} <=> Goal(Side)') /\ ~(Side \in latch' <=> Goal(Side)')
      BY <1>6, <1>12, <2>1, <2>2
    <3> QED BY <1>7, <2>3, <3>1, <3>2, <3>3 DEF Turning
  <2>5. packets'[Side] \in {0, FreshId}
    BY <1>1, <1>2, <1>3 DEF Types
  <2>6. \A t \in Sides : \A i \in Commands(t)' : packets'[Side] # 0 /\ pipe'[i].id = packets'[Side] => Side = t
    <3> SUFFICES ASSUME NEW t \in Sides, NEW i \in Commands(t)', pipe'[i].id = FreshId PROVE Side = t
      BY <2>5
    <3>1. i \in DOMAIN pipe' /\ pipe'[i].side = t
      BY DEF Commands
    <3> QED BY <1>5, <1>6, <1>9, <3>1
  <2>7. \A i \in DOMAIN inbox' : ~(packets'[Side] # 0 /\ inbox'[i].id = packets'[Side])
    BY <1>1, <1>5, <2>5
  <2>8. RefusalFits(Side)'
    BY <1>7, <2>6, <2>7 DEF RefusalFits
  <2>9. SideFits(Side)'
    BY <1>7, <2>2, <2>4 DEF SideFits
  <2> QED BY <2>8, <2>9
<1>18. EventsFit' /\ RefusalsFit'
  <2>1. ASSUME NEW s \in Sides PROVE SideFits(s)' /\ RefusalFits(s)'
    <3>1. CASE s = Side /\ accepted
      BY <1>7, <1>17, <3>1
    <3>2. CASE s # Side \/ ~accepted
      BY <1>16, <3>2
    <3> QED BY <3>1, <3>2
  <2> QED BY <2>1 DEF EventsFit, RefusalsFit
<1>19. WorkerFits'
  <2>1. \A s \in worker.left : ~command.flights[s].active /\ ~(s \in latch <=> s \in d.desired)
    BY <1>2, <1>3, <1>12 DEF IInv, WorkerFits
  <2> QED BY <1>1, <1>2, <1>7, <2>1 DEF IInv, WorkerFits
<1>20. RequestsFit'
  <2>1. /\ d.serial <= command.latest.serial
        /\ \A s \in Sides : sends[s].serial <= d.serial
        /\ \A s \in Sides : sends[s].serial <= command.latest.serial
        /\ \A s \in worker.left \cap command.pending :
             d.serial = command.latest.serial => (s \in d.desired <=> s \in command.latest.desired)
    BY <1>2 DEF IInv, RequestsFit
  <2>2. d.serial \in Nat /\ command.latest.serial \in Nat /\ \A s \in Sides : sends[s].serial \in Nat
    BY <1>2 DEF Types, Decisions, Orders, Terms
  <2>3. \A s \in Sides : sends'[s].serial <= command.latest.serial /\ sends'[s].serial <= d.serial
    BY <1>8, <2>1, <2>2
  <2>4. ASSUME NEW s \in command.pending, sends'[s].serial = command.latest.serial
        PROVE  IF UnderWay(s)'
                 THEN /\ Goal(s)' <=> s \in command.latest.desired
                      /\ ~Unrecorded(s)' => command.flights[s].serial = command.latest.serial
                 ELSE s \in latch <=> s \in command.latest.desired
    <3>1. s \in Sides
      BY <1>2 DEF Types, Orders
    <3>2. CASE s = Side /\ accepted
      <4>1. d.serial = command.latest.serial
        BY <1>3, <2>1, <2>2, <2>3, <2>4, <3>2
      <4> QED BY <1>3, <1>7, <1>14, <2>1, <3>2, <4>1
    <3>3. CASE s # Side \/ ~accepted
      <4>1. sends'[s] = sends[s]
        BY <1>1, <1>8, <3>1, <3>3
      <4> QED BY <1>12, <1>13, <2>4, <3>1, <3>3, <4>1 DEF IInv, RequestsFit
    <3> QED BY <3>2, <3>3
  <2>5. worker'.at # "transmit"
    BY <1>7
  <2> QED BY <1>1, <1>7, <2>1, <2>3, <2>4, <2>5 DEF RequestsFit
<1>21. Yielding'
  BY <1>1, <1>2, <1>7 DEF IInv, Yielding
<1> QED BY <1>10, <1>11, <1>18, <1>19, <1>20, <1>21 DEF IInv

(* The record: an accepted event is now known by the command, as it was by *)
(* the worker.                                                             *)
LEMMA RecordKeeps == IInv /\ record => IInv'
<1> SUFFICES ASSUME IInv, record PROVE IInv'
  OBVIOUS
<1> DEFINE d == worker.decision
           accepted == worker.at = "accepted"
           flight == [active |-> TRUE, desired |-> Side \in d.desired, sample |-> d.sample, sent |-> 0, serial |-> d.serial]
           flown == [command EXCEPT !.flights[Side] = flight]
           next == sent(d, Side, accepted)
<1>1. /\ worker.at \in {"accepted", "refused"}
      /\ command' = Settled(next)
      /\ cutoff' = IF accepted /\ Side \in d.cutoff THEN [cutoff EXCEPT !.waiting = @ \cup {Side}] ELSE cutoff
      /\ worker' = Done
      /\ UNCHANGED <<control, latch, pipe, inbox, packets, cache, identity, sends>>
  BY Zenon DEF record
<1>2. Types /\ NumbersLeft /\ Sending /\ worker \in Workers /\ d \in Decisions /\ command \in Orders
  BY <1>1 DEF IInv, Sending, Types, Workers
<1>3. worker.left # {} /\ worker.left \subseteq Sides /\ Side \in worker.left /\ Side \in Sides
  <2>1. worker.left # {}
    BY <1>2 DEF IInv, WorkerFits
  <2> QED BY <1>2, <2>1, SideLeft DEF Workers
<1>4. /\ flown \in Orders /\ flown.latest = command.latest /\ flown.pending = command.pending
      /\ flown.flights[Side] = flight /\ \A s \in Sides \ {Side} : flown.flights[s] = command.flights[s]
  <2>1. flight \in Flights
    BY <1>2, TaxiAssumption DEF Decisions, Flights, Ages
  <2> HIDE DEF flight
  <2> QED BY <1>2, <1>3, <2>1 DEF Orders
<1>5. flight.active = TRUE /\ (flight.desired <=> Side \in d.desired) /\ flight.sample = d.sample /\ flight.serial = d.serial
  OBVIOUS
<1>6. next = IF accepted THEN flown ELSE IF Side \notin d.cutoff /\ d.serial = command.latest.serial THEN Fail(command) ELSE command
  BY DEF sent
<1> HIDE DEF flight, flown, next
<1>7. /\ next \in Orders /\ next.latest = command.latest /\ next.pending \subseteq command.pending
      /\ \A s \in Sides \ {Side} : next.flights[s] = command.flights[s]
      /\ next.flights[Side] = IF accepted THEN flight ELSE command.flights[Side]
  <2>1. CASE accepted
    BY <1>4, <1>6, <2>1
  <2>2. CASE ~accepted
    <3>1. next = command \/ next = Fail(command)
      BY <1>6, <2>2
    <3> QED BY <1>2, <2>2, <3>1, FailKeeps
  <2> QED BY <2>1, <2>2
<1>8. /\ command' \in Orders /\ command'.latest.serial = command.latest.serial
      /\ command'.pending \subseteq command.pending
      /\ command'.pending # {} => command'.latest = command.latest
      /\ \A s \in Sides \ {Side} : command'.flights[s] = command.flights[s]
      /\ command'.flights[Side] = IF accepted THEN flight ELSE command.flights[Side]
  BY <1>1, <1>7, SettledKeeps
<1>9. worker' \in Workers /\ worker'.at \in {"wait", "check"}
  BY <1>1, <1>2, <1>3, DoneKeeps
<1>10. cutoff' \in Cutoffs /\ cutoff'.over = cutoff.over /\ cutoff'.pending = cutoff.pending
  BY <1>1, <1>2, <1>3 DEF Types, Cutoffs
<1>11. Types' /\ NumbersLeft'
  BY <1>1, <1>2, <1>8, <1>9, <1>10 DEF Types, NumbersLeft, Queued
<1>12. CallsMove(0) /\ SamplesMove(0) /\ RefusedMove(0)
  BY <1>1, <1>2, PipeSame, InboxSame
<1>13. ASSUME NEW s \in Sides
       PROVE  /\ ~Unrecorded(s)'
              /\ (UnderWay(s)' <=> UnderWay(s)) /\ (UnderWay(s) => (Goal(s)' <=> Goal(s)) /\ Since(s)' = Since(s))
  <2>1. ~Unrecorded(s)'
    BY <1>9 DEF Unrecorded
  <2>2. CASE s = Side /\ accepted
    BY <1>5, <1>8, <2>1, <2>2 DEF Unrecorded, UnderWay, Goal, Since
  <2>3. CASE ~(s = Side /\ accepted)
    <3>1. ~Unrecorded(s) /\ command'.flights[s] = command.flights[s]
      BY <1>8, <2>3 DEF Unrecorded
    <3> QED BY <2>1, <3>1 DEF UnderWay, Goal, Since
  <2> QED BY <2>2, <2>3
<1>14. ASSUME NEW s \in Sides PROVE SideFits(s)' /\ RefusalFits(s)'
  <2>1. AimStays(s) /\ CacheMoves(s) /\ LatchStays(s)
    BY <1>1, <1>13 DEF AimStays, CacheMoves, LatchStays
  <2>2. SideFits(s)'
    BY <1>2, <1>11, <1>12, <2>1, SideFrame DEF IInv, EventsFit
  <2> QED BY <1>1, <1>12, <1>13, <2>1, <2>2, RefusalFrame DEF IInv, RefusalsFit
<1>15. EventsFit' /\ RefusalsFit'
  BY <1>14 DEF EventsFit, RefusalsFit
<1>16. /\ CallsFit' /\ WorkerFits' /\ Yielding'
       /\ Sending' =>
            /\ worker'.decision.serial <= command'.latest.serial
            /\ \A s \in Sides : sends'[s].serial <= worker'.decision.serial
            /\ \A s \in worker'.left \cap command'.pending :
                 worker'.decision.serial = command'.latest.serial =>
                   (s \in worker'.decision.desired <=> s \in command'.latest.desired)
  BY <1>1, <1>2, <1>8, <1>10, <1>11, NextSide
<1>17. RequestsFit'
  <2>1. ASSUME NEW s \in command'.pending, sends[s].serial = command'.latest.serial
        PROVE  IF UnderWay(s)'
                 THEN /\ Goal(s)' <=> s \in command'.latest.desired
                      /\ ~Unrecorded(s)' => command'.flights[s].serial = command'.latest.serial
                 ELSE s \in latch <=> s \in command'.latest.desired
    <3>1. s \in command.pending /\ s \in Sides /\ command'.latest = command.latest /\ sends[s].serial = command.latest.serial
      BY <1>2, <1>8, <2>1 DEF Orders
    <3>2. IF UnderWay(s)
            THEN /\ Goal(s) <=> s \in command.latest.desired
                 /\ ~Unrecorded(s) => command.flights[s].serial = command.latest.serial
            ELSE s \in latch <=> s \in command.latest.desired
      BY <3>1 DEF IInv, RequestsFit
    <3>3. UnderWay(s) => command'.flights[s].serial = command.latest.serial
      <4>1. CASE s = Side /\ accepted
        <5>1. d.serial <= command.latest.serial /\ sends[s].serial <= d.serial
          BY <1>2, <3>1 DEF IInv, RequestsFit
        <5>2. d.serial \in Nat /\ command.latest.serial \in Nat
          BY <1>2 DEF Decisions, Orders, Terms
        <5> QED BY <1>5, <1>8, <3>1, <4>1, <5>1, <5>2
      <4>2. CASE ~(s = Side /\ accepted)
        <5>1. ~Unrecorded(s) /\ command'.flights[s] = command.flights[s]
          BY <1>8, <3>1, <4>2 DEF Unrecorded
        <5> QED BY <3>2, <5>1
      <4> QED BY <4>1, <4>2
    <3> QED BY <1>13, <3>1, <3>2, <3>3
  <2>2. \A s \in Sides : sends[s].serial <= command.latest.serial
    BY DEF IInv, RequestsFit
  <2> QED BY <1>1, <1>8, <1>9, <1>16, <2>1, <2>2 DEF RequestsFit
<1> QED BY <1>11, <1>15, <1>16, <1>17 DEF IInv
-----------------------------------------------------------------------------
(* At first nothing is on its way.                                         *)
LEMMA InitFits == Init => IInv
<1> SUFFICES ASSUME Init PROVE IInv
  OBVIOUS
<1>1. /\ control \in Controls /\ latch \in SUBSET (IF aircraft_buttons THEN Sides ELSE {})
      /\ pipe = <<>> /\ inbox = <<>> /\ packets = [s \in Sides |-> 0]
      /\ cache = NoSample /\ identity = NoIdentity /\ cutoff = Cutoff
      /\ command = [permission |-> FALSE, permitted |-> Never, started |-> Never, latest |-> NoRequest,
                    pending |-> {}, flights |-> [s \in Sides |-> NoFlight]]
      /\ worker = AtRest
      /\ sends = [s \in Sides |-> [serial |-> 0, count |-> 0]]
  BY DEF Init
<1>2. Never \in Ages /\ 0 \in 0..Stall
  BY TaxiAssumption DEF Ages
<1>3. Types
  <2>1. latch \in SUBSET Sides /\ pipe \in Seq(Calls) /\ inbox \in Seq(Replies)
    BY <1>1
  <2>2. cache \in Samples /\ identity \in [known : BOOLEAN, poll : Nat] /\ cutoff \in Cutoffs
    BY <1>1, <1>2 DEF NoSample, Samples, NoIdentity, Cutoff, Cutoffs
  <2>3. command \in Orders
    BY <1>1, <1>2 DEF Orders, NoRequest, Terms, NoFlight, Flights
  <2>4. worker \in Workers
    BY <1>1, <1>2 DEF AtRest, Workers, Speeds, NoSample, Samples, NoDecision, Decisions
  <2> QED BY <1>1, <2>1, <2>2, <2>3, <2>4 DEF Types
<1>4. NumbersLeft
  BY <1>1, TaxiAssumption DEF NumbersLeft, Queued
<1>5. DOMAIN pipe = {} /\ DOMAIN inbox = {} /\ worker.at = "wait" /\ ~Sending
  BY <1>1 DEF AtRest, Sending
<1>6. CallsFit /\ WorkerFits /\ Yielding
  BY <1>5 DEF CallsFit, WorkerFits, Yielding
<1>7. EventsFit
  <2>1. ASSUME NEW s \in Sides PROVE ~UnderWay(s) /\ Quiet(s)
    <3>1. ~UnderWay(s)
      BY <1>1, <1>5 DEF UnderWay, Unrecorded, NoFlight
    <3>2. ~(cache.age < Never)
      BY <1>1, TaxiAssumption DEF NoSample
    <3> QED BY <1>5, <3>1, <3>2 DEF Quiet, Commands, Seen
  <2> QED BY <2>1 DEF EventsFit, SideFits
<1>8. RefusalsFit
  BY <1>5 DEF RefusalsFit, RefusalFits, Commands
<1>9. RequestsFit
  BY <1>1, <1>5 DEF RequestsFit, NoRequest
<1> QED BY <1>3, <1>4, <1>6, <1>7, <1>8, <1>9 DEF IInv

(* Every step of the worker, the settings, SimConnect and time keeps it,   *)
(* as long as nobody else presses a button and a kept connection keeps its *)
(* session.                                                                *)
LEMMA NextKeeps == ASSUME Presses = {}, Resets = {}, IInv, Next PROVE IInv'
<1>1. CASE Worker
  BY <1>1, Zenon, WakeKeeps, SampleKeeps, IdentityKeeps, ExceptionKeeps, ReadKeeps, DecideKeeps, CheckKeeps,
     TransmitKeeps, RecordKeeps DEF Worker
<1>2. CASE \E r \in Requests, permitted \in BOOLEAN : update_taxi_button_request(r, permitted)
  BY <1>2, UpdateKeeps
<1>3. CASE \E epoch \in BOOLEAN : reset_session_locked(epoch)
  BY <1>3 DEF reset_session_locked
<1>4. CASE Answer
  BY <1>4, AnswerKeeps
<1>5. CASE Refuse
  BY <1>5, RefuseKeeps
<1>6. CASE Execute
  BY <1>6, ExecuteKeeps
<1>7. CASE \E s \in Sides : Press(s)
  BY <1>7 DEF Press
<1>8. CASE Tick
  BY <1>8, TickKeeps
<1> QED BY Zenon, <1>1, <1>2, <1>3, <1>4, <1>5, <1>6, <1>7, <1>8 DEF Next

(* Nor does it matter when nothing changes.                                *)
LEMMA StutterKeeps == IInv /\ UNCHANGED vars => IInv'
<1> SUFFICES ASSUME IInv, UNCHANGED vars PROVE IInv'
  OBVIOUS
<1>1. /\ UNCHANGED <<control, latch, pipe, inbox, packets, cache, identity, cutoff, command, worker, sends>>
      /\ Side' = Side
  BY SideSame DEF vars
<1>2. Types /\ NumbersLeft
  BY DEF IInv
<1>3. Types' /\ NumbersLeft'
  BY <1>1, <1>2 DEF Types, NumbersLeft, Queued
<1>4. CallsMove(0) /\ SamplesMove(0) /\ RefusedMove(0) /\ Apart /\ CacheStays
  BY <1>1, <1>2, PipeSame, InboxSame DEF Apart, CacheStays
<1>5. EventsFit' /\ RefusalsFit'
  BY <1>1, <1>2, <1>3, <1>4, EventsFrame, RefusalsFrame DEF IInv
<1>6. CallsFit' /\ WorkerFits' /\ RequestsFit' /\ Yielding'
  BY <1>1, <1>2, <1>4, WorkerFrame, RequestsFrame, SameNarrows DEF IInv, CallsFit, aircraft_buttons, Sending, Yielding
<1> QED BY <1>3, <1>5, <1>6 DEF IInv

(* What is known of each side is enough.                                   *)
LEMMA IInvGivesSafety == IInv => TaxiSafety
<1> SUFFICES ASSUME IInv PROVE TaxiSafety
  OBVIOUS
<1>1. Types
  BY DEF IInv
<1>2. EventsKeepTheirMeaning
  <2> SUFFICES ASSUME NEW q \in ToSet(pipe), q.kind = "command" PROVE (q.side \in latch) # (q.on # {})
    BY DEF EventsKeepTheirMeaning
  <2>1. PICK i \in DOMAIN pipe : q = pipe[i]
    BY DEF ToSet
  <2>2. q.side \in Sides /\ i \in Commands(q.side)
    BY <2>1 DEF IInv, CallsFit, Commands
  <2>3. UnderWay(q.side) /\ Turning(q.side)
    <3>1. SideFits(q.side) /\ ~Quiet(q.side)
      BY <2>2 DEF IInv, EventsFit, Quiet
    <3> QED BY <3>1 DEF SideFits
  <2>4. (q.on # {} <=> Goal(q.side)) /\ ~(q.side \in latch <=> Goal(q.side))
    BY <2>1, <2>2, <2>3 DEF Turning
  <2> QED BY <2>4
<1>3. OneEventPerRequest
  <2>1. \A s \in Sides : sends[s].count \in {0, 1}
    BY <1>1 DEF Types
  <2> QED BY <2>1 DEF OneEventPerRequest
<1>4. OnYieldsToCutoff
  BY DEF IInv, Yielding, Sending, OnYieldsToCutoff
<1> QED BY <1>2, <1>3, <1>4 DEF TaxiSafety

(* The TAXI buttons: whatever SimConnect answers, refuses, delays or fails *)
(* to number, and however the settings change, no event is undone by a     *)
(* second one, no request sends two, and no ON passes the cutoff; as long  *)
(* as pilots leave the buttons alone and a kept connection its session.    *)
THEOREM ButtonsSafe == ASSUME Presses = {}, Resets = {} PROVE Spec => []TaxiSafety
<1>1. Init => IInv
  BY InitFits
<1>2. IInv /\ [Next]_vars => IInv'
  BY NextKeeps, StutterKeeps
<1>3. IInv => TaxiSafety
  BY IInvGivesSafety
<1> QED BY <1>1, <1>2, <1>3, PTL DEF Spec
-----------------------------------------------------------------------------
(* The aircraft session: what the variables are.                           *)
Names        == Crafts \cup {NoCraft}
Sightings    == [world : Nat, flying : BOOLEAN, craft : Names]
Simulators   == [world : Nat \ {0}, busy : SUBSET Session!Begins, craft : Crafts, running : BOOLEAN, changes : Nat]
Lifecycles   == [epoch : Nat, known : BOOLEAN, running : BOOLEAN, pending : SUBSET Session!Begins]
Identities   == [poll : 0..MaxPolls, type : Names, path : Names, value : Names \X Names, fresh : BOOLEAN]
Calibrations == [samples : Nat, counted : BOOLEAN, candidate : Nat, done : BOOLEAN, world : Nat]

(* What events say, and packets carry.                                     *)
Said == ({"begin", "done"} \X Session!Begins) \cup ({"sim"} \X BOOLEAN) \cup ({"loaded"} \X {0})

Parcels ==
  [kind : {"event"}, poll : {0}, what : Said]
  \cup [kind : {"body", "camera"}, poll : {0}, what : Sightings]
  \cup [kind : {"type", "path"}, poll : 1..MaxPolls, what : Crafts]

SessionTypes ==
  /\ sim \in Simulators /\ asked \in SUBSET ({"type", "path"} \X (1..MaxPolls)) /\ session_inbox \in Seq(Parcels)
  /\ link \in {"open", "closing", "closed"} /\ stop \in BOOLEAN
  /\ lifecycle \in Lifecycles /\ session_identity \in Identities
  /\ body \in Sightings /\ camera \in Sightings /\ calibration \in Calibrations
  /\ observed \in [epoch : Nat, world : Nat]

(* A moment of the simulator, and what a sample of it says.                *)
Moments == [world : Nat \ {0}, busy : SUBSET Session!Begins, craft : Crafts]
Now == [world |-> sim.world, busy |-> sim.busy, craft |-> sim.craft]
SampleOf(m) == [world |-> m.world, flying |-> m.busy = {}, craft |-> m.craft]

(* What a packet tells of the moment before it and the moment after.       *)
Says(packet, m, n) ==
  \/ packet.kind \in {"body", "camera"} /\ packet.what \in {Session!NoSample, SampleOf(m)} /\ n = m
  \/ packet.kind \in {"type", "path"} /\ packet.what = m.craft /\ n = m
  \/ /\ packet.kind = "event"
     /\ \/ \E kind \in Session!Begins \ m.busy : packet.what = <<"begin", kind>> /\ n.busy = m.busy \cup {kind}
        \/ \E kind \in m.busy : packet.what = <<"done", kind>> /\ n = [m EXCEPT !.busy = @ \ {kind}]
        \/ packet.what = <<"loaded", 0>> /\ n.busy = m.busy
        \/ \E on \in BOOLEAN : packet.what = <<"sim", on>> /\ n = m

(* What is queued is a path of moments from the one the worker believes in *)
(* to the present, which only events move.                                 *)
Path(h) ==
  /\ h \in Seq(Moments) /\ Len(h) = Len(session_inbox) + 1 /\ h[Len(h)] = Now
  /\ \A i \in 1..Len(session_inbox) : Says(session_inbox[i], h[i], h[i + 1])
  /\ \A i \in 1..Len(h) : (\A j \in i..Len(session_inbox) : session_inbox[j].kind # "event") => h[i] = Now

(* The lifecycle is that of a moment; an epoch somebody saw ready is of    *)
(* its world, and over once anything is loading.                           *)
Told(m) ==
  /\ lifecycle.pending = m.busy /\ observed.epoch <= lifecycle.epoch
  /\ observed.world # 0 /\ observed.epoch = lifecycle.epoch => m.busy = {} /\ observed.world = m.world

(* With nothing loading, whatever is cached is of a moment.                *)
Cached(m) == m.busy = {} =>
  /\ body \in {Session!NoSample, SampleOf(m)} /\ camera \in {Session!NoSample, SampleOf(m)}
  /\ session_identity.type \in {NoCraft, m.craft} /\ session_identity.path \in {NoCraft, m.craft}
  /\ session_identity.value \in {<<NoCraft, NoCraft>>, <<m.craft, m.craft>>}
  /\ session_identity.fresh => session_identity.value = <<m.craft, m.craft>>
  /\ calibration.done => calibration.world = m.world

SessionInv == SessionTypes /\ \E h : Path(h) /\ Told(h[1]) /\ Cached(h[1])

(* What the variables are, wherever it is of use.                          *)
USE DEF Simulators, Lifecycles, Identities, Calibrations
-----------------------------------------------------------------------------
(* The fields of a sample.                                                 *)
LEMMA SampleFields == ASSUME NEW m PROVE /\ SampleOf(m).world = m.world /\ SampleOf(m).craft = m.craft
                                         /\ m.busy = {} => SampleOf(m).flying
BY Zenon DEF SampleOf

(* What the invariant says of the head of the path gives each property.    *)
LEMMA Consequences == SessionInv => AircraftSafety
<1> SUFFICES ASSUME SessionInv PROVE AircraftSafety
  OBVIOUS
<1>1. PICK h : Path(h) /\ Told(h[1]) /\ Cached(h[1])
  BY DEF SessionInv
<1> DEFINE m == h[1]
<1>2. m \in Moments /\ lifecycle.pending = m.busy
  BY <1>1 DEF Path, Told, SessionInv, SessionTypes
<1> HIDE DEF m
<1>3. Cached(m) /\ Told(m)
  BY <1>1 DEF m
<1>4. Session!SamplesAgree
  <2> SUFFICES ASSUME Session!Ready PROVE /\ body.world = camera.world /\ body.flying /\ camera.flying
                                  /\ session_identity.value = <<body.craft, body.craft>>
    BY DEF Session!SamplesAgree
  <2>1. m.busy = {} /\ session_identity.fresh /\ body # Session!NoSample /\ camera # Session!NoSample
    BY <1>2 DEF Session!Ready, Session!Telemetry, Session!loading
  <2>2. body = SampleOf(m) /\ camera = SampleOf(m) /\ session_identity.value = <<m.craft, m.craft>>
    BY <1>3, <2>1 DEF Cached
  <2> QED BY <2>1, <2>2, SampleFields
<1>5. Session!OneWorldPerEpoch
  BY <1>2, <1>3, SampleFields DEF Session!OneWorldPerEpoch, Session!Ready, Session!Telemetry, Session!loading, Cached, Told
<1>6. Session!PoseIsCurrent
  BY <1>2, <1>3, SampleFields DEF Session!PoseIsCurrent, Session!loading, Cached
<1> QED BY <1>4, <1>5, <1>6 DEF AircraftSafety, Session!AircraftSafety

(* The empty values have their types.                                      *)
LEMMA Voids == /\ Session!NoIdentity \in Identities
               /\ Session!NoSample \in Sightings
               /\ Session!NoCalibration \in Calibrations
BY WorkerAssumption DEF Session!NoIdentity, Session!NoSample, Session!NoCalibration, Names, Sightings, Session!SessionAssumption

(* At first nothing is queued, and the path is the present alone.          *)
LEMMA StartFits == Session!Init => SessionInv
<1> SUFFICES ASSUME Session!Init PROVE SessionInv
  OBVIOUS
<1>1. SessionTypes
  <2>1. sim \in Simulators
    BY DEF Session!Init
  <2>2. asked \in SUBSET ({"type", "path"} \X (1..MaxPolls)) /\ session_inbox \in Seq(Parcels)
    BY DEF Session!Init
  <2>3. lifecycle \in Lifecycles
    BY DEF Session!Init
  <2>4. /\ Session!NoIdentity \in Identities
        /\ Session!NoSample \in Sightings
        /\ Session!NoCalibration \in Calibrations
    BY Voids
  <2> QED BY <2>1, <2>2, <2>3, <2>4 DEF Session!Init, SessionTypes
<1> DEFINE h == <<Now>>
<1>2. Now \in Moments /\ Now.busy = {}
  BY DEF Session!Init, Now, Moments
<1>3. h \in Seq(Moments) /\ Len(h) = 1 /\ h[1] = Now /\ Len(session_inbox) = 0
  BY <1>2 DEF Session!Init
<1>4. Path(h)
  BY <1>3 DEF Path
<1>5. Told(h[1]) /\ Cached(h[1])
  BY <1>2, <1>3 DEF Told, Cached, Session!Init, Session!NoIdentity, Session!NoCalibration, Session!NoSample
<1> QED BY <1>1, <1>4, <1>5 DEF SessionInv

(* A step that leaves the simulator and the queue alone keeps the path.    *)
LEMMA PathStays == ASSUME NEW h, Path(h), Now' = Now, session_inbox' = session_inbox PROVE Path(h)'
BY DEF Path, Says, SampleOf, Session!NoSample

(* A packet is put in.                                                     *)
LEMMA PathGrows == ASSUME NEW h, SessionTypes, Path(h), NEW p \in Parcels, NEW n \in Moments, n = Now',
                          session_inbox' = Append(session_inbox, p), Says(p, Now, n), p.kind # "event" => n = Now
                   PROVE Path(Append(h, n))' /\ Append(h, n)[1] = h[1]
<1> DEFINE g == Append(h, n)
<1>1. /\ h \in Seq(Moments) /\ Len(h) = Len(session_inbox) + 1 /\ h[Len(h)] = Now
      /\ session_inbox \in Seq(Parcels) /\ Len(session_inbox) \in Nat
  BY DEF Path, SessionTypes
<1>2. /\ g \in Seq(Moments) /\ Len(g) = Len(h) + 1 /\ g[Len(g)] = n
      /\ \A i \in 1..Len(h) : g[i] = h[i]
  BY <1>1
<1>3. /\ Len(session_inbox') = Len(session_inbox) + 1 /\ session_inbox'[Len(session_inbox) + 1] = p
      /\ \A i \in 1..Len(session_inbox) : session_inbox'[i] = session_inbox[i]
  BY <1>1
<1> HIDE DEF g
<1>4. ASSUME NEW i \in 1..Len(session_inbox') PROVE Says(session_inbox'[i], g[i], g[i + 1])
  <2>1. CASE i \in 1..Len(session_inbox)
    <3>1. Says(session_inbox[i], h[i], h[i + 1])
      BY <2>1 DEF Path
    <3>2. i \in 1..Len(h) /\ i + 1 \in 1..Len(h)
      BY <2>1, <1>1
    <3> QED BY <2>1, <3>1, <3>2, <1>2, <1>3
  <2>2. CASE i = Len(session_inbox) + 1
    <3>1. g[i] = Now /\ g[i + 1] = n /\ session_inbox'[i] = p
      BY <2>2, <1>1, <1>2, <1>3
    <3> QED BY <3>1
  <2> QED BY <2>1, <2>2, <1>1, <1>3
<1>5. ASSUME NEW i \in 1..Len(g), \A j \in i..Len(session_inbox') : session_inbox'[j].kind # "event"
      PROVE g[i] = n
  <2>1. CASE i = Len(g)
    BY <2>1, <1>2
  <2>2. CASE i \in 1..Len(h)
    <3>1. Len(session_inbox) + 1 \in i..Len(session_inbox')
      BY <2>2, <1>1, <1>3
    <3>2. p.kind # "event"
      BY <3>1, <1>3, <1>5
    <3>3. \A j \in i..Len(session_inbox) : session_inbox[j].kind # "event"
      BY <1>1, <1>3, <1>5, <2>2
    <3>4. h[i] = Now
      BY <3>3, <2>2 DEF Path
    <3> QED BY <3>2, <3>4, <2>2, <1>2
  <2> QED BY <2>1, <2>2, <1>1, <1>2
<1>6. Path(g)'
  BY <1>1, <1>2, <1>3, <1>4, <1>5 DEF Path
<1> QED BY <1>1, <1>2, <1>6 DEF g

(* The first packet is taken out.                                          *)
LEMMA PathShrinks == ASSUME NEW h, SessionTypes, Path(h), session_inbox # <<>>, session_inbox' = Tail(session_inbox), Now' = Now
                     PROVE Path(Tail(h))' /\ Says(Head(session_inbox), h[1], Tail(h)[1])
                           /\ Tail(h)[1] \in Moments /\ h[1] \in Moments /\ Head(session_inbox) \in Parcels
<1> DEFINE g == Tail(h)
<1>1. /\ h \in Seq(Moments) /\ Len(h) = Len(session_inbox) + 1 /\ h[Len(h)] = Now
      /\ session_inbox \in Seq(Parcels) /\ Len(session_inbox) \in Nat \ {0}
  BY DEF Path, SessionTypes
<1>2. /\ g \in Seq(Moments) /\ Len(g) = Len(h) - 1
      /\ \A i \in 1..Len(g) : g[i] = h[i + 1]
  BY <1>1
<1>3. /\ Len(session_inbox') = Len(session_inbox) - 1
      /\ \A i \in 1..Len(session_inbox') : session_inbox'[i] = session_inbox[i + 1]
      /\ Head(session_inbox) = session_inbox[1] /\ session_inbox[1] \in Parcels
  BY <1>1
<1> HIDE DEF g
<1>4. \A i \in 1..Len(session_inbox') : Says(session_inbox'[i], g[i], g[i + 1])
  <2> SUFFICES ASSUME NEW i \in 1..Len(session_inbox') PROVE Says(session_inbox'[i], g[i], g[i + 1])
    OBVIOUS
  <2>1. Says(session_inbox[i + 1], h[i + 1], h[i + 2])
    <3>1. i + 1 \in 1..Len(session_inbox) /\ (i + 1) + 1 = i + 2
      BY <1>1, <1>3
    <3> QED BY <3>1 DEF Path
  <2> QED BY <2>1, <1>1, <1>2, <1>3
<1>5. ASSUME NEW i \in 1..Len(g), \A j \in i..Len(session_inbox') : session_inbox'[j].kind # "event"
      PROVE g[i] = Now
  <2>1. i + 1 \in 1..Len(h)
    BY <1>1, <1>2
  <2>2. \A j \in (i + 1)..Len(session_inbox) : session_inbox[j].kind # "event"
    <3> SUFFICES ASSUME NEW j \in (i + 1)..Len(session_inbox) PROVE session_inbox[j].kind # "event"
      OBVIOUS
    <3>1. j - 1 \in i..Len(session_inbox') /\ (j - 1) + 1 = j /\ j - 1 \in 1..Len(session_inbox')
      BY <1>1, <1>3
    <3> QED BY <3>1, <1>3, <1>5
  <2>3. h[i + 1] = Now
    BY <2>1, <2>2 DEF Path
  <2> QED BY <2>3, <1>2
<1>6. g[Len(g)] = Now
  BY <1>1, <1>2
<1>7. Path(g)'
  BY <1>1, <1>2, <1>3, <1>4, <1>5, <1>6 DEF Path
<1>8. Says(Head(session_inbox), h[1], g[1]) /\ g[1] \in Moments /\ h[1] \in Moments
  BY <1>1, <1>2, <1>3 DEF Path
<1> QED BY <1>3, <1>7, <1>8 DEF g

(* What is queued holds no event: the head of the path is the present.     *)
LEMMA PathEnds == ASSUME NEW h, SessionTypes, Path(h), Session!Events = {}, session_inbox' = <<>>, Now' = Now
                  PROVE Path(<<h[1]>>)'
<1>1. h \in Seq(Moments) /\ Len(h) = Len(session_inbox) + 1 /\ Len(session_inbox) \in Nat /\ session_inbox \in Seq(Parcels)
  BY DEF Path, SessionTypes
<1>2. \A j \in 1..Len(session_inbox) : session_inbox[j].kind # "event"
  BY <1>1 DEF Session!Events
<1>3. h[1] = Now /\ h[1] \in Moments
  BY <1>1, <1>2 DEF Path
<1> DEFINE g == <<h[1]>>
<1>4. g \in Seq(Moments) /\ Len(g) = 1 /\ g[1] = Now /\ Len(session_inbox') = 0
  BY <1>3
<1> HIDE DEF g
<1>5. Path(g)'
  BY <1>4 DEF Path
<1> QED BY <1>5 DEF g
(* A step that keeps path and queue shows only that the head still fits.   *)
LEMMA Kept == ASSUME NEW h, Path(h), Now' = Now, session_inbox' = session_inbox, SessionTypes', Told(h[1])', Cached(h[1])'
              PROVE SessionInv'
<1>1. Path(h)'
  BY PathStays
<1> QED BY <1>1 DEF SessionInv

(* A packet the simulator puts in makes the path longer and leaves its head.*)
LEMMA Grown == ASSUME SessionInv, SessionTypes', NEW p \in Parcels, NEW n \in Moments, n = Now',
                      session_inbox' = Append(session_inbox, p), Says(p, Now, n), p.kind # "event" => n = Now,
                      UNCHANGED <<Session!cache, observed>>
               PROVE SessionInv'
<1>1. SessionTypes
  BY DEF SessionInv
<1>2. PICK h : Path(h) /\ Told(h[1]) /\ Cached(h[1])
  BY DEF SessionInv
<1> DEFINE g == Append(h, n)
<1>3. Path(g)' /\ g[1] = h[1]
  BY <1>1, <1>2, PathGrows
<1> HIDE DEF g
<1>4. Told(g[1])' /\ Cached(g[1])'
  BY <1>2, <1>3 DEF Told, Cached, Session!cache, SampleOf, Session!NoSample
<1> QED BY <1>3, <1>4 DEF SessionInv

(* After a reset nothing is cached of anything.                            *)
LEMMA Reset == ASSUME NEW m, Session!reset_session_locked PROVE Cached(m)'
BY DEF Cached, Session!reset_session_locked, Session!NoIdentity, Session!NoCalibration

(* The present is a moment.                                                *)
LEMMA MomentNow == ASSUME SessionTypes PROVE Now \in Moments /\ lifecycle.pending \subseteq Session!Begins
BY DEF SessionTypes, Now, Moments

(* A flight that is loaded, moved or ended is announced.                   *)
LEMMA BeginKeeps == ASSUME Session!SessionAssumption, Lossless, SessionInv, NEW kind \in Session!Begins, Session!Begin(kind) PROVE SessionInv'
<1> DEFINE p == Session!Event(<<"begin", kind>>)
<1>1. SessionTypes
  BY DEF SessionInv
<1>2. session_inbox' = Append(session_inbox, p) /\ UNCHANGED <<Session!cache, observed>>
  BY DEF Session!Begin, Session!Announce, Session!Announced
<1>3. p \in Parcels /\ p.kind = "event" /\ p.what = <<"begin", kind>>
  BY DEF Parcels, Said, Session!Event, Session!Packet
<1>4. PICK craft \in Crafts : sim' = [sim EXCEPT !.busy = @ \cup {kind}, !.world = @ + 1, !.craft = craft,
                                                 !.changes = @ + 1]
  BY <1>1 DEF Session!Begin, Session!Disturb, SessionTypes
<1>5. SessionTypes'
  <2>1. sim' \in Simulators
    <3>1. /\ sim.world + 1 \in Nat \ {0} /\ sim.changes + 1 \in Nat /\ sim.busy \in SUBSET Session!Begins
          /\ sim.world \in Nat \ {0} /\ sim.changes \in Nat /\ sim.craft \in Crafts /\ sim.running \in BOOLEAN
          /\ sim = [world |-> sim.world, busy |-> sim.busy, craft |-> sim.craft, running |-> sim.running,
                    changes |-> sim.changes]
      BY <1>1 DEF SessionTypes
    <3> QED BY <1>4, <3>1
  <2>2. session_inbox' \in Seq(Parcels)
    BY <1>1, <1>2, <1>3 DEF SessionTypes
  <2> QED BY <1>1, <2>1, <2>2 DEF SessionTypes, Session!Begin, Session!cache, Session!worker
<1>6. Now' \in Moments /\ Now'.busy = Now.busy \cup {kind} /\ kind \in Session!Begins \ Now.busy
  BY <1>1, <1>4, <1>5 DEF SessionTypes, Now, Moments, Session!Begin
<1>7. \A n : n = Now' => Says(p, Now, n)
  BY <1>3, <1>6 DEF Says
<1> HIDE DEF p
<1>8. PICK n \in Moments : n = Now'
  BY <1>6
<1> QED BY <1>2, <1>3, <1>5, <1>7, <1>8, Grown

(* The end of it is announced.                                             *)
LEMMA CompleteKeeps == ASSUME Session!SessionAssumption, Lossless, SessionInv, NEW kind \in Session!Begins, Session!Complete(kind) PROVE SessionInv'
<1> DEFINE p == Session!Event(<<"done", kind>>)
<1>1. SessionTypes
  BY DEF SessionInv
<1>2. session_inbox' = Append(session_inbox, p) /\ UNCHANGED <<Session!cache, observed>>
  BY DEF Session!Complete, Session!Announce, Session!Announced
<1>3. p \in Parcels /\ p.kind = "event" /\ p.what = <<"done", kind>>
  BY DEF Parcels, Said, Session!Event, Session!Packet
<1>4. sim' = [sim EXCEPT !.busy = @ \ {kind}] /\ kind \in sim.busy
  BY DEF Session!Complete
<1>5. SessionTypes'
  <2>1. sim' \in Simulators
    <3>1. /\ sim.world + 1 \in Nat \ {0} /\ sim.changes + 1 \in Nat /\ sim.busy \in SUBSET Session!Begins
          /\ sim.world \in Nat \ {0} /\ sim.changes \in Nat /\ sim.craft \in Crafts /\ sim.running \in BOOLEAN
          /\ sim = [world |-> sim.world, busy |-> sim.busy, craft |-> sim.craft, running |-> sim.running,
                    changes |-> sim.changes]
      BY <1>1 DEF SessionTypes
    <3> QED BY <1>4, <3>1
  <2>2. session_inbox' \in Seq(Parcels)
    BY <1>1, <1>2, <1>3 DEF SessionTypes
  <2> QED BY <1>1, <2>1, <2>2 DEF SessionTypes, Session!Complete, Session!cache, Session!worker
<1>6. Now' \in Moments /\ Now' = [Now EXCEPT !.busy = @ \ {kind}] /\ kind \in Now.busy
  <2>1. Now' \in Moments
    BY <1>5 DEF SessionTypes, Now, Moments
  <2>2. sim'.world = sim.world /\ sim'.craft = sim.craft /\ sim'.busy = sim.busy \ {kind}
    BY <1>1, <1>4 DEF SessionTypes
  <2>3. Now' = [world |-> sim.world, busy |-> sim.busy \ {kind}, craft |-> sim.craft]
    BY <2>2 DEF Now
  <2>4. Now' = [Now EXCEPT !.busy = @ \ {kind}] /\ kind \in Now.busy
    BY <2>3, <1>4 DEF Now
  <2> QED BY <2>1, <2>4
<1>7. \A n : n = Now' => Says(p, Now, n)
  BY <1>3, <1>6 DEF Says
<1> HIDE DEF p
<1>8. PICK n \in Moments : n = Now'
  BY <1>6
<1> QED BY <1>2, <1>3, <1>5, <1>7, <1>8, Grown

(* A replaced aircraft is announced.                                       *)
LEMMA ReplaceKeeps == ASSUME Session!SessionAssumption, Lossless, SessionInv, Session!Replace PROVE SessionInv'
<1> DEFINE p == Session!Event(<<"loaded", 0>>)
<1>1. SessionTypes
  BY DEF SessionInv
<1>2. session_inbox' = Append(session_inbox, p) /\ UNCHANGED <<Session!cache, observed>>
  BY DEF Session!Replace, Session!Announce, Session!Announced
<1>3. p \in Parcels /\ p.kind = "event" /\ p.what = <<"loaded", 0>>
  BY DEF Parcels, Said, Session!Event, Session!Packet
<1>4. PICK craft \in Crafts : sim' = [sim EXCEPT !.world = @ + 1, !.craft = craft, !.changes = @ + 1]
  BY <1>1 DEF Session!Replace, Session!Disturb, SessionTypes
<1>5. SessionTypes'
  <2>1. sim' \in Simulators
    <3>1. /\ sim.world + 1 \in Nat \ {0} /\ sim.changes + 1 \in Nat /\ sim.busy \in SUBSET Session!Begins
          /\ sim.world \in Nat \ {0} /\ sim.changes \in Nat /\ sim.craft \in Crafts /\ sim.running \in BOOLEAN
          /\ sim = [world |-> sim.world, busy |-> sim.busy, craft |-> sim.craft, running |-> sim.running,
                    changes |-> sim.changes]
      BY <1>1 DEF SessionTypes
    <3> QED BY <1>4, <3>1
  <2>2. session_inbox' \in Seq(Parcels)
    BY <1>1, <1>2, <1>3 DEF SessionTypes
  <2> QED BY <1>1, <2>1, <2>2 DEF SessionTypes, Session!Replace, Session!cache, Session!worker
<1>6. Now' \in Moments /\ Now'.busy = Now.busy
  BY <1>1, <1>4, <1>5 DEF SessionTypes, Now, Moments
<1>7. \A n : n = Now' => Says(p, Now, n)
  BY <1>3, <1>6 DEF Says
<1> HIDE DEF p
<1>8. PICK n \in Moments : n = Now'
  BY <1>6
<1> QED BY <1>2, <1>3, <1>5, <1>7, <1>8, Grown

(* So is a simulator that is stopped or goes on, in the same world.        *)
LEMMA ToggleKeeps == ASSUME Session!SessionAssumption, Lossless, SessionInv, Session!Toggle PROVE SessionInv'
<1> DEFINE p == Session!Event(<<"sim", ~sim.running>>)
<1>1. SessionTypes
  BY DEF SessionInv
<1>2. session_inbox' = Append(session_inbox, p) /\ UNCHANGED <<Session!cache, observed>>
  BY DEF Session!Toggle, Session!Announce, Session!Announced
<1>3. PICK on \in BOOLEAN : p = Session!Event(<<"sim", on>>)
  OBVIOUS
<1>4. p \in Parcels /\ p.kind = "event" /\ p.what = <<"sim", on>>
  BY <1>3 DEF Parcels, Said, Session!Event, Session!Packet
<1>5. sim' = [sim EXCEPT !.running = ~@, !.changes = @ + 1]
  BY <1>1 DEF Session!Toggle, Session!Disturb, SessionTypes
<1> HIDE DEF p
<1>6. SessionTypes'
  <2>1. sim' \in Simulators
    <3>1. /\ sim.world + 1 \in Nat \ {0} /\ sim.changes + 1 \in Nat /\ sim.busy \in SUBSET Session!Begins
          /\ sim.world \in Nat \ {0} /\ sim.changes \in Nat /\ sim.craft \in Crafts /\ sim.running \in BOOLEAN
          /\ sim = [world |-> sim.world, busy |-> sim.busy, craft |-> sim.craft, running |-> sim.running,
                    changes |-> sim.changes]
      BY <1>1 DEF SessionTypes
    <3> QED BY <1>5, <3>1
  <2>2. session_inbox' \in Seq(Parcels)
    BY <1>1, <1>2, <1>4 DEF SessionTypes
  <2> QED BY <1>1, <2>1, <2>2 DEF SessionTypes, Session!Toggle, Session!cache, Session!worker
<1>7. Now' = Now
  BY <1>1, <1>5 DEF SessionTypes, Now
<1>8. \A n : n = Now' => Says(p, Now, n)
  BY <1>4, <1>7 DEF Says
<1>9. PICK n \in Moments : n = Now'
  BY <1>1, <1>7, MomentNow
<1> QED BY <1>2, <1>4, <1>6, <1>8, <1>9, Grown

(* Samples and answers are of the moment they are put in.                  *)
LEMMA ArriveKeeps == ASSUME SessionInv, NEW p \in Parcels, Session!Arrive(p), p.kind # "event", Says(p, Now, Now),
                            asked' \subseteq asked
                     PROVE SessionInv'
<1>1. SessionTypes
  BY DEF SessionInv
<1>2. session_inbox' = Append(session_inbox, p) /\ UNCHANGED <<Session!cache, observed>> /\ sim' = sim
  BY DEF Session!Arrive
<1>3. SessionTypes'
  <2>1. session_inbox' \in Seq(Parcels)
    BY <1>1, <1>2 DEF SessionTypes
  <2> QED BY <1>1, <1>2, <2>1 DEF SessionTypes, Session!Arrive, Session!cache, Session!worker
<1>4. Now' = Now
  BY <1>2 DEF Now
<1>5. PICK n \in Moments : n = Now'
  BY <1>1, <1>4, MomentNow
<1> QED BY <1>2, <1>3, <1>4, <1>5, Grown

(* What a stream samples is the present.                                   *)
LEMMA SightingNow == ASSUME SessionTypes, Session!SessionAssumption
                     PROVE /\ Session!Current \in Sightings /\ Session!NoSample \in Sightings /\ Session!Current = SampleOf(Now)
<1>1. Session!Current \in Sightings
  <2>1. (sim.busy = {}) \in BOOLEAN
    OBVIOUS
  <2>2. sim.world \in Nat /\ sim.craft \in Crafts
    BY DEF SessionTypes
  <2> QED BY <2>1, <2>2 DEF Session!Current, Sightings, Names
<1>2. Session!NoSample \in Sightings
  BY Voids
<1>3. Session!Current = SampleOf(Now)
  <2>1. Now.world = sim.world /\ Now.busy = sim.busy /\ Now.craft = sim.craft
    BY DEF Now
  <2> QED BY <2>1 DEF Session!Current, SampleOf
<1> QED BY <1>1, <1>2, <1>3

(* The streams.                                                            *)
LEMMA SamplesKeep == ASSUME Session!SessionAssumption, SessionInv, Session!Stream \/ Session!CameraReply PROVE SessionInv'
<1>1. SessionTypes
  BY DEF SessionInv
<1>2. PICK kind \in {"body", "camera"}, what \in {Session!NoSample, Session!Current} :
        Session!Arrive(Session!Packet(kind, 0, what)) /\ asked' = asked
  BY DEF Session!Stream, Session!CameraReply
<1> DEFINE p == Session!Packet(kind, 0, what)
<1>3. p \in Parcels /\ p.kind \in {"body", "camera"} /\ p.what = what
  BY <1>1, SightingNow DEF Session!Packet, Parcels
<1>4. Says(p, Now, Now)
  BY <1>1, <1>3, SightingNow DEF Says
<1> HIDE DEF p
<1>5. p.kind # "event"
  BY <1>3
<1> QED BY <1>2, <1>3, <1>4, <1>5, ArriveKeeps DEF p

(* An answer to a poll.                                                    *)
LEMMA ReplyKeeps == ASSUME SessionInv, NEW request \in asked, Session!Answer(request) PROVE SessionInv'
<1>1. SessionTypes
  BY DEF SessionInv
<1> DEFINE p == Session!Packet(request[1], request[2], sim.craft)
<1>2. request[1] \in {"type", "path"} /\ request[2] \in 1..MaxPolls
  BY <1>1 DEF SessionTypes
<1>3. p \in Parcels /\ p.kind \in {"type", "path"} /\ p.what = sim.craft
  BY <1>1, <1>2 DEF Session!Packet, Parcels, SessionTypes
<1>4. Says(p, Now, Now)
  BY <1>3 DEF Says, Now
<1>5. Session!Arrive(p) /\ asked' \subseteq asked
  BY DEF Session!Answer
<1> HIDE DEF p
<1>6. p.kind # "event"
  BY <1>3
<1> QED BY <1>3, <1>4, <1>5, <1>6, ArriveKeeps
(* Which handler an event goes to.                                         *)
LEMMA FlowOfBegin == ASSUME NEW kind PROVE Session!Accepted(lifecycle, <<"begin", kind>>) = Session!Flow(lifecycle, {kind}, {})
BY DEF Session!Accepted
(* The same for a completion.                                              *)
LEMMA FlowOfDone == ASSUME NEW kind PROVE Session!Accepted(lifecycle, <<"done", kind>>) = Session!Flow(lifecycle, {}, {kind})
BY DEF Session!Accepted
(* The same for a change of the running state.                             *)
LEMMA FlowOfSim == ASSUME NEW on PROVE Session!Accepted(lifecycle, <<"sim", on>>) = Session!SimState(lifecycle, on)
BY DEF Session!Accepted
(* The same for a replaced aircraft.                                       *)
LEMMA FlowOfLoaded == Session!Accepted(lifecycle, <<"loaded", 0>>) = Session!Loaded(lifecycle)
BY DEF Session!Accepted

(* What a reset leaves has its type.                                       *)
LEMMA ResetTypes == ASSUME SessionTypes, Session!reset_session_locked
  PROVE /\ session_identity' \in Identities
        /\ body' \in Sightings /\ camera' \in Sightings
        /\ calibration' \in Calibrations
BY Voids DEF Session!reset_session_locked

(* An event takes the lifecycle to the next moment of the path; whenever   *)
(* that is another world, or the first one after loading, the cache is void,*)
(* and an epoch in which somebody saw the program ready is over.           *)
LEMMA EventKeeps == ASSUME SessionInv, Session!accept_session_packet PROVE SessionInv'
<1>1. SessionTypes
  BY DEF SessionInv
<1>2. PICK h : Path(h) /\ Told(h[1]) /\ Cached(h[1])
  BY DEF SessionInv
<1>3. /\ session_inbox # <<>> /\ session_inbox' = Tail(session_inbox) /\ Head(session_inbox).kind = "event"
      /\ UNCHANGED <<sim, asked, stop, observed>>
  BY DEF Session!accept_session_packet, Session!Dispatch, Session!sources
<1>4. Now' = Now
  BY <1>3 DEF Now
<1> DEFINE g == Tail(h)
           m == h[1]
           n == g[1]
           e == Head(session_inbox).what
           result == Session!Accepted(lifecycle, e)
<1>5. Path(g)' /\ Says(Head(session_inbox), m, n) /\ m \in Moments /\ n \in Moments
  BY <1>1, <1>2, <1>3, <1>4, PathShrinks
<1>6. /\ lifecycle' = result.life
      /\ IF result.invalid \/ ~Session!running(result.life) THEN Session!reset_session_locked
         ELSE UNCHANGED <<session_identity, body, camera, calibration>>
      /\ link' \in {"open", "closing", "closed"}
  BY <1>1 DEF Session!accept_session_packet, Session!Link, SessionTypes
<1>7. \/ \E kind \in Session!Begins \ m.busy : e = <<"begin", kind>> /\ n.busy = m.busy \cup {kind}
      \/ \E kind \in m.busy : e = <<"done", kind>> /\ n = [m EXCEPT !.busy = @ \ {kind}]
      \/ e = <<"loaded", 0>> /\ n.busy = m.busy
      \/ \E on \in BOOLEAN : e = <<"sim", on>> /\ n = m
  BY <1>3, <1>5 DEF Says
<1>8. /\ Told(m) /\ Cached(m) /\ lifecycle.pending = m.busy
      /\ lifecycle \in Lifecycles
      /\ observed \in [epoch : Nat, world : Nat]
  BY <1>1, <1>2 DEF Told, SessionTypes
<1> HIDE DEF g, m, n, e, result
<1>9. /\ lifecycle' \in Lifecycles
      /\ Told(n)' /\ Cached(n)'
  <2>1. CASE \E kind \in Session!Begins \ m.busy : e = <<"begin", kind>> /\ n.busy = m.busy \cup {kind}
    <3>1. PICK kind \in Session!Begins \ m.busy : e = <<"begin", kind>> /\ n.busy = m.busy \cup {kind}
      BY <2>1
    <3>2. result = Session!Flow(lifecycle, {kind}, {})
      BY <3>1, FlowOfBegin DEF result
    <3>3. /\ lifecycle' = IF m.busy = {} THEN [lifecycle EXCEPT !.pending = n.busy, !.epoch = @ + 1]
                          ELSE [lifecycle EXCEPT !.pending = n.busy]
          /\ result.invalid
      <4>1. /\ n.busy = (lifecycle.pending \cup {kind}) \ {} /\ n.busy # lifecycle.pending
            /\ {kind} # {}
        BY <3>1, <1>8
      <4> QED BY <4>1, <3>2, <1>6, <1>8 DEF Session!Flow, Session!changed, Session!loading
    <3>4. n.busy # {} /\ n.busy \in SUBSET Session!Begins
      BY <3>1, <1>5 DEF Moments
    <3>5. Session!reset_session_locked
      BY <3>3, <1>6
    <3>6. lifecycle' \in Lifecycles
      <4>1. CASE m.busy = {}
        <5>1. lifecycle' = [epoch |-> lifecycle.epoch + 1, known |-> lifecycle.known,
                            running |-> lifecycle.running, pending |-> n.busy]
          BY <4>1, <3>3, <1>8
        <5> QED BY <5>1, <3>4, <1>8
      <4>2. CASE m.busy # {}
        BY <4>2, <3>3, <3>4, <1>8
      <4> QED BY <4>1, <4>2
    <3>7. Told(n)'
      BY <3>3, <3>4, <1>3, <1>8 DEF Told
    <3> QED BY <3>5, <3>6, <3>7, Reset
  <2>2. CASE \E kind \in m.busy : e = <<"done", kind>> /\ n = [m EXCEPT !.busy = @ \ {kind}]
    <3>1. PICK kind \in m.busy : e = <<"done", kind>> /\ n = [m EXCEPT !.busy = @ \ {kind}]
      BY <2>2
    <3>2. result = Session!Flow(lifecycle, {}, {kind})
      BY <3>1, FlowOfDone DEF result
    <3>3. n.busy = m.busy \ {kind} /\ n.busy # m.busy /\ m.busy # {}
      BY <3>1, <1>5 DEF Moments
    <3>4. lifecycle' = [lifecycle EXCEPT !.pending = n.busy] /\ result.invalid
      <4>1. n.busy = (lifecycle.pending \cup {}) \ {kind} /\ n.busy # lifecycle.pending
        BY <3>3, <1>8
      <4> QED BY <4>1, <3>2, <1>6 DEF Session!Flow, Session!changed, Session!loading
    <3>5. Session!reset_session_locked
      BY <3>4, <1>6
    <3>6. lifecycle' \in Lifecycles
      BY <3>4, <1>5, <1>8 DEF Moments
    <3>7. Told(n)'
      BY <3>3, <3>4, <1>3, <1>8 DEF Told
    <3> QED BY <3>5, <3>6, <3>7, Reset
  <2>3. CASE e = <<"loaded", 0>> /\ n.busy = m.busy
    <3>1. result = Session!Loaded(lifecycle)
      BY <2>3, FlowOfLoaded DEF result
    <3>2. CASE m.busy = {}
      <4>1. lifecycle' = [lifecycle EXCEPT !.epoch = @ + 1] /\ result.invalid
        BY <3>1, <3>2, <1>6, <1>8 DEF Session!Loaded, Session!changed, Session!loading
      <4>2. lifecycle' \in Lifecycles
        BY <4>1, <1>8
      <4>3. Told(n)'
        BY <4>1, <2>3, <1>3, <1>8 DEF Told
      <4> QED BY <4>1, <4>2, <4>3, <1>6, Reset
    <3>3. CASE m.busy # {}
      <4>1. lifecycle' = lifecycle
        BY <3>1, <3>3, <1>6, <1>8 DEF Session!Loaded, Session!loading
      <4>2. Told(n)'
        BY <4>1, <2>3, <3>3, <1>3, <1>8 DEF Told
      <4>3. Cached(n)'
        BY <2>3, <3>3 DEF Cached
      <4> QED BY <4>1, <4>2, <4>3, <1>8
    <3> QED BY <3>2, <3>3
  <2>4. CASE \E on \in BOOLEAN : e = <<"sim", on>> /\ n = m
    <3>1. PICK on \in BOOLEAN : e = <<"sim", on>> /\ n = m
      BY <2>4
    <3>2. result = Session!SimState(lifecycle, on)
      BY <3>1, FlowOfSim DEF result
    <3>3. lifecycle' = [lifecycle EXCEPT !.known = TRUE, !.running = on] \/
          lifecycle' = [lifecycle EXCEPT !.known = TRUE, !.running = on, !.epoch = @ + 1]
      BY <3>2, <1>6, <1>8 DEF Session!SimState, Session!changed
    <3>4. /\ lifecycle' \in Lifecycles
          /\ lifecycle'.pending = lifecycle.pending
          /\ lifecycle'.epoch \in {lifecycle.epoch, lifecycle.epoch + 1}
      <4>1. CASE lifecycle' = [lifecycle EXCEPT !.known = TRUE, !.running = on]
        BY <4>1, <1>8
      <4>2. CASE lifecycle' = [lifecycle EXCEPT !.known = TRUE, !.running = on, !.epoch = @ + 1]
        <5>1. lifecycle' = [epoch |-> lifecycle.epoch + 1, known |-> TRUE, running |-> on,
                            pending |-> lifecycle.pending]
          BY <4>2, <1>8
        <5> QED BY <5>1, <1>8
      <4> QED BY <3>3, <4>1, <4>2
    <3>5. Told(n)'
      BY <3>1, <3>4, <1>3, <1>8 DEF Told
    <3>6. Cached(n)'
      <4>1. CASE Session!reset_session_locked
        BY <4>1, Reset
      <4>2. CASE UNCHANGED <<session_identity, body, camera, calibration>>
        BY <4>2, <3>1, <1>8 DEF Cached, SampleOf, Session!NoSample
      <4> QED BY <4>1, <4>2, <1>6
    <3> QED BY <3>4, <3>5, <3>6
  <2> QED BY <1>7, <2>1, <2>2, <2>3, <2>4
<1>10. SessionTypes'
  <2>1. session_inbox' \in Seq(Parcels)
    BY <1>1, <1>3 DEF SessionTypes
  <2>2. CASE Session!reset_session_locked
    BY <2>1, <2>2, <1>1, <1>3, <1>6, <1>9, ResetTypes DEF SessionTypes
  <2>3. CASE UNCHANGED <<session_identity, body, camera, calibration>>
    BY <2>1, <2>3, <1>1, <1>3, <1>6, <1>9 DEF SessionTypes
  <2> QED BY <2>2, <2>3, <1>6
<1> QED BY <1>5, <1>9, <1>10 DEF SessionInv, n
(* A new epoch, or the same one, in the same moment.                       *)
LEMMA ToldOn == ASSUME SessionTypes, NEW m, Told(m), observed' = observed,
                       lifecycle' = lifecycle \/ lifecycle' = Session!changed(lifecycle)
                PROVE Told(m)' /\ lifecycle' \in Lifecycles
<1>1. /\ lifecycle \in Lifecycles
      /\ observed \in [epoch : Nat, world : Nat]
  BY DEF SessionTypes
<1>2. CASE lifecycle' = lifecycle
  BY <1>1, <1>2 DEF Told
<1>3. CASE lifecycle' = Session!changed(lifecycle)
  <2>1. lifecycle' = [epoch |-> lifecycle.epoch + 1, known |-> lifecycle.known,
                      running |-> lifecycle.running, pending |-> lifecycle.pending]
    BY <1>1, <1>3 DEF Session!changed
  <2> QED BY <1>1, <2>1 DEF Told
<1> QED BY <1>2, <1>3

(* A reported invalid world empties the cache.                             *)
LEMMA InvalidServed == ASSUME SessionTypes, NEW bits, 1 \in bits, Session!service_world_invalidation(bits)
                       PROVE Session!reset_session_locked /\ (lifecycle' = lifecycle \/ lifecycle' = Session!changed(lifecycle))
BY DEF Session!service_world_invalidation

(* The worker serves a report.                                             *)
LEMMA ServiceKeeps == ASSUME SessionInv, Session!service PROVE SessionInv'
<1>1. SessionTypes
  BY DEF SessionInv
<1>2. PICK h : Path(h) /\ Told(h[1]) /\ Cached(h[1])
  BY DEF SessionInv
<1>3. /\ UNCHANGED <<sim, asked, session_inbox, link, stop, observed>> /\ Session!reset_session_locked
      /\ lifecycle' = lifecycle \/ lifecycle' = Session!changed(lifecycle)
  BY <1>1, InvalidServed DEF Session!service, Session!sources, Session!worker
<1>4. Told(h[1])' /\ lifecycle' \in Lifecycles
  BY <1>1, <1>2, <1>3, ToldOn
<1>5. SessionTypes'
  BY <1>1, <1>3, <1>4, ResetTypes DEF SessionTypes
<1>6. Now' = Now
  BY <1>3 DEF Now
<1>7. Cached(h[1])'
  BY <1>3, Reset
<1> QED BY <1>2, <1>3, <1>4, <1>5, <1>6, <1>7, Kept

(* A sample or an answer taken out leaves the head of the path, and is of it.*)
LEMMA Taken == ASSUME SessionTypes, NEW h, Path(h), Told(h[1]), Cached(h[1]), session_inbox # <<>>,
                      Head(session_inbox).kind # "event", session_inbox' = Tail(session_inbox), sim' = sim
               PROVE /\ Path(Tail(h))' /\ Tail(h)[1] = h[1] /\ h[1] \in Moments
                     /\ session_inbox' \in Seq(Parcels) /\ Head(session_inbox) \in Parcels
                     /\ Head(session_inbox).kind \in {"body", "camera"} => Head(session_inbox).what \in {Session!NoSample, SampleOf(h[1])}
                     /\ Head(session_inbox).kind \in {"type", "path"} => Head(session_inbox).what = h[1].craft
<1>1. Now' = Now
  BY DEF Now
<1>2. /\ Path(Tail(h))' /\ Says(Head(session_inbox), h[1], Tail(h)[1]) /\ h[1] \in Moments /\ Head(session_inbox) \in Parcels
  BY <1>1, PathShrinks
<1>3. session_inbox' \in Seq(Parcels)
  BY DEF SessionTypes
<1> QED BY <1>2, <1>3 DEF Says

(* What packets carry has its type.                                        *)
LEMMA Packets == ASSUME NEW p \in Parcels
                 PROVE /\ p.kind \in {"body", "camera"} => p.what \in Sightings
                       /\ p.kind \in {"type", "path"} => p.what \in Crafts
BY DEF Parcels

(* A body sample is cached, or empties the samples.                        *)
LEMMA BodyKeeps == ASSUME SessionInv, Session!accept_aircraft_packet PROVE SessionInv'
<1>1. SessionTypes
  BY DEF SessionInv
<1>2. PICK h : Path(h) /\ Told(h[1]) /\ Cached(h[1])
  BY DEF SessionInv
<1> DEFINE p == Head(session_inbox)
           m == h[1]
<1>3. /\ session_inbox # <<>> /\ session_inbox' = Tail(session_inbox) /\ p.kind = "body"
      /\ UNCHANGED <<sim, asked, link, stop, lifecycle, session_identity, calibration, observed>>
      /\ body' = p.what /\ camera' \in {Session!NoSample, camera}
  BY DEF Session!accept_aircraft_packet, Session!Dispatch, Session!sources, Session!worker
<1>4. Path(Tail(h))' /\ Tail(h)[1] = m /\ session_inbox' \in Seq(Parcels) /\ p \in Parcels
      /\ p.what \in {Session!NoSample, SampleOf(m)}
  BY <1>1, <1>2, <1>3, Taken
<1>5. p.what \in Sightings
  BY <1>3, <1>4, Packets
<1>6. Told(m) /\ Cached(m)
  BY <1>2
<1> HIDE DEF p, m
<1>7. SessionTypes'
  <2>1. body' \in Sightings /\ camera' \in Sightings
    BY <1>1, <1>3, <1>5, Voids DEF SessionTypes
  <2> QED BY <1>1, <1>3, <1>4, <2>1 DEF SessionTypes
<1>8. Told(m)'
  BY <1>3, <1>6 DEF Told
<1>9. Cached(m)'
  BY <1>3, <1>4, <1>6 DEF Cached, SampleOf, Session!NoSample
<1> QED BY <1>4, <1>7, <1>8, <1>9 DEF SessionInv

(* A camera sample is cached, or reports an invalid world.                 *)
LEMMA CameraKeeps == ASSUME SessionInv, Session!accept_camera_packet PROVE SessionInv'
<1>1. SessionTypes
  BY DEF SessionInv
<1>2. PICK h : Path(h) /\ Told(h[1]) /\ Cached(h[1])
  BY DEF SessionInv
<1> DEFINE p == Head(session_inbox)
           m == h[1]
<1>3. /\ session_inbox # <<>> /\ session_inbox' = Tail(session_inbox) /\ p.kind = "camera"
      /\ UNCHANGED <<sim, asked, link, stop, observed>>
  BY DEF Session!accept_camera_packet, Session!Dispatch, Session!sources, Session!worker
<1>4. Path(Tail(h))' /\ Tail(h)[1] = m /\ session_inbox' \in Seq(Parcels) /\ p \in Parcels
      /\ p.what \in {Session!NoSample, SampleOf(m)}
  BY <1>1, <1>2, <1>3, Taken
<1>5. p.what \in Sightings
  BY <1>3, <1>4, Packets
<1>6. Told(m) /\ Cached(m)
  BY <1>2
<1> HIDE DEF m
<1>7. CASE Session!service_world_invalidation(invalid \cup {1})
  <2>1. Session!reset_session_locked /\ (lifecycle' = lifecycle \/ lifecycle' = Session!changed(lifecycle))
    BY <1>1, <1>7, InvalidServed
  <2>2. Told(m)' /\ lifecycle' \in Lifecycles
    BY <1>1, <1>3, <1>6, <2>1, ToldOn
  <2>3. SessionTypes'
    BY <1>1, <1>3, <1>4, <2>1, <2>2, ResetTypes DEF SessionTypes
  <2>4. Cached(m)'
    BY <2>1, Reset
  <2> QED BY <1>4, <2>2, <2>3, <2>4 DEF SessionInv
<1>8. CASE /\ camera' = p.what
           /\ calibration' = [calibration EXCEPT !.counted = FALSE]
           /\ UNCHANGED <<lifecycle, session_identity, body, invalid>>
  <2>1. calibration' \in Calibrations
        /\ calibration'.done = calibration.done /\ calibration'.world = calibration.world
    BY <1>1, <1>8 DEF SessionTypes
  <2> HIDE DEF p
  <2>2. SessionTypes'
    BY <1>1, <1>3, <1>4, <1>5, <1>8, <2>1 DEF SessionTypes
  <2>3. Told(m)'
    BY <1>3, <1>6, <1>8 DEF Told
  <2>4. Cached(m)'
    BY <1>4, <1>6, <1>8, <2>1 DEF Cached, SampleOf, Session!NoSample
  <2> QED BY <1>4, <2>2, <2>3, <2>4 DEF SessionInv
<1> QED BY <1>7, <1>8 DEF Session!accept_camera_packet

(* An answer completes a poll, completes it with another aircraft, or does not.*)
LEMMA NamesKeep == ASSUME Session!SessionAssumption, SessionInv, Session!accept_identity_packet PROVE SessionInv'
<1>1. SessionTypes
  BY DEF SessionInv
<1>2. PICK h : Path(h) /\ Told(h[1]) /\ Cached(h[1])
  BY DEF SessionInv
<1> DEFINE p == Head(session_inbox)
           m == h[1]
           pending == Session!Polled(p)
           both == pending.type # NoCraft /\ pending.path # NoCraft
           value == <<pending.type, pending.path>>
<1>3. /\ session_inbox # <<>> /\ session_inbox' = Tail(session_inbox) /\ p.kind \in {"type", "path"}
      /\ UNCHANGED <<sim, asked, stop, observed>>
  BY DEF Session!accept_identity_packet, Session!Dispatch, Session!sources
<1>4. Path(Tail(h))' /\ Tail(h)[1] = m /\ m \in Moments /\ session_inbox' \in Seq(Parcels) /\ p \in Parcels
      /\ p.what = m.craft
  BY <1>1, <1>2, <1>3, Taken
<1>5. p.what \in Crafts
  BY <1>3, <1>4, Packets
<1>6. Told(m) /\ Cached(m)
  BY <1>2
<1> HIDE DEF m
<1>7. CASE lifecycle' = Session!changed(lifecycle) /\ Session!reset_session_locked /\ Session!Link(TRUE, lifecycle)
  <2>1. Told(m)' /\ lifecycle' \in Lifecycles
    BY <1>1, <1>3, <1>6, <1>7, ToldOn
  <2>2. link' \in {"open", "closing", "closed"}
    BY <1>1, <1>7 DEF Session!Link, SessionTypes
  <2>3. SessionTypes'
    BY <1>1, <1>3, <1>4, <1>7, <2>1, <2>2, ResetTypes DEF SessionTypes
  <2>4. Cached(m)'
    BY <1>7, Reset
  <2> QED BY <1>4, <2>1, <2>3, <2>4 DEF SessionInv
<1>8. CASE /\ session_identity' = IF both THEN [pending EXCEPT !.type = NoCraft, !.path = NoCraft,
                                                       !.value = value, !.fresh = TRUE]
                          ELSE pending
           /\ UNCHANGED <<link, lifecycle, body, camera, calibration>>
  <2>1. session_identity \in Identities
    BY <1>1 DEF SessionTypes
  <2>2. /\ pending \in Identities
        /\ pending.type \in {session_identity.type, m.craft} /\ pending.path \in {session_identity.path, m.craft}
        /\ pending.value = session_identity.value /\ pending.fresh = session_identity.fresh
    BY <2>1, <1>4, <1>5 DEF Session!Polled, Names
  <2> HIDE DEF pending
  <2>3. session_identity' \in Identities
    BY <2>2, <1>8 DEF Names
  <2>4. SessionTypes'
    BY <1>1, <1>3, <1>4, <1>8, <2>3 DEF SessionTypes
  <2>5. Told(m)'
    BY <1>3, <1>6, <1>8 DEF Told
  <2>6. Cached(m)'
    <3> SUFFICES ASSUME m.busy = {} PROVE Cached(m)'
      BY DEF Cached
    <3>1. /\ body \in {Session!NoSample, SampleOf(m)} /\ camera \in {Session!NoSample, SampleOf(m)}
          /\ session_identity.type \in {NoCraft, m.craft} /\ session_identity.path \in {NoCraft, m.craft}
          /\ session_identity.value \in {<<NoCraft, NoCraft>>, <<m.craft, m.craft>>}
          /\ session_identity.fresh => session_identity.value = <<m.craft, m.craft>>
          /\ calibration.done => calibration.world = m.world
      BY <1>6 DEF Cached
    <3>2. CASE both
      <4>1. pending.type = m.craft /\ pending.path = m.craft
        BY <3>1, <3>2, <2>2
      <4>2. session_identity'.type = NoCraft /\ session_identity'.path = NoCraft /\ session_identity'.value = <<m.craft, m.craft>>
        BY <4>1, <3>2, <2>2, <1>8
      <4> QED BY <3>1, <4>2, <1>8 DEF Cached, SampleOf, Session!NoSample
    <3>3. CASE ~both
      <4>1. session_identity' = pending
        BY <3>3, <1>8
      <4> QED BY <3>1, <4>1, <2>2, <1>8 DEF Cached, SampleOf, Session!NoSample
    <3> QED BY <3>2, <3>3
  <2> QED BY <1>4, <2>4, <2>5, <2>6 DEF SessionInv
<1> QED BY <1>7, <1>8 DEF Session!accept_identity_packet
(* A poll begins.                                                          *)
LEMMA RequestKeeps == ASSUME Session!SessionAssumption, SessionInv, Session!begin_request PROVE SessionInv'
<1>1. SessionTypes
  BY DEF SessionInv
<1>2. PICK h : Path(h) /\ Told(h[1]) /\ Cached(h[1])
  BY DEF SessionInv
<1>3. PICK n \in 1..MaxPolls : /\ session_identity' = [session_identity EXCEPT !.poll = n, !.type = NoCraft, !.path = NoCraft]
                               /\ asked' = asked \cup {<<"type", n>>, <<"path", n>>}
  BY DEF Session!begin_request
<1>4. UNCHANGED <<sim, session_inbox, link, stop, lifecycle, body, camera, calibration, observed>>
  BY DEF Session!begin_request, Session!worker
<1>5. /\ session_identity' \in Identities
      /\ session_identity'.type = NoCraft /\ session_identity'.path = NoCraft
      /\ session_identity'.value = session_identity.value /\ session_identity'.fresh = session_identity.fresh
  <2>1. n \in 0..MaxPolls
    BY WorkerAssumption DEF Session!SessionAssumption
  <2> QED BY <1>1, <1>3, <2>1 DEF SessionTypes, Names
<1>6. asked' \in SUBSET ({"type", "path"} \X (1..MaxPolls))
  BY <1>1, <1>3 DEF SessionTypes
<1>7. SessionTypes'
  BY <1>1, <1>4, <1>5, <1>6 DEF SessionTypes
<1>8. Now' = Now
  BY <1>4 DEF Now
<1>9. Told(h[1])' /\ Cached(h[1])'
  BY <1>2, <1>4, <1>5 DEF Told, Cached, SampleOf, Session!NoSample
<1> QED BY <1>2, <1>4, <1>7, <1>8, <1>9, Kept

(* A connection ends, however it does: no event is lost with it, so the head*)
(* of the path is the present.                                             *)
LEMMA CloseKeeps == ASSUME Lossless, SessionInv, Session!close \/ Session!fault PROVE SessionInv'
<1>1. SessionTypes
  BY DEF SessionInv
<1>2. PICK h : Path(h) /\ Told(h[1]) /\ Cached(h[1])
  BY DEF SessionInv
<1>3. /\ asked' = {} /\ session_inbox' = <<>> /\ link' = "closed" /\ Session!Events = {}
      /\ UNCHANGED <<sim, stop, observed, lifecycle, session_identity, calibration>>
      /\ body' \in {Session!NoSample, body} /\ camera' \in {Session!NoSample, camera}
  BY DEF Session!close, Session!fault, Session!Close, Session!cache
<1>4. Now' = Now
  BY <1>3 DEF Now
<1> DEFINE g == <<h[1]>>
<1>5. Path(g)' /\ g[1] = h[1]
  BY <1>1, <1>2, <1>3, <1>4, PathEnds
<1> HIDE DEF g
<1>6. session_inbox' \in Seq(Parcels) /\ body' \in Sightings /\ camera' \in Sightings
  BY <1>1, <1>3, Voids DEF SessionTypes
<1>7. SessionTypes'
  BY <1>1, <1>3, <1>6 DEF SessionTypes
<1>8. Told(g[1])' /\ Cached(g[1])'
  BY <1>2, <1>3, <1>5 DEF Told, Cached, SampleOf, Session!NoSample
<1> QED BY <1>5, <1>7, <1>8 DEF SessionInv

(* Profiles and stopped workers void the cache.                            *)
LEMMA ResetKeeps == ASSUME SessionInv, Session!select_same_profile \/ Session!stop_provider_locked PROVE SessionInv'
<1>1. SessionTypes
  BY DEF SessionInv
<1>2. PICK h : Path(h) /\ Told(h[1]) /\ Cached(h[1])
  BY DEF SessionInv
<1>3. UNCHANGED <<sim, asked, session_inbox, link, stop, lifecycle, observed>> /\ Session!reset_session_locked
  BY DEF Session!select_same_profile, Session!stop_provider_locked, Session!sources, Session!worker
<1>4. SessionTypes'
  BY <1>1, <1>3, ResetTypes DEF SessionTypes
<1>5. Now' = Now
  BY <1>3 DEF Now
<1>6. Told(h[1])' /\ Cached(h[1])'
  BY <1>2, <1>3, Reset DEF Told
<1> QED BY <1>2, <1>3, <1>4, <1>5, <1>6, Kept

(* The other threads touch the worker's orders and the reports.            *)
LEMMA ThreadsKeep ==
  ASSUME SessionInv, Session!initialize_body_pose_provider \/ Session!request_stop \/ Session!notify_invalid_camera_world
  PROVE  SessionInv'
<1>1. SessionTypes
  BY DEF SessionInv
<1>2. PICK h : Path(h) /\ Told(h[1]) /\ Cached(h[1])
  BY DEF SessionInv
<1>3. /\ UNCHANGED <<sim, asked, session_inbox, lifecycle, session_identity, body, camera, calibration, observed>>
      /\ link' \in {"open", link} /\ stop' \in {TRUE, FALSE, stop}
  BY DEF Session!initialize_body_pose_provider, Session!request_stop, Session!notify_invalid_camera_world, Session!sources, Session!worker, Session!cache
<1>4. SessionTypes'
  BY <1>1, <1>3 DEF SessionTypes
<1>5. Now' = Now
  BY <1>3 DEF Now
<1>6. Told(h[1])' /\ Cached(h[1])'
  BY <1>2, <1>3 DEF Told, Cached, SampleOf, Session!NoSample
<1> QED BY <1>2, <1>3, <1>4, <1>5, <1>6, Kept

(* Somebody sees the program ready, of the world at the head of the path.  *)
LEMMA ReadinessKeeps == ASSUME SessionInv, Session!get_aircraft_session_readiness PROVE SessionInv'
<1>1. SessionTypes
  BY DEF SessionInv
<1>2. PICK h : Path(h) /\ Told(h[1]) /\ Cached(h[1])
  BY DEF SessionInv
<1> DEFINE m == h[1]
<1>3. /\ UNCHANGED <<sim, asked, session_inbox, link, stop, lifecycle, session_identity, body, camera, calibration>>
      /\ observed' = [epoch |-> lifecycle.epoch, world |-> body.world]
      /\ lifecycle.pending = {} /\ body # Session!NoSample
  BY DEF Session!get_aircraft_session_readiness, Session!sources, Session!worker, Session!Ready, Session!loading, Session!Telemetry
<1>4. Told(m) /\ Cached(m)
  BY <1>2
<1> HIDE DEF m
<1>5. m.busy = {} /\ body = SampleOf(m)
  BY <1>3, <1>4 DEF Told, Cached
<1>6. observed' \in [epoch : Nat, world : Nat]
  BY <1>1, <1>3 DEF SessionTypes, Sightings
<1>7. SessionTypes'
  BY <1>1, <1>3, <1>6 DEF SessionTypes
<1>8. Now' = Now
  BY <1>3 DEF Now
<1>9. Told(m)'
  <2>1. body.world = m.world
    BY <1>5, SampleFields
  <2> QED BY <1>1, <1>3, <1>4, <1>5, <2>1 DEF Told, SessionTypes
<1>10. Cached(m)'
  BY <1>3, <1>4 DEF Cached, SampleOf, Session!NoSample
<1> QED BY <1>2, <1>3, <1>7, <1>8, <1>9, <1>10, Kept DEF m

(* A calibration is made of the cached camera sample while it is ready.    *)
LEMMA CalibrationKeeps ==
  ASSUME Session!SessionAssumption, SessionInv,
         NEW recent \in BOOLEAN, NEW matches \in BOOLEAN, NEW stable \in BOOLEAN,
         Session!calibrate_body_pose(recent, matches, stable)
  PROVE  SessionInv'
<1>1. SessionTypes
  BY DEF SessionInv
<1>2. PICK h : Path(h) /\ Told(h[1]) /\ Cached(h[1])
  BY DEF SessionInv
<1> DEFINE m == h[1]
<1>3. UNCHANGED <<sim, asked, session_inbox, link, stop, lifecycle, session_identity, body, camera, observed>>
  BY DEF Session!calibrate_body_pose, Session!sources, Session!worker
<1>4. Told(m) /\ Cached(m)
  BY <1>2
<1>5. calibration \in Calibrations /\ camera.world \in Nat /\ Distinct \in Nat
  BY <1>1, WorkerAssumption DEF SessionTypes, Sightings, Session!SessionAssumption
<1> HIDE DEF m
<1>6. /\ calibration' \in Calibrations
      /\ \/ calibration'.done = calibration.done /\ calibration'.world = calibration.world
         \/ Session!Ready /\ calibration'.world = camera.world
  <2> DEFINE ready  == Session!Ready /\ recent
             afresh == calibration.samples = 0 \/ ~stable
             count  == IF afresh THEN 1 ELSE IF calibration.samples < Distinct THEN calibration.samples + 1 ELSE Distinct
             place  == IF afresh THEN camera.world ELSE calibration.candidate
  <2>1. count \in Nat /\ place \in Nat
    BY <1>5
  <2>2. CASE matches /\ ~calibration.counted
    <3>1. /\ Session!Ready
          /\ calibration' = [samples |-> count, counted |-> TRUE, candidate |-> place,
                             done  |-> calibration.done \/ count = Distinct,
                             world |-> IF count = Distinct THEN camera.world ELSE calibration.world]
      BY <2>2 DEF Session!calibrate_body_pose
    <3> HIDE DEF count, place
    <3>2. (calibration.done \/ count = Distinct) \in BOOLEAN
      OBVIOUS
    <3>3. CASE count = Distinct
      <4>1. calibration' = [samples |-> count, counted |-> TRUE, candidate |-> place, done |-> TRUE,
                            world |-> camera.world]
        BY <3>1, <3>3
      <4> QED BY <4>1, <3>1, <2>1, <1>5
    <3>4. CASE count # Distinct
      <4>1. calibration' = [samples |-> count, counted |-> TRUE, candidate |-> place, done |-> calibration.done,
                            world |-> calibration.world]
        BY <3>1, <3>4, <1>5
      <4> QED BY <4>1, <3>1, <2>1, <1>5
    <3> QED BY <3>3, <3>4
  <2>3. CASE ~(matches /\ ~calibration.counted)
    <3>1. calibration' = [calibration EXCEPT !.samples = IF ready /\ ~matches THEN 0 ELSE @]
      BY <2>3 DEF Session!calibrate_body_pose
    <3> HIDE DEF ready
    <3>2. calibration' = calibration \/ calibration' = [calibration EXCEPT !.samples = 0]
      BY <3>1, <1>5
    <3> QED BY <3>2, <1>5
  <2> QED BY <2>2, <2>3
<1>7. SessionTypes'
  BY <1>1, <1>3, <1>6 DEF SessionTypes
<1>8. Now' = Now
  BY <1>3 DEF Now
<1>9. Told(m)'
  BY <1>3, <1>4 DEF Told
<1>10. Cached(m)'
  <2>1. m.busy = {} /\ Session!Ready => camera.world = m.world
    <3>1. Session!Ready => camera # Session!NoSample
      BY DEF Session!Ready, Session!Telemetry
    <3>2. m.busy = {} => camera \in {Session!NoSample, SampleOf(m)}
      BY <1>4 DEF Cached
    <3> QED BY <3>1, <3>2, SampleFields
  <2> QED BY <1>3, <1>4, <1>6, <2>1 DEF Cached, SampleOf, Session!NoSample
<1> QED BY <1>2, <1>3, <1>7, <1>8, <1>9, <1>10, Kept DEF m

(* A calibration is dropped.                                               *)
LEMMA ForgetKeeps == ASSUME SessionInv, Session!reset_body_pose_calibration PROVE SessionInv'
<1>1. SessionTypes
  BY DEF SessionInv
<1>2. PICK h : Path(h) /\ Told(h[1]) /\ Cached(h[1])
  BY DEF SessionInv
<1>3. /\ UNCHANGED <<sim, asked, session_inbox, link, stop, lifecycle, session_identity, body, camera, observed>>
      /\ calibration' = Session!NoCalibration /\ ~Session!NoCalibration.done
  BY DEF Session!reset_body_pose_calibration, Session!sources, Session!worker, Session!NoCalibration
<1>4. SessionTypes'
  BY <1>1, <1>3, Voids DEF SessionTypes
<1>5. Now' = Now
  BY <1>3 DEF Now
<1>6. Told(h[1])' /\ Cached(h[1])'
  BY <1>2, <1>3 DEF Told, Cached, SampleOf, Session!NoSample
<1> QED BY <1>2, <1>3, <1>4, <1>5, <1>6, Kept

(* Samples grow old.                                                       *)
LEMMA ExpireKeeps == ASSUME SessionInv, Session!Expire PROVE SessionInv'
<1>1. SessionTypes
  BY DEF SessionInv
<1>2. PICK h : Path(h) /\ Told(h[1]) /\ Cached(h[1])
  BY DEF SessionInv
<1>3. /\ UNCHANGED <<sim, asked, session_inbox, link, stop, lifecycle, calibration, observed>>
      /\ body' \in {Session!NoSample, body} /\ camera' \in {Session!NoSample, camera}
      /\ session_identity' \in {session_identity, [session_identity EXCEPT !.fresh = FALSE]}
  BY DEF Session!Expire, Session!sources, Session!worker
<1>4. /\ session_identity' \in Identities
      /\ session_identity'.type = session_identity.type /\ session_identity'.path = session_identity.path
      /\ session_identity'.value = session_identity.value /\ (session_identity'.fresh => session_identity.fresh)
  BY <1>1, <1>3 DEF SessionTypes
<1>5. SessionTypes'
  BY <1>1, <1>3, <1>4, Voids DEF SessionTypes
<1>6. Now' = Now
  BY <1>3 DEF Now
<1>7. Told(h[1])' /\ Cached(h[1])'
  BY <1>2, <1>3, <1>4 DEF Told, Cached, SampleOf, Session!NoSample
<1> QED BY <1>2, <1>3, <1>5, <1>6, <1>7, Kept

(* Every step keeps the invariant.                                         *)
LEMMA StepsKeep == ASSUME Session!SessionAssumption, Lossless, SessionInv, [Session!Next]_(Session!vars) PROVE SessionInv'
<1>1. CASE Session!Simulator
  BY <1>1, BeginKeeps, CompleteKeeps, ReplaceKeeps, ToggleKeeps, SamplesKeep, ReplyKeeps DEF Session!Simulator
<1>2. CASE Session!Worker
  BY <1>2, RequestKeeps, ServiceKeeps, EventKeeps, NamesKeep, BodyKeeps, CameraKeeps, CloseKeeps DEF Session!Worker
<1>3. CASE Session!Others
  BY <1>3, ThreadsKeep, ResetKeeps, ReadinessKeeps, CalibrationKeeps, ForgetKeeps, ExpireKeeps DEF Session!Others
<1>4. CASE UNCHANGED Session!vars
  <2>1. SessionTypes
    BY DEF SessionInv
  <2>2. PICK h : Path(h) /\ Told(h[1]) /\ Cached(h[1])
    BY DEF SessionInv
  <2>3. UNCHANGED <<sim, asked, session_inbox, link, stop, lifecycle, session_identity, body, camera, calibration, observed>>
    BY <1>4 DEF Session!vars, Session!sources, Session!worker, Session!cache
  <2>4. SessionTypes' /\ Now' = Now /\ Told(h[1])' /\ Cached(h[1])'
    BY <2>1, <2>2, <2>3 DEF SessionTypes, Now, Told, Cached, SampleOf, Session!NoSample
  <2> QED BY <2>2, <2>3, <2>4, Kept
<1> QED BY <1>1, <1>2, <1>3, <1>4 DEF Session!Next

(* Where lifecycle events are not lost: body and camera agree with each    *)
(* other and with the identity, an epoch in which the program was ready has*)
(* one world, and a pose is corrected by a calibration of its own world; for*)
(* any aircraft, polls, queues, disturbances and calibration lengths.      *)
THEOREM SessionSafe == ASSUME Lossless PROVE Session!Spec => []AircraftSafety
<1>1. Session!Init => SessionInv
  BY StartFits
<1>2. SessionInv /\ [Session!Next]_(Session!vars) => SessionInv'
  BY WorkerAssumption, StepsKeep
<1>3. SessionInv => AircraftSafety
  BY Consequences
<1> QED BY <1>1, <1>2, <1>3, PTL DEF Session!Spec
=============================================================================
