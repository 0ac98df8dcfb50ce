--------------------------- MODULE CaptureManager ---------------------------
(***************************************************************************)
(* Ordering of captured camera images: graphics/scene_capture_manager and  *)
(* scene_capture_d3d12, driven by hooks/queue_submit_observer (the         *)
(* application's ExecuteCommandLists) and by scene_runtime's service.      *)
(*                                                                         *)
(* Capture commands are recorded into the application's own command lists, *)
(* which the application may execute on any queue, again and again, until  *)
(* it resets them.  Every batch that contains owned work becomes a         *)
(* transaction: the queue waits for the previous value of the device       *)
(* timeline, executes, and signals the next value.  A second thread that   *)
(* finds its queue busy cannot wait; its batch escapes the ordering and    *)
(* leaves a lock-free notice in the published word of the list.            *)
(*                                                                         *)
(* One device and one feed.  Each action is one section under the          *)
(* manager's mutex or one lock-free access.  The GPU is a FIFO of commands *)
(* per queue.  native is what a list really holds, content what a snapshot *)
(* really shows.                                                           *)
(***************************************************************************)
EXTENDS Integers, Sequences, SequencesExt, FiniteSets

CONSTANTS
  Threads,        \* application threads
  Service,        \* the thread of scene_runtime::service
  Queues,         \* application DIRECT queues
  PrivateQueue,   \* the queue of the compositor
  Lists,          \* application command lists
  Packets,        \* capture packets
  Batches,        \* batches the application submits: sequences of lists
  NoOne,          \* no transaction
  MaximumSignal,  \* MaximumCounter, for the timeline
  MaximumToken,   \* MaximumCounter, for packet tokens
  MaximumSession, \* MaximumCounter, for sessions
  Faults,         \* what may go wrong: names of Failures
  MaxQueued       \* bound of the model: commands a queue holds at a submit

(* Native calls that may fail, a nested submission and a lost device.      *)
Failures == {"Wait", "Signal", "fence", "Close", "nested", "destroy"}

AllQueues == Queues \cup {PrivateQueue}
AllThreads == Threads \cup {Service}

(* Transaction: the receipt of a batch that is ordered.                    *)
Transactions ==
  [by : AllThreads, queue : AllQueues, value : 1..MaximumSignal, packets : SUBSET Packets,
   positions : SUBSET (Packets \X Nat), last_position : Nat, private : BOOLEAN,
   source_work : BOOLEAN, session : 1..MaximumSession, refused : BOOLEAN]

ASSUME ManagerAssumption ==
  /\ Faults \subseteq Failures
  /\ Service \notin Threads /\ PrivateQueue \notin Queues
  /\ Batches \subseteq Seq(Lists) \ {<<>>}
  /\ MaximumSignal \in Nat /\ MaximumToken \in Nat /\ MaximumSession \in Nat \ {0}
  /\ MaxQueued \in Nat
  /\ NoOne \notin Transactions

VARIABLES
  device,       \* Device
  lists,        \* List
  published,    \* PublishedList::effects
  deferred,     \* deferred_recordings_ and deferred_uncertain_
  packets,      \* Packet
  next_token,   \* next_token_
  transaction,  \* transaction_, which the holder of submission_mutex_ owns
  thread,       \* where each submission is
  gpu,          \* commands each queue has not executed
  completed,    \* completed value of the timeline
  native,       \* what each list has recorded
  content       \* what each snapshot shows: order of the capture

vars == <<device, lists, published, deferred, packets, next_token, transaction,
          thread, gpu, completed, native, content>>

NoOrder == <<0, 0>>

Idle == [pc |-> "idle", queue |-> PrivateQueue, batch |-> <<>>, frames |-> {},
         nested |-> FALSE, seen |-> {}, value |-> 0]
Fresh == [gpu |-> "idle", assigned |-> FALSE, retired |-> FALSE, quarantined |-> FALSE,
          leased |-> FALSE, in_flight |-> 0, submitted |-> FALSE, producer |-> PrivateQueue,
          order |-> NoOrder, session |-> 0, token |-> 0, consumer_value |-> 0]
Word(item) == [packets |-> item.packets, consumer |-> item.consumer,
               touched |-> item.touched, awaiting |-> item.awaiting, escaped |-> FALSE]
Blank == [registered |-> FALSE, packets |-> {}, consumer |-> FALSE, touched |-> FALSE,
          awaiting |-> FALSE, session |-> 0]

(* finish_transaction keeps the mutex over the tail's native Execute.      *)
MutexFree == \A t \in AllThreads : thread[t].pc # "finish"
Occurs(fault) == IF fault \in Faults THEN BOOLEAN ELSE {FALSE}
-----------------------------------------------------------------------------
(* Helpers of the locked sections.  [pk, dev, pub] is what they change.    *)
(* Definitions named ..._Slip are plausible mistakes in the definition     *)
(* that follows; no action uses them.                                      *)
Quarantined(pk, S) ==
  [p \in Packets |-> IF p \in S /\ pk[p].assigned
                       THEN [pk[p] EXCEPT !.quarantined = TRUE] ELSE pk[p]]

Failed(s) ==
  [s EXCEPT !.dev.failed = TRUE, !.pk = Quarantined(s.pk, Packets)]

Refused_SlipForgetsConsumer(s, words) ==
  [s EXCEPT !.pk = Quarantined(s.pk, UNION {w.packets : w \in words})]

(* apply_recording_refusal, for each of a set of published words.          *)
Refused(s, words) ==
  LET q == [s EXCEPT !.pk = Quarantined(s.pk, UNION {w.packets : w \in words})]
  IN  IF \E w \in words : w.consumer THEN Failed(q) ELSE q

(* apply_deferred: takes the wake bit, the notices and the uncertainty.    *)
Settled ==
  LET s == [pk |-> packets, dev |-> device, pub |-> published]
      noticed == IF deferred.recordings THEN {l \in Lists : published[l].escaped} ELSE {}
      r == Refused([s EXCEPT !.pub = [l \in Lists |-> IF l \in noticed
                                        THEN [published[l] EXCEPT !.escaped = FALSE]
                                        ELSE published[l]]],
                   {published[l] : l \in noticed})
  IN  IF deferred.uncertain THEN Failed(r) ELSE r

NothingDeferred == [recordings |-> FALSE, uncertain |-> FALSE]

(* publish_list: the exchange consumes a notice left in the old word.      *)
Published(s, l, item) ==
  LET r == IF s.pub[l].escaped THEN Refused(s, {s.pub[l]}) ELSE s
  IN  [r EXCEPT !.pub[l] = Word(item)]

Recyclable(pk) ==
  {p \in Packets : /\ pk[p].assigned /\ ~pk[p].quarantined
                   /\ pk[p].gpu = "consuming" /\ pk[p].consumer_value <= completed}

Retirable_SlipIgnoresReceipts(pk) ==
  {p \in Packets : /\ pk[p].assigned /\ ~pk[p].quarantined /\ pk[p].retired
                   /\ pk[p].gpu = "recorded"}

Retirable(pk) ==
  {p \in Packets : /\ pk[p].assigned /\ ~pk[p].quarantined /\ pk[p].retired
                   /\ pk[p].in_flight = 0 /\ pk[p].gpu = "recorded"}

(* collect, after apply_deferred: recycle, discard_unsubmitted_retired and *)
(* retire_serialized_recording, whose Signal may fail.                     *)
Collected(pk, failing) ==
  [p \in Packets |->
     IF p \in Recyclable(pk)
       THEN [pk[p] EXCEPT !.gpu = "idle", !.consumer_value = 0, !.assigned = FALSE, !.leased = FALSE]
     ELSE IF p \notin Retirable(pk) THEN pk[p]
     ELSE IF ~pk[p].submitted THEN [pk[p] EXCEPT !.gpu = "idle", !.assigned = FALSE]
     ELSE IF p \in failing THEN [pk[p] EXCEPT !.gpu = "failed", !.quarantined = TRUE]
     ELSE [pk[p] EXCEPT !.gpu = "retiring"]]

Signals(pk) == {p \in Retirable(pk) : pk[p].submitted}
MayFail(pk) == IF "fence" \in Faults THEN SUBSET Signals(pk) ELSE {{}}

(* The producer-fence Signals collect queues.                              *)
Retired(pk, failing, g) ==
  [q \in AllQueues |->
     LET S == {p \in Signals(pk) \ failing : pk[p].producer = q}
     IN  IF S = {} THEN g[q] ELSE Append(g[q], [op |-> "fence", packets |-> S])]

Collect(pk, failing) ==
  failing \in MayFail(pk) /\ packets' = Collected(pk, failing)

(* The producer fence has passed the value of the packet's last Signal.    *)
ProducerDone(g, p) ==
  \A q \in AllQueues : \A i \in DOMAIN g[q] : g[q][i].op = "fence" => p \notin g[q][i].packets
-----------------------------------------------------------------------------
(* The device and its session.                                             *)
Apply(s) == device' = s.dev /\ packets' = s.pk /\ published' = s.pub

destroy_device ==
  /\ "destroy" \in Faults /\ MutexFree /\ device.active
  /\ Apply(Failed([pk |-> packets, dev |-> [device EXCEPT !.active = FALSE], pub |-> published]))
  /\ UNCHANGED <<lists, deferred, next_token, transaction, thread, gpu, completed, native, content>>

reset_session ==
  /\ MutexFree /\ device.active
  /\ LET off == [pk |-> packets, dev |-> [device EXCEPT !.session_active = FALSE], pub |-> published]
     IN  Apply(IF device.session >= MaximumSession THEN Failed(off)
               ELSE [off EXCEPT !.dev.session = @ + 1])
  /\ UNCHANGED <<lists, deferred, next_token, transaction, thread, gpu, completed, native, content>>

resume_session ==
  /\ MutexFree /\ device.active /\ ~device.failed /\ ~device.session_active
  /\ device' = [device EXCEPT !.session_active = TRUE]
  /\ UNCHANGED <<lists, published, deferred, packets, next_token, transaction, thread, gpu,
                 completed, native, content>>
-----------------------------------------------------------------------------
(* Recording.  The application owns a list from the call of Execute until  *)
(* the native Execute has taken it.                                        *)
BeforeNative == {"before", "bypass", "forward", "classify", "mark", "wake", "escape"}
Held(l) == \E t \in Threads : /\ thread[t].pc \in BeforeNative
                              /\ l \in Range(thread[t].batch)
Open(l) == native[l].open /\ ~Held(l)
Usable == device.active /\ ~device.failed

register_list(l, observed) ==
  /\ MutexFree /\ Usable /\ ~lists[l].registered
  /\ IF observed THEN native[l].fresh ELSE ~native[l].open
  /\ lists' = [lists EXCEPT ![l] = [Blank EXCEPT !.registered = TRUE, !.session = device.session,
                                                 !.awaiting = ~observed]]
  /\ Apply(Published([pk |-> packets, dev |-> device, pub |-> published], l, lists'[l]))
  /\ UNCHANGED <<deferred, next_token, transaction, thread, gpu, completed, native, content>>

(* capture_source on an application list.  Any free packet may be the one, *)
(* since initialising a packet, or recording into it, may fail.            *)
Assigned(s) ==
  [Fresh EXCEPT !.gpu = "recorded", !.assigned = TRUE, !.session = s.dev.session,
                !.token = next_token + 1]
Free(s, pk, p) ==
  Usable /\ ~s.dev.failed /\ ~pk[p].assigned /\ ~pk[p].quarantined /\ next_token < MaximumToken

capture_source(l, p, failing) ==
  /\ MutexFree /\ Open(l) /\ lists[l].registered /\ Usable /\ device.session_active
  /\ lists[l].session = device.session /\ lists[l].packets = {}
  /\ LET s == Settled
         pk == Collected(s.pk, failing)
     IN  /\ failing \in MayFail(s.pk)
         /\ gpu' = Retired(s.pk, failing, gpu)
         /\ IF Free(s, pk, p)
              THEN /\ lists' = [lists EXCEPT ![l].packets = {p}]
                   /\ Apply(Published([s EXCEPT !.pk = [pk EXCEPT ![p] = Assigned(s)]], l, lists'[l]))
                   /\ next_token' = next_token + 1
                   /\ native' = [native EXCEPT ![l].writes = {<<p, next_token + 1>>}, ![l].fresh = FALSE]
              ELSE /\ Apply([s EXCEPT !.pk = pk])
                   /\ UNCHANGED <<lists, next_token, native>>
  /\ deferred' = NothingDeferred
  /\ UNCHANGED <<transaction, thread, completed, content>>

register_consumer_recording(l) ==
  /\ MutexFree /\ Open(l) /\ lists[l].registered /\ Usable /\ device.session_active
  /\ lists[l].session = device.session /\ ~lists[l].consumer
  /\ lists' = [lists EXCEPT ![l].consumer = TRUE]
  /\ Apply(Published([pk |-> packets, dev |-> device, pub |-> published], l, lists'[l]))
  /\ native' = [native EXCEPT ![l].reads_output = TRUE, ![l].fresh = FALSE]
  /\ UNCHANGED <<deferred, next_token, transaction, thread, gpu, completed, content>>

(* touch_sources, from every draw and barrier on a camera source.          *)
touch_sources(l) ==
  /\ MutexFree /\ Open(l) /\ lists[l].registered /\ ~lists[l].touched
  /\ lists' = [lists EXCEPT ![l].touched = TRUE]
  /\ Apply(Published([pk |-> packets, dev |-> device, pub |-> published], l, lists'[l]))
  /\ native' = [native EXCEPT ![l].fresh = FALSE]
  /\ UNCHANGED <<deferred, next_token, transaction, thread, gpu, completed, content>>

Close(l) ==
  /\ Open(l)
  /\ native' = [native EXCEPT ![l].open = FALSE, ![l].fresh = FALSE]
  /\ UNCHANGED <<device, lists, published, deferred, packets, next_token, transaction, thread,
                 gpu, completed, content>>

Empty == [writes |-> {}, reads_output |-> FALSE, open |-> TRUE, fresh |-> TRUE]

retire_list(l, item, failing) ==
  LET s == Settled
      marked == [s EXCEPT !.pk = [p \in Packets |-> IF p \in lists[l].packets
                                    THEN [s.pk[p] EXCEPT !.retired = TRUE] ELSE s.pk[p]]]
      r == Published(marked, l, item)
  IN  /\ lists' = [lists EXCEPT ![l] = item]
      /\ device' = r.dev /\ published' = r.pub
      /\ Collect(r.pk, failing)
      /\ gpu' = Retired(r.pk, failing, gpu)
      /\ deferred' = NothingDeferred
          /\ native' = [native EXCEPT ![l] = Empty]
      /\ UNCHANGED <<next_token, transaction, thread, completed, content>>

successful_reset(l, failing) ==
  /\ MutexFree /\ ~native[l].open /\ ~Held(l) /\ lists[l].registered
  /\ retire_list(l, [Blank EXCEPT !.registered = TRUE, !.session = device.session], failing)

(* Native destruction; the address may come back as a new list.            *)
destroy_command_list(l, failing) ==
  /\ MutexFree /\ ~Held(l) /\ lists[l].registered
  /\ retire_list(l, Blank, failing)
-----------------------------------------------------------------------------
(* Submission of a batch by an application thread (queue_submit: submit).  *)
QueueBusy(q) == \E t \in Threads :
  thread[t].pc \in {"before", "forward", "after", "finish"} /\ thread[t].queue = q

Owned(w) == w.packets # {} \/ w.consumer
Unrelated(w) == ~Owned(w) /\ ~w.touched /\ ~w.awaiting

Step(t, pc) == thread' = [thread EXCEPT ![t].pc = pc]
Return(t) == thread' = [thread EXCEPT ![t] = Idle]

submit(t, q, batch) ==
  /\ thread[t].pc = "idle" /\ Len(gpu[q]) < MaxQueued
  /\ \A l \in Range(batch) : ~native[l].open /\ ~Held(l)
  /\ thread' = [thread EXCEPT ![t] = [Idle EXCEPT !.pc = IF QueueBusy(q) THEN "classify" ELSE "before",
                                                  !.queue = q, !.batch = batch]]
  /\ UNCHANGED <<device, lists, published, deferred, packets, next_token, transaction, gpu,
                 completed, native, content>>

(* The early returns of before_submission: every list is known to hold no  *)
(* owned work and no source effect.                                        *)
before_unrelated(t) ==
  /\ thread[t].pc = "before"
  /\ \A l \in Range(thread[t].batch) : lists[l].registered /\ Unrelated(published[l])
  /\ Step(t, "bypass")
  /\ UNCHANGED <<device, lists, published, deferred, packets, next_token, transaction, gpu,
                 completed, native, content>>

Positions(batch, S) ==
  {<<p, CHOOSE i \in DOMAIN batch : /\ p \in lists[batch[i]].packets
                                    /\ \A j \in i + 1..Len(batch) : p \notin lists[batch[j]].packets>>
     : p \in S}

Transaction(t, q, value, S, batch, private, source) ==
  [by |-> t, queue |-> q, value |-> value, packets |-> S, positions |-> Positions(batch, S),
   last_position |-> Len(batch), private |-> private, source_work |-> source,
   session |-> device.session, refused |-> FALSE]

begin_transaction_SlipSkipsWait(t, q, s, S, batch, private, source) ==
  IF ~s.dev.active \/ s.dev.failed \/ s.dev.last_signal >= MaximumSignal
    THEN /\ Apply(Failed(s))
         /\ UNCHANGED <<transaction, gpu>>
    ELSE /\ Apply([s EXCEPT !.pk = [p \in Packets |-> IF p \in S THEN [s.pk[p] EXCEPT !.in_flight = @ + 1]
                                                      ELSE s.pk[p]]])
         /\ transaction' = Transaction(t, q, s.dev.last_signal + 1, S, batch, private, source)
         /\ UNCHANGED gpu

begin_transaction_SlipWaitsForOwn(t, q, s, S, batch, private, source) ==
  /\ Apply([s EXCEPT !.pk = [p \in Packets |-> IF p \in S THEN [s.pk[p] EXCEPT !.in_flight = @ + 1]
                                               ELSE s.pk[p]]])
  /\ s.dev.active /\ ~s.dev.failed /\ s.dev.last_signal < MaximumSignal
  /\ transaction' = Transaction(t, q, s.dev.last_signal + 1, S, batch, private, source)
  /\ gpu' = [gpu EXCEPT ![q] = Append(@, [op |-> "wait", value |-> s.dev.last_signal + 1])]

(* begin_transaction.  A refusal, or a Wait that fails, fails the device   *)
(* and leaves no transaction.                                              *)
begin_transaction(t, q, s, S, batch, private, source) ==
  \/ /\ \/ ~s.dev.active \/ s.dev.failed \/ s.dev.last_signal >= MaximumSignal
        \/ s.dev.last_signal # 0 /\ "Wait" \in Faults
     /\ Apply(Failed(s))
     /\ UNCHANGED <<transaction, gpu>>
  \/ /\ s.dev.active /\ ~s.dev.failed /\ s.dev.last_signal < MaximumSignal
     /\ Apply([s EXCEPT !.pk = [p \in Packets |-> IF p \in S THEN [s.pk[p] EXCEPT !.in_flight = @ + 1]
                                                  ELSE s.pk[p]]])
     /\ transaction' = Transaction(t, q, s.dev.last_signal + 1, S, batch, private, source)
     /\ gpu' = IF s.dev.last_signal = 0 THEN gpu
               ELSE [gpu EXCEPT ![q] = Append(@, [op |-> "wait", value |-> s.dev.last_signal])]

(* The section of before_submission under both mutexes.                    *)
before_submission(t) ==
  /\ thread[t].pc = "before" /\ transaction = NoOne
  /\ LET s == Settled
         batch == thread[t].batch
         known == {l \in Range(batch) : lists[l].registered /\ ~lists[l].awaiting}
         related == {l \in known : lists[l].packets # {} \/ lists[l].consumer \/ lists[l].touched}
     IN  IF related = {}
           THEN Apply(s) /\ Step(t, "bypass") /\ UNCHANGED <<transaction, gpu>>
           ELSE /\ begin_transaction(t, thread[t].queue, s, UNION {lists[l].packets : l \in related},
                                     batch, FALSE, \E l \in related : lists[l].touched)
                /\ Step(t, IF transaction' = NoOne THEN "bypass" ELSE "forward")
  /\ deferred' = NothingDeferred
  /\ UNCHANGED <<lists, next_token, completed, native, content>>

(* What the native lists of a batch really do.                             *)
Exec(batch, value) ==
  [op |-> "exec", value |-> value,
   writes |-> UNION {{<<w[1], w[2], i>> : w \in native[batch[i]].writes} : i \in DOMAIN batch},
   reads |-> {},
   output |-> IF \E l \in Range(batch) : native[l].reads_output THEN "read" ELSE "none"]

(* A batch without owned work leaves nothing to follow on the queue.       *)
Enqueued(q, c) ==
  IF c.writes = {} /\ c.output = "none" THEN gpu ELSE [gpu EXCEPT ![q] = Append(@, c)]

(* The native Execute.  It may re-enter the hook with a nested batch.      *)
forward(t, nested) ==
  /\ thread[t].pc = "forward" /\ nested \in Occurs("nested")
  /\ gpu' = Enqueued(thread[t].queue, Exec(thread[t].batch, transaction.value))
  /\ thread' = [thread EXCEPT ![t].pc = "after", ![t].nested = nested]
  /\ UNCHANGED <<device, lists, published, deferred, packets, next_token, transaction, completed,
                 native, content>>

forward_unordered(t) ==
  /\ thread[t].pc \in {"bypass", "escape"}
  /\ gpu' = Enqueued(thread[t].queue, Exec(thread[t].batch, 0))
  /\ Return(t)
  /\ UNCHANGED <<device, lists, published, deferred, packets, next_token, transaction, completed,
                 native, content>>
-----------------------------------------------------------------------------
(* A contended batch: classify_unobserved with mark_owned reads the words, *)
(* marks them with one compare-exchange each and then sets the wake bit.   *)
classify(t) ==
  /\ thread[t].pc = "classify"
  /\ thread' = [thread EXCEPT ![t].pc = "mark",
                  ![t].seen = {<<l, published[l].escaped>> :
                                 l \in {x \in Range(thread[t].batch) : Owned(published[x])}}]
  /\ UNCHANGED <<device, lists, published, deferred, packets, next_token, transaction, gpu,
                 completed, native, content>>

mark(t) ==
  LET owned == {w[1] : w \in thread[t].seen}
      marked == {l \in Lists : <<l, published[l].escaped>> \in thread[t].seen}
  IN  /\ thread[t].pc = "mark"
      /\ published' = [l \in Lists |-> IF l \in marked THEN [published[l] EXCEPT !.escaped = TRUE]
                                       ELSE published[l]]
      /\ deferred' = [deferred EXCEPT !.uncertain = @ \/ owned # marked]
      /\ Step(t, IF marked = {} THEN "escape" ELSE "wake")
      /\ UNCHANGED <<device, lists, packets, next_token, transaction, gpu, completed, native, content>>

wake(t) ==
  /\ thread[t].pc = "wake"
  /\ deferred' = [deferred EXCEPT !.recordings = TRUE]
  /\ Step(t, "escape")
  /\ UNCHANGED <<device, lists, published, packets, next_token, transaction, gpu, completed,
                 native, content>>
-----------------------------------------------------------------------------
(* finish_transaction up to the native Signal.  record_queue_tail copies a *)
(* source, when the effects of the batch prove its state (SceneSourceState *)
(* keeps that proof), into a packet of its own and executes the copy.      *)
CaptureTail(p, token, at, g) ==
  /\ transaction' = [transaction EXCEPT !.packets = @ \cup {p},
                        !.last_position = at, !.positions = @ \cup {<<p, at>>}]
  /\ gpu' = [g EXCEPT ![transaction.queue] =
               Append(@, [op |-> "exec", value |-> transaction.value, reads |-> {},
                          writes |-> {<<p, token, at>>}, output |-> "none"])]

record_queue_tail(s, p, closed, failing) ==
  LET pk == Collected(s.pk, failing)
      g == Retired(s.pk, failing, gpu)
      item == [Assigned(s) EXCEPT !.retired = TRUE]
  IN  /\ s.dev.session_active /\ transaction.session = s.dev.session
      /\ failing \in MayFail(s.pk)
      /\ Free(s, pk, p) /\ (~closed) \in Occurs("Close")
      /\ next_token' = next_token + 1
      /\ IF closed
           THEN /\ packets' = [pk EXCEPT ![p] = [item EXCEPT !.in_flight = 1]]
                /\ CaptureTail(p, item.token, transaction.last_position + 1, g)
           ELSE /\ packets' = [pk EXCEPT ![p] = [item EXCEPT !.quarantined = TRUE]]
                /\ gpu' = g /\ UNCHANGED transaction

finish_tail_SlipNeedsSession(t, p, closed, failing) ==
  /\ thread[t].pc = "after" /\ MutexFree /\ device.session_active /\ ~device.failed
  /\ transaction' = [transaction EXCEPT !.refused = thread[t].nested]
  /\ Step(t, "finish")
  /\ UNCHANGED <<device, lists, published, deferred, packets, next_token, gpu, completed, native, content>>

finish_tail(t, p, closed, failing) ==
  /\ thread[t].pc = "after" /\ MutexFree
  /\ LET s == Settled
         refused == thread[t].nested \/ s.dev.failed
     IN  /\ device' = s.dev /\ published' = s.pub
         /\ \/ /\ packets' = s.pk
               /\ transaction' = [transaction EXCEPT !.refused = refused]
               /\ UNCHANGED <<gpu, next_token>>
            \/ ~refused /\ transaction.source_work /\ record_queue_tail(s, p, closed, failing)
  /\ deferred' = NothingDeferred
  /\ Step(t, "finish")
  /\ UNCHANGED <<lists, completed, native, content>>

Settle_SlipKeepsOrder(pk, ok) ==
  [p \in Packets |->
     IF p \notin transaction.packets THEN pk[p]
     ELSE IF ok THEN [pk[p] EXCEPT !.in_flight = @ - 1, !.submitted = TRUE, !.producer = transaction.queue,
                        !.order = IF pk[p].submitted THEN @ ELSE
                                  <<transaction.value, CHOOSE i \in 1..transaction.last_position :
                                                          <<p, i>> \in transaction.positions>>]
     ELSE [pk[p] EXCEPT !.in_flight = @ - 1, !.quarantined = TRUE]]

Settle_SlipLeaksReceipt(pk, ok) ==
  [p \in Packets |->
     IF p \notin transaction.packets THEN pk[p]
     ELSE [pk[p] EXCEPT !.submitted = ok, !.producer = transaction.queue]]

(* What finish_transaction does to the packets of the receipt.             *)
Settle(pk, ok) ==
  [p \in Packets |->
     IF p \notin transaction.packets THEN pk[p]
     ELSE IF ok THEN [pk[p] EXCEPT !.in_flight = @ - 1, !.submitted = TRUE, !.producer = transaction.queue,
                        !.order = <<transaction.value, CHOOSE i \in 1..transaction.last_position :
                                                          <<p, i>> \in transaction.positions>>]
     ELSE [pk[p] EXCEPT !.in_flight = @ - 1, !.quarantined = TRUE]]

(* The end of finish_transaction: Signal, which may fail, apply_deferred,  *)
(* the packets of the receipt, collect and the release of both mutexes.    *)
finish_signal(t, signalled, failing) ==
  /\ thread[t].pc = "finish" /\ (~signalled) \in Occurs("Signal")
  /\ LET s == Settled
         refused == transaction.refused \/ s.dev.failed
         done == IF signalled THEN [s EXCEPT !.dev.last_signal = transaction.value] ELSE Failed(s)
         pk == Settle(done.pk, signalled /\ ~refused)
         q == transaction.queue
         g == IF signalled THEN [gpu EXCEPT ![q] = Append(@, [op |-> "signal", value |-> transaction.value])]
              ELSE gpu
     IN  /\ device' = done.dev /\ published' = done.pub
         /\ Collect(pk, failing)
         /\ gpu' = Retired(pk, failing, g)
         /\ IF t # Service THEN Return(t)
            ELSE Step(t, IF signalled /\ ~refused THEN "consume" ELSE "stopped")
  /\ deferred' = NothingDeferred
  /\ transaction' = NoOne
  /\ UNCHANGED <<lists, next_token, completed, native, content>>
-----------------------------------------------------------------------------
(* scene_runtime::service: poll_completed_frames, and one private batch    *)
(* that reads the frames and writes the stable output.                     *)
Pollable(pk, g) ==
  {p \in Packets : /\ pk[p].assigned /\ ~pk[p].quarantined /\ ~pk[p].leased
                   /\ pk[p].gpu = "ready" \/ (pk[p].gpu = "retiring" /\ ProducerDone(g, p))}

(* Frames of another session, or of a scene that is no longer current, are *)
(* returned unread.  A failed service keeps polling; it composes no more.  *)
poll_completed_frames(current, failing) ==
  /\ MutexFree /\ thread[Service].pc \in {"idle", "stopped"}
  /\ LET s == Settled
         pk == Collected(s.pk, failing)
         polled == Pollable(pk, gpu')
         stale == {p \in polled : p \notin current \/ ~s.dev.session_active
                                   \/ pk[p].session # s.dev.session}
     IN  /\ failing \in MayFail(s.pk) /\ gpu' = Retired(s.pk, failing, gpu)
         /\ device' = s.dev /\ published' = s.pub
         /\ packets' = [p \in Packets |->
              IF p \notin polled THEN pk[p]
              ELSE IF ~s.dev.active \/ s.dev.failed
                THEN [pk[p] EXCEPT !.gpu = "ready", !.quarantined = TRUE]
              ELSE IF p \in stale THEN [pk[p] EXCEPT !.gpu = "consuming", !.consumer_value = s.dev.last_signal]
              ELSE [pk[p] EXCEPT !.gpu = "ready", !.leased = TRUE]]
  /\ deferred' = NothingDeferred
  /\ UNCHANGED <<lists, next_token, transaction, thread, completed, native, content>>

Leased(p) == packets[p].assigned /\ packets[p].leased /\ ~packets[p].quarantined

finish_consumption_SlipNextValue(S, value) ==
  packets' = [p \in Packets |-> IF p \notin S THEN packets[p]
    ELSE [packets[p] EXCEPT !.gpu = "consuming", !.leased = FALSE,
                            !.consumer_value = IF value < MaximumSignal THEN value + 1 ELSE value]]

finish_consumption(S, value) ==
  packets' = [p \in Packets |-> IF p \notin S THEN packets[p]
    ELSE [packets[p] EXCEPT !.gpu = "consuming", !.consumer_value = value, !.leased = FALSE]]

discard_frame(p) ==
  /\ MutexFree /\ Leased(p)
  /\ thread[Service].pc = "idle" \/ (thread[Service].pc = "stopped" /\ p \notin thread[Service].frames)
  /\ finish_consumption({p}, device.last_signal)
  /\ UNCHANGED <<device, lists, published, deferred, next_token, transaction, thread, gpu,
                 completed, native, content>>

begin_private_submission(frames) ==
  /\ MutexFree /\ transaction = NoOne /\ thread[Service].pc = "idle"
  /\ device.session_active
  /\ frames # {} /\ \A p \in frames : packets[p].leased
  /\ begin_transaction(Service, PrivateQueue, Settled, {}, <<>>, TRUE, FALSE)
  /\ thread' = [thread EXCEPT ![Service].pc = IF transaction' = NoOne THEN "stopped" ELSE "forward",
                              ![Service].frames = IF transaction' = NoOne THEN {} ELSE frames,
                              ![Service].value = device.last_signal + 1]
  /\ deferred' = NothingDeferred
  /\ UNCHANGED <<lists, next_token, completed, native, content>>

(* SceneFrameOutput::submit.                                               *)
forward_private ==
  /\ thread[Service].pc = "forward"
  /\ gpu' = [gpu EXCEPT ![PrivateQueue] =
       Append(@, [op |-> "exec", value |-> transaction.value, writes |-> {}, output |-> "write",
                  reads |-> {<<p, packets[p].token>> : p \in thread[Service].frames}])]
  /\ Step(Service, "after")
  /\ UNCHANGED <<device, lists, published, deferred, packets, next_token, transaction, completed,
                 native, content>>

consume ==
  /\ MutexFree /\ thread[Service].pc = "consume"
  /\ finish_consumption({p \in thread[Service].frames : Leased(p)}, thread[Service].value)
  /\ Return(Service)
  /\ UNCHANGED <<device, lists, published, deferred, next_token, transaction, gpu, completed,
                 native, content>>
-----------------------------------------------------------------------------
(* The GPU: each queue executes its commands in order.                     *)
Runnable(q) == gpu[q] # <<>> /\ (Head(gpu[q]).op = "wait" => completed >= Head(gpu[q]).value)

execute(q) ==
  /\ Runnable(q)
  /\ gpu' = [gpu EXCEPT ![q] = Tail(@)]
  /\ LET c == Head(gpu[q]) IN
     /\ completed' = IF c.op = "signal" THEN c.value ELSE completed
     /\ content' = IF c.op # "exec" THEN content
          ELSE [p \in Packets |->
                  LET at == {w[3] : w \in {x \in c.writes : x[1] = p}}
                  IN  IF at = {} THEN content[p]
                      ELSE <<c.value, CHOOSE i \in at : \A j \in at : j <= i>>]
  /\ UNCHANGED <<device, lists, published, deferred, packets, next_token, transaction, thread, native>>
-----------------------------------------------------------------------------
Init ==
  /\ device = [active |-> TRUE, failed |-> FALSE, session |-> 1, session_active |-> TRUE, last_signal |-> 0]
  /\ lists = [l \in Lists |-> [Blank EXCEPT !.registered = TRUE, !.session = 1]]
  /\ published = [l \in Lists |-> Word(Blank)]
  /\ deferred = NothingDeferred
  /\ packets = [p \in Packets |-> Fresh]
  /\ next_token = 0
  /\ transaction = NoOne
  /\ thread = [t \in AllThreads |-> Idle]
  /\ gpu = [q \in AllQueues |-> <<>>]
  /\ completed = 0
  /\ native = [l \in Lists |-> Empty]
  /\ content = [p \in Packets |-> NoOrder]

Next ==
  \/ destroy_device \/ reset_session \/ resume_session
  \/ \E l \in Lists :
       \/ \E observed \in BOOLEAN : register_list(l, observed)
       \/ \E p \in Packets, failing \in SUBSET Packets : capture_source(l, p, failing)
       \/ register_consumer_recording(l) \/ touch_sources(l) \/ Close(l)
       \/ \E failing \in SUBSET Packets : successful_reset(l, failing) \/ destroy_command_list(l, failing)
  \/ \E t \in Threads :
       \/ \E q \in Queues, batch \in Batches : submit(t, q, batch)
       \/ before_unrelated(t) \/ before_submission(t) \/ forward_unordered(t)
       \/ \E nested \in BOOLEAN : forward(t, nested)
       \/ classify(t) \/ mark(t) \/ wake(t)
  \/ \E t \in AllThreads :
       \/ \E p \in Packets, closed \in BOOLEAN, failing \in SUBSET Packets :
            finish_tail(t, p, closed, failing)
       \/ \E signalled \in BOOLEAN, failing \in SUBSET Packets : finish_signal(t, signalled, failing)
  \/ \E current, failing \in SUBSET Packets : poll_completed_frames(current, failing)
  \/ \E p \in Packets : discard_frame(p)
  \/ \E frames \in SUBSET Packets : begin_private_submission(frames)
  \/ forward_private \/ consume
  \/ \E q \in AllQueues : execute(q)

Spec == Init /\ [][Next]_vars

(* The GPU executes what is queued, a thread inside the hook or the        *)
(* manager runs on, and service polls on every tick.                       *)
Fairness ==
  /\ \A q \in AllQueues : WF_vars(execute(q))
  /\ \A t \in Threads : WF_vars(forward(t, FALSE))
  /\ \A t \in AllThreads :
       /\ WF_vars(\E p \in Packets : finish_tail(t, p, TRUE, {}))
       /\ WF_vars(\E failing \in SUBSET Packets : finish_signal(t, TRUE, failing))
  /\ WF_vars(forward_private) /\ WF_vars(consume)
  /\ WF_vars(\E current, failing \in SUBSET Packets : poll_completed_frames(current, failing))

FairSpec == Spec /\ Fairness
-----------------------------------------------------------------------------
Orders == (0..MaximumSignal) \X Nat

(* Every structure the manager keeps stays within its declared domain.     *)
TypeOK ==
  /\ device \in [active : BOOLEAN, failed : BOOLEAN, session : 1..MaximumSession,
                 session_active : BOOLEAN, last_signal : 0..MaximumSignal]
  /\ lists \in [Lists -> [registered : BOOLEAN, packets : SUBSET Packets, consumer : BOOLEAN,
                          touched : BOOLEAN, awaiting : BOOLEAN, session : 0..MaximumSession]]
  /\ published \in [Lists -> [packets : SUBSET Packets, consumer : BOOLEAN, touched : BOOLEAN,
                              awaiting : BOOLEAN, escaped : BOOLEAN]]
  /\ deferred \in [recordings : BOOLEAN, uncertain : BOOLEAN]
  /\ packets \in [Packets ->
       [gpu : {"idle", "recorded", "retiring", "ready", "consuming", "failed"},
        assigned : BOOLEAN, retired : BOOLEAN, quarantined : BOOLEAN, leased : BOOLEAN,
        in_flight : 0..1, submitted : BOOLEAN, producer : AllQueues, order : Orders,
        session : 0..MaximumSession, token : 0..MaximumToken, consumer_value : 0..MaximumSignal]]
  /\ next_token \in 0..MaximumToken /\ completed \in 0..MaximumSignal
  /\ content \in [Packets -> Orders]

Pending(q) == {gpu[q][i] : i \in {j \in DOMAIN gpu[q] : gpu[q][j].op = "exec"}}
Writers(p) == UNION {{c \in Pending(q) : \E w \in c.writes : w[1] = p} : q \in AllQueues}

(* A frame that poll_completed_frames hands out shows exactly the capture  *)
(* its order names, and nothing queued on the GPU, however its list was    *)
(* replayed or escaped, will still write to it.                            *)
LeasedFrameIsFinal ==
  \A p \in Packets : packets[p].leased => content[p] = packets[p].order /\ Writers(p) = {}

(* A packet is reassigned only when no queued command, and no list the     *)
(* application can still execute, refers to its previous recording.        *)
NoReuseUnderTheGpu ==
  LET live == (UNION {native[l].writes : l \in Lists})
              \cup (UNION {{<<w[1], w[2]>> : w \in c.writes} \cup c.reads : c \in UNION {Pending(q) : q \in AllQueues}})
  IN  \A r \in live : packets[r[1]].assigned /\ packets[r[1]].token = r[2]

(* Every Wait targets a Signal that is already queued, so that the queues  *)
(* can never all be blocked.                                               *)
GpuNeverStuck ==
  (\E q \in AllQueues : gpu[q] # <<>>) => \E q \in AllQueues : Runnable(q)

Executing(q) == Runnable(q) /\ Head(gpu[q]).op = "exec"

(* The GPU never works on two receipts at once.                            *)
ReceiptsAreSerial ==
  \A q, r \in AllQueues : q # r /\ Executing(q) /\ Executing(r)
    => Head(gpu[q]).value = 0 \/ Head(gpu[r]).value = 0

(* A list that reads the stable output while the compositor writes it has  *)
(* escaped the ordering, and the manager knows: the device has failed or   *)
(* will fail at the next apply_deferred.                                   *)
OutputRaceIsKnown ==
  (\E q, r \in AllQueues : /\ q # r /\ Executing(q) /\ Executing(r)
                           /\ Head(gpu[q]).output = "write" /\ Head(gpu[r]).output = "read")
    => \/ device.failed \/ deferred.uncertain
       \/ \E l \in Lists : published[l].escaped /\ published[l].consumer

(* Every receipt ends and releases the submission mutex.                   *)
ReceiptsEnd == transaction # NoOne ~> transaction = NoOne

(* A frame that was returned, by a reader or unread, comes back to the     *)
(* pool: its fence value is always one the GPU reaches.                    *)
ConsumedPacketsReturn ==
  \A p \in Packets : packets[p].gpu = "consuming" ~> packets[p].gpu # "consuming" \/ packets[p].quarantined

(* What the manager never gets wrong: no packet is reused under the GPU,   *)
(* no queue waits for a signal nobody queued, receipts are serial.         *)
CaptureSafety ==
  /\ TypeOK /\ NoReuseUnderTheGpu /\ OutputRaceIsKnown /\ GpuNeverStuck /\ ReceiptsAreSerial
=============================================================================
