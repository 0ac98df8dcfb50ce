---------------------------- MODULE TaxiButtons -----------------------------
(***************************************************************************)
(* The aircraft's two TAXI buttons, driven over SimConnect:                *)
(* camera/taxi_button_command, camera/taxi_speed_cutoff and the worker     *)
(* loop of camera/body_pose_provider.                                      *)
(*                                                                         *)
(* One worker asks for samples of the latches, receives replies, decides   *)
(* under the cache lock, and sends with no lock held.  The control thread  *)
(* updates the request and resets the session between any two of those     *)
(* steps, and pilots press the buttons.  A push event toggles the latch, a *)
(* variable write (lvar_off) sets it, manual_only aircraft have no latch.  *)
(*                                                                         *)
(* Time is kept as ages: a timestamp of the code is the number of ticks    *)
(* since it was taken, up to Never, which also stands for no timestamp.    *)
(* Every comparison the code makes is exact for ages below Never, and time *)
(* needs no bound.                                                         *)
(*                                                                         *)
(* SimConnect is what the worker sees of it: it serves one connection's    *)
(* calls in order and its replies arrive in order.  sends is history.      *)
(***************************************************************************)
EXTENDS Integers, Sequences, SequencesExt

CONSTANTS
  Sides,            \* sides in the order of the code's loops, from 0
  Controls,         \* kinds of TAXI control a profile may have
  Fresh,            \* 500 ms: age of a usable sample or permission
  RequestLifetime,  \* 3000 ms: life of a request
  RetryDelay,       \* 1000 ms: between two attempts of the cutoff
  Never,            \* an age beyond all of these
  Stall,            \* bound of the model: ticks between reading and deciding
  MaxSerial,        \* bound of the model: requests
  MaxQueued,        \* bound of the model: calls and replies outstanding,
                    \* two commands beyond it
  Presses,          \* controls whose buttons pilots press as well
  Untracked,        \* whether SimConnect may fail to number a call
  Resets            \* controls under which sessions are reset on a kept connection

(* What the constants are assumed to be; the runs evaluate it.             *)
ASSUME TaxiAssumption ==
  /\ Sides \subseteq {0, 1} /\ Controls \subseteq {"push_event", "lvar_off", "manual_only"}
  /\ {Fresh, RequestLifetime, RetryDelay, Never, Stall, MaxSerial, MaxQueued} \subseteq Nat
  /\ Never > Fresh + Stall /\ Never >= RequestLifetime + Stall /\ Never >= RetryDelay + Stall
  /\ Presses \subseteq Controls /\ Resets \subseteq Controls /\ Untracked \in BOOLEAN

VARIABLES
  control,     \* the selected profile's TaxiControl
  latch,       \* sides whose TAXI button is on, in the aircraft
  pipe,        \* calls SimConnect has accepted and not served
  inbox,       \* replies the worker has not dispatched
  packets,     \* taxi_command_packets: the last command of a side
  cache,       \* taxi_left, taxi_right, taxi_ms
  identity,    \* [known, poll]: a coherent identity, the poll it waits for
  cutoff,      \* TaxiSpeedCutoff
  command,     \* TaxiButtonCommand
  worker,      \* the worker between two of its locked sections
  sends        \* per side, the request served last and how often

vars == <<control, latch, pipe, inbox, packets, cache, identity, cutoff, command, worker, sends>>

Ages   == 0..Never
Ids    == 1..(MaxQueued + 6)
Speeds == {"unknown", "under", "over"}
Older(age) == IF age < Never THEN age + 1 ELSE age

NoSample   == [on |-> {}, age |-> Never]
NoIdentity == [known |-> FALSE, poll |-> 0]
NoFlight   == [active |-> FALSE, desired |-> FALSE, sample |-> Never, sent |-> Never, serial |-> 0]
NoDecision == [send |-> {}, desired |-> {}, cutoff |-> {}, serial |-> 0, sample |-> Never]
NoRequest  == [serial |-> 0, current |-> FALSE, selected |-> {}, desired |-> {}]
AtRest     == [at |-> "wait", speed |-> "unknown", seen |-> NoSample, now |-> 0,
               decision |-> NoDecision, left |-> {}]
Cutoff     == [over |-> FALSE, pending |-> {}, waiting |-> {},
               sample |-> [s \in Sides |-> Never], attempt |-> [s \in Sides |-> Never]]

(* SimConnect numbers its packets; a number not in use is as good as new.  *)
Used    == {q.id : q \in ToSet(pipe) \cup ToSet(inbox)} \cup {packets[s] : s \in Sides} \cup {identity.poll}
FreshId == CHOOSE i \in Ids : i \notin Used
Queued  == Len(pipe) + Len(inbox)
Call(kind, side, on, id) == [kind |-> kind, side |-> side, on |-> on, id |-> id]
-----------------------------------------------------------------------------
(* TaxiSpeedCutoff.  A side in commands is to be switched off now.         *)
(* Definitions named ..._Slip are plausible mistakes in the definition     *)
(* that follows; no action uses them.                                      *)
aircraft_buttons == control # "manual_only"

inhibited_SlipOnlySpeed(c) == c.over

inhibited(c) == c.over \/ c.pending # {}

cutoff_over(c, speed) == IF speed = "unknown" THEN c.over ELSE speed = "over"

cutoff_acknowledged(c, seen) ==
  {s \in Sides \ seen.on : s \notin c.waiting \/ seen.age < c.sample[s]}

cutoff_due(c, seen, now) ==
  {s \in seen.on : s \in c.pending /\ s \notin c.waiting /\ c.attempt[s] - now >= RetryDelay}

cutoff_update(c, speed, seen, valid, now) ==
  LET over == cutoff_over(c, speed)
      held == [c EXCEPT !.over = over, !.pending = IF over THEN Sides ELSE @]
      done == cutoff_acknowledged(held, seen)
      due  == cutoff_due(held, seen, now)
  IN IF ~aircraft_buttons
     THEN [cutoff |-> [c EXCEPT !.over = over, !.pending = {}, !.waiting = {}], commands |-> {}]
     ELSE IF ~valid THEN [cutoff |-> held, commands |-> {}]
     ELSE [cutoff |-> [held EXCEPT !.pending = @ \ done, !.waiting = @ \ done,
                                   !.sample  = [s \in Sides |-> IF s \in due THEN seen.age ELSE @[s]],
                                   !.attempt = [s \in Sides |-> IF s \in due THEN now ELSE @[s]]],
           commands |-> due]
-----------------------------------------------------------------------------
(* TaxiButtonCommand.                                                      *)
Fail(c) == [c EXCEPT !.pending = {}]

Expired(c, now) == ~c.permission \/ c.permitted < now \/ c.permitted - now > Fresh

Refused_SlipNoDeadline(c, now, inhibit) ==
  \/ Expired(c, now)
  \/ ~c.latest.current \/ ~aircraft_buttons
  \/ inhibit /\ c.latest.desired \cap c.pending # {}

Refused(c, now, inhibit) ==
  \/ Expired(c, now)
  \/ ~c.latest.current \/ ~aircraft_buttons
  \/ c.started < now \/ c.started - now >= RequestLifetime
  \/ inhibit /\ c.latest.desired \cap c.pending # {}

(* No step reads the terms and times of a request that is over: only its   *)
(* serial is kept.  Whether it failed, and the error text, is output.      *)
Settled(c) ==
  IF c.pending # {} THEN c
  ELSE [c EXCEPT !.permission = FALSE, !.permitted = Never, !.started = Never,
                 !.latest = [NoRequest EXCEPT !.serial = c.latest.serial]]

Acknowledged(f, seen, s) ==
  f.active /\ seen.age < f.sample /\ seen.age < f.sent /\ (s \in seen.on) = f.desired

command_update_SlipReplays(r, permitted) ==
  LET c == [IF ~permitted \/ r.serial = 0 THEN Fail(command) ELSE command
              EXCEPT !.permission = permitted, !.permitted = 0]
      fit == r.desired \subseteq r.selected /\ permitted /\ aircraft_buttons /\ r.current
  IN IF r.serial = 0 \/ r.serial < c.latest.serial THEN c
     ELSE [c EXCEPT !.latest = r, !.started = 0,
                    !.pending = IF fit THEN r.selected ELSE {}]

command_update(r, permitted) ==
  LET c == [IF ~permitted \/ r.serial = 0 THEN Fail(command) ELSE command
              EXCEPT !.permission = permitted, !.permitted = 0]
      fit == r.desired \subseteq r.selected /\ permitted /\ aircraft_buttons /\ r.current
  IN IF r.serial = 0 \/ r.serial < c.latest.serial THEN c
     ELSE IF r.serial = c.latest.serial THEN (IF r # c.latest THEN Fail(c) ELSE c)
     ELSE [c EXCEPT !.latest = r, !.started = 0,
                    !.pending = IF fit THEN r.selected ELSE {}]

reset_session(c) ==
  [Fail(c) EXCEPT !.permission = FALSE, !.flights = [s \in Sides |-> NoFlight]]

(* step: what to send, decided on the sample the worker read.  The loop    *)
(* over the sides stops at the first ON the speed forbids.                 *)
step(seen, valid, ready, inhibit, commands) ==
  LET c == IF Refused(command, worker.now, inhibit) THEN Fail(command) ELSE command
      none == [NoDecision EXCEPT !.serial = c.latest.serial, !.sample = seen.age]
      Clear(s) == Acknowledged(c.flights[s], seen, s)
      Free(s)  == Clear(s) \/ ~c.flights[s].active
      Off(s)   == Free(s) /\ s \in commands \cap seen.on
      Asks(s)  == Free(s) /\ ~Off(s) /\ s \in c.pending /\ worker.speed # "unknown"
      Barred(s) == Asks(s) /\ s \in c.latest.desired /\ (inhibit \/ worker.speed = "over")
      reached == {s \in Sides : \A t \in Sides : t < s => ~Barred(t)}
      barred  == \E s \in Sides : Barred(s)
      off     == {s \in reached : Off(s)}
      met     == {s \in reached : Asks(s) /\ (s \in seen.on) = (s \in c.latest.desired)}
      user    == IF barred THEN {} ELSE {s \in reached : Asks(s)} \ met
      cleared == [c EXCEPT !.flights = [s \in Sides |-> IF s \in reached /\ Clear(s) THEN NoFlight ELSE @[s]]]
  IN IF ~ready \/ ~valid \/ ~aircraft_buttons THEN [command |-> c, decision |-> none]
     ELSE [command  |-> IF barred THEN Fail(cleared) ELSE [cleared EXCEPT !.pending = @ \ met],
           decision |-> [none EXCEPT !.send = off \cup user, !.cutoff = off,
                                     !.desired = user \cap c.latest.desired]]

(* current: the decision re-examined before the call; send times are new.  *)
current(d, s) ==
  /\ s \in d.send /\ ~command.flights[s].active
  /\ s \in d.cutoff \/ (~Expired(command, 0) /\ d.serial = command.latest.serial /\ s \in command.pending)

sent_SlipForgetsFlight(d, s, accepted) ==
  IF accepted /\ s \notin d.cutoff
  THEN [command EXCEPT !.flights[s] = [active |-> TRUE, desired |-> s \in d.desired, sample |-> d.sample,
                                       sent |-> 0, serial |-> d.serial]]
  ELSE IF ~accepted /\ s \notin d.cutoff /\ d.serial = command.latest.serial THEN Fail(command) ELSE command

sent(d, s, accepted) ==
  IF accepted
  THEN [command EXCEPT !.flights[s] = [active |-> TRUE, desired |-> s \in d.desired, sample |-> d.sample,
                                       sent |-> 0, serial |-> d.serial]]
  ELSE IF s \notin d.cutoff /\ d.serial = command.latest.serial THEN Fail(command) ELSE command

rejected(s) ==
  LET f == command.flights[s]
      c == [command EXCEPT !.flights[s] = NoFlight]
  IN IF f.active /\ f.serial = command.latest.serial THEN Fail(c)
     ELSE IF f.active THEN c ELSE command
-----------------------------------------------------------------------------
Init ==
  /\ control \in Controls
  /\ latch \in SUBSET (IF aircraft_buttons THEN Sides ELSE {})
  /\ pipe = <<>> /\ inbox = <<>> /\ packets = [s \in Sides |-> 0]
  /\ cache = NoSample /\ identity = NoIdentity /\ cutoff = Cutoff
  /\ command = [permission |-> FALSE, permitted |-> Never, started |-> Never, latest |-> NoRequest,
                pending |-> {}, flights |-> [s \in Sides |-> NoFlight]]
  /\ worker = AtRest
  /\ sends = [s \in Sides |-> [serial |-> 0, count |-> 0]]

(* The head of the worker's loop: a new identity poll and a new request    *)
(* for the latches, as they fall due.  Polls are a second apart and their  *)
(* answers only matter until one is known; the model leaves out the poll   *)
(* that overtakes the one still awaited.                                   *)
wake(poll, sample) ==
  /\ worker.at = "wait"
  /\ poll => ~identity.known /\ \A q \in ToSet(pipe) \cup ToSet(inbox) : q.kind = "poll" => q.id # identity.poll
  /\ sample => aircraft_buttons
  /\ Queued + (IF poll THEN 1 ELSE 0) + (IF sample THEN 1 ELSE 0) <= MaxQueued \/ (~poll /\ ~sample)
  /\ pipe' = pipe \o (IF poll THEN <<Call("poll", 0, {}, FreshId)>> ELSE <<>>)
                  \o (IF sample THEN <<Call("sample", 0, {}, 0)>> ELSE <<>>)
  /\ identity' = IF poll THEN [identity EXCEPT !.poll = FreshId] ELSE identity
  /\ worker' = [worker EXCEPT !.at = "drain"]
  /\ UNCHANGED <<control, latch, inbox, packets, cache, cutoff, command, sends>>

(* accept_taxi_packet: a sample's age counts from its dispatch.            *)
accept_taxi_packet ==
  /\ worker.at = "drain" /\ inbox # <<>> /\ Head(inbox).kind = "sample"
  /\ inbox' = Tail(inbox)
  /\ cache' = [on |-> Head(inbox).on, age |-> 0]
  /\ UNCHANGED <<control, latch, pipe, packets, identity, cutoff, command, worker, sends>>

(* A poll's answer counts only while its number is the expected one.       *)
accept_identity_packet ==
  /\ worker.at = "drain" /\ inbox # <<>> /\ Head(inbox).kind = "poll"
  /\ inbox' = Tail(inbox)
  /\ identity' = IF Head(inbox).id = identity.poll THEN [known |-> TRUE, poll |-> 0] ELSE identity
  /\ UNCHANGED <<control, latch, pipe, packets, cache, cutoff, command, worker, sends>>

(* An exception for a sample request or a command: taxi_failure, and for   *)
(* the last command of a side the release of its two waits.                *)
accept_exception_SlipKeepsWait ==
  /\ worker.at = "drain" /\ inbox # <<>> /\ Head(inbox).kind = "exception"
  /\ LET hit == {s \in Sides : packets[s] # 0 /\ packets[s] = Head(inbox).id}
     IN /\ command' = IF hit = {} THEN command ELSE Settled(rejected(CHOOSE s \in hit : TRUE))
        /\ packets' = [s \in Sides |-> IF s \in hit THEN 0 ELSE packets[s]]
  /\ inbox' = Tail(inbox)
  /\ cache' = NoSample
  /\ UNCHANGED <<control, latch, pipe, identity, cutoff, worker, sends>>

accept_exception ==
  /\ worker.at = "drain" /\ inbox # <<>> /\ Head(inbox).kind = "exception"
  /\ LET hit == {s \in Sides : packets[s] # 0 /\ packets[s] = Head(inbox).id}
     IN /\ command' = IF hit = {} THEN command ELSE Settled(rejected(CHOOSE s \in hit : TRUE))
        /\ cutoff' = [cutoff EXCEPT !.waiting = @ \ hit]
        /\ packets' = [s \in Sides |-> IF s \in hit THEN 0 ELSE packets[s]]
  /\ inbox' = Tail(inbox)
  /\ cache' = NoSample
  /\ UNCHANGED <<control, latch, pipe, identity, worker, sends>>

(* The replies are drained: read the ground speed, the latches and the     *)
(* clock, each without the lock the decision takes.                        *)
read(speed) ==
  /\ worker.at = "drain" /\ inbox = <<>>
  /\ worker' = [worker EXCEPT !.at = "decide", !.speed = speed, !.seen = cache, !.now = 0]
  /\ UNCHANGED <<control, latch, pipe, inbox, packets, cache, identity, cutoff, command, sends>>

(* The locked decision.  ready is the session's readiness and the match of *)
(* its identity with the profile, which needs a coherent identity.         *)
decide(ready) ==
  LET seen  == worker.seen
      valid == seen.age - worker.now <= Fresh
      cut   == cutoff_update(cutoff, worker.speed, seen, valid, worker.now)
      out   == step(seen, valid, ready, inhibited(cut.cutoff), cut.commands)
  IN /\ worker.at = "decide" /\ (ready => identity.known)
     /\ cutoff' = cut.cutoff /\ command' = Settled(out.command)
     /\ worker' = IF out.decision.send = {} THEN AtRest
                  ELSE [AtRest EXCEPT !.at = "check", !.decision = out.decision, !.left = out.decision.send]
     /\ UNCHANGED <<control, latch, pipe, inbox, packets, cache, identity, sends>>

Side == CHOOSE s \in worker.left : \A t \in worker.left : s <= t
Done == IF worker.left = {Side} THEN AtRest
        ELSE [worker EXCEPT !.at = "check", !.left = @ \ {Side}]

(* The shared-lock recheck of one side before its call.                    *)
check(ready) ==
  /\ worker.at = "check" /\ (ready => identity.known)
  /\ worker' = IF ready /\ current(worker.decision, Side) THEN [worker EXCEPT !.at = "transmit"] ELSE Done
  /\ UNCHANGED <<control, latch, pipe, inbox, packets, cache, identity, cutoff, command, sends>>

(* The call, with no lock held; tracked: SimConnect told its number.       *)
transmit(accepted, tracked) ==
  LET d == worker.decision
  IN /\ worker.at = "transmit" /\ (accepted => Queued < MaxQueued + 2) /\ (tracked \/ Untracked)
     /\ pipe' = IF accepted
                THEN Append(pipe, Call("command", Side, {Side} \cap d.desired, FreshId)) ELSE pipe
     /\ packets' = [packets EXCEPT ![Side] = IF accepted /\ tracked THEN FreshId ELSE 0]
     /\ worker' = [worker EXCEPT !.at = IF accepted THEN "accepted" ELSE "refused"]
     /\ sends' = IF ~accepted \/ Side \in d.cutoff THEN sends
                 ELSE [sends EXCEPT ![Side] = [serial |-> d.serial,
                         count |-> IF @.serial = d.serial THEN 2 ELSE 1]]
     /\ UNCHANGED <<control, latch, inbox, cache, identity, cutoff, command>>

(* The locked record of the call's outcome.                                *)
record ==
  LET accepted == worker.at = "accepted"
  IN /\ worker.at \in {"accepted", "refused"}
     /\ command' = Settled(sent(worker.decision, Side, accepted))
     /\ cutoff' = IF accepted /\ Side \in worker.decision.cutoff
                  THEN [cutoff EXCEPT !.waiting = @ \cup {Side}] ELSE cutoff
     /\ worker' = Done
     /\ UNCHANGED <<control, latch, pipe, inbox, packets, cache, identity, sends>>
-----------------------------------------------------------------------------
(* The control thread: the settings' request, seen again on every turn of  *)
(* its loop, withdrawn, altered or new.                                    *)
Requests ==
  {NoRequest, command.latest} \cup
  [serial : {command.latest.serial} \ {0}, current : {TRUE}, selected : SUBSET Sides, desired : {{}}] \cup
  [serial : {command.latest.serial + 1} \cap 1..MaxSerial, current : BOOLEAN,
   selected : SUBSET Sides, desired : SUBSET Sides]

update_taxi_button_request(r, permitted) ==
  /\ permitted => identity.known
  /\ command' = Settled(command_update(r, permitted))
  /\ UNCHANGED <<control, latch, pipe, inbox, packets, cache, identity, cutoff, worker, sends>>

(* reset_session_locked on a connection that is kept: the same profile     *)
(* selected again by the control thread, or, with a new epoch, the worker  *)
(* finding the camera's world invalid or a flight being loaded.            *)
reset_session_locked(epoch) ==
  /\ control \in Resets
  /\ epoch => worker.at \in {"wait", "drain"}
  /\ cache' = NoSample /\ identity' = NoIdentity /\ cutoff' = Cutoff
  /\ command' = Settled([reset_session(command) EXCEPT !.latest.current = @ /\ ~epoch])
  /\ UNCHANGED <<control, latch, pipe, inbox, packets, worker, sends>>

(* SimConnect and the aircraft.                                            *)
Serve(reply) ==
  /\ pipe # <<>> /\ pipe' = Tail(pipe) /\ inbox' = Append(inbox, reply)
  /\ UNCHANGED <<control, packets, cache, identity, cutoff, command, worker, sends>>

Answer ==
  /\ pipe # <<>> /\ Head(pipe).kind \in {"sample", "poll"}
  /\ Serve([Head(pipe) EXCEPT !.on = IF Head(pipe).kind = "sample" THEN latch ELSE {}])
  /\ UNCHANGED latch

Refuse ==
  /\ pipe # <<>> /\ Head(pipe).kind \in {"sample", "command"}
  /\ Serve([Head(pipe) EXCEPT !.kind = "exception", !.on = {}, !.side = 0])
  /\ UNCHANGED latch

Execute ==
  /\ pipe # <<>> /\ Head(pipe).kind = "command"
  /\ pipe' = Tail(pipe)
  /\ LET s == Head(pipe).side
     IN latch' = CASE control = "push_event" -> (latch \ {s}) \cup ({s} \ latch)
                   [] control = "lvar_off"   -> (latch \ {s}) \cup Head(pipe).on
  /\ UNCHANGED <<control, inbox, packets, cache, identity, cutoff, command, worker, sends>>

Press(s) ==
  /\ control \in Presses /\ aircraft_buttons
  /\ latch' = (latch \ {s}) \cup ({s} \ latch)
  /\ UNCHANGED <<control, pipe, inbox, packets, cache, identity, cutoff, command, worker, sends>>

Tick ==
  /\ worker.at = "decide" => worker.now < Stall
  /\ cache' = [cache EXCEPT !.age = Older(@)]
  /\ cutoff' = [cutoff EXCEPT !.sample  = [s \in Sides |-> Older(@[s])],
                              !.attempt = [s \in Sides |-> Older(@[s])]]
  /\ command' = [command EXCEPT !.permitted = Older(@), !.started = Older(@),
                   !.flights = [s \in Sides |-> [command.flights[s] EXCEPT !.sample = Older(@), !.sent = Older(@)]]]
  /\ worker' = [worker EXCEPT !.seen.age = Older(@), !.decision.sample = Older(@),
                              !.now = IF worker.at = "decide" THEN @ + 1 ELSE @]
  /\ UNCHANGED <<control, latch, pipe, inbox, packets, identity, sends>>
-----------------------------------------------------------------------------
Worker ==
  \/ \E poll, sample \in BOOLEAN : wake(poll, sample)
  \/ accept_taxi_packet
  \/ accept_identity_packet
  \/ accept_exception
  \/ \E speed \in Speeds : read(speed)
  \/ \E ready \in BOOLEAN : decide(ready)
  \/ \E ready \in BOOLEAN : check(ready)
  \/ \E accepted, tracked \in BOOLEAN : transmit(accepted, tracked)
  \/ record

Next ==
  \/ Worker
  \/ \E r \in Requests, permitted \in BOOLEAN : update_taxi_button_request(r, permitted)
  \/ \E epoch \in BOOLEAN : reset_session_locked(epoch)
  \/ Answer
  \/ Refuse
  \/ Execute
  \/ \E s \in Sides : Press(s)
  \/ Tick

Spec == Init /\ [][Next]_vars

(* The worker's loop goes on and time passes.                              *)
LoopSpec == Spec /\ WF_vars(Worker) /\ SF_vars(Tick)
-----------------------------------------------------------------------------
TypeOK ==
  /\ control \in Controls /\ latch \subseteq Sides
  /\ \A q \in ToSet(pipe) : q.kind \in {"sample", "poll", "command"} /\ q.on \subseteq {q.side}
  /\ \A q \in ToSet(inbox) : q.kind \in {"sample", "poll", "exception"} /\ q.on \subseteq Sides
  /\ packets \in [Sides -> {0} \cup Ids]
  /\ cache \in [on : SUBSET Sides, age : Ages]
  /\ identity \in [known : BOOLEAN, poll : {0} \cup Ids]
  /\ cutoff \in [over : BOOLEAN, pending : SUBSET Sides, waiting : SUBSET Sides,
                 sample : [Sides -> Ages], attempt : [Sides -> Ages]]
  /\ command.pending \subseteq command.latest.selected
  /\ \A s \in Sides : command.flights[s] \in
       [active : BOOLEAN, desired : BOOLEAN, sample : Ages, sent : Ages, serial : 0..MaxSerial]
  /\ worker.at \in {"wait", "drain", "decide", "check", "transmit", "accepted", "refused"}
  /\ worker.left \subseteq worker.decision.send

(* A push event under way toggles the latch the way it was meant to: the   *)
(* latch is still where the decision saw it.  "A pending toggle waits for  *)
(* acknowledgement before another event can be sent for that side", so no  *)
(* late sample, rejection, timeout or new request leads to a second event  *)
(* that undoes the first.                                                  *)
EventsKeepTheirMeaning ==
  control = "push_event" =>
    \A q \in ToSet(pipe) : q.kind = "command" => (q.side \in latch) # (q.on # {})

(* One request sends at most one event to a side, however often the        *)
(* settings repeat it and whatever becomes of the event: "Even refused     *)
(* requests are consumed, never replayed later."                           *)
OneEventPerRequest == \A s \in Sides : sends[s].count <= 1

(* An ON is never on its way to the aircraft once the cutoff wants OFF,    *)
(* also between the decision, its recheck and the call.                    *)
OnYieldsToCutoff ==
  worker.at \in {"check", "transmit"} =>
    (worker.decision.desired \cap worker.left # {} => ~cutoff.over /\ cutoff.pending = {})

(* Every request comes to an end, done or failed, whatever SimConnect, the *)
(* pilots and the session do and however often the settings renew its      *)
(* permission: "If the aircraft cannot confirm the change, Taxi Cam        *)
(* reports it".  Only the worker's loop and time need to go on.            *)
RequestsEnd ==
  \A n \in 1..MaxSerial :
    (command.latest.serial = n /\ command.pending # {}) ~> ~(command.latest.serial = n /\ command.pending # {})

(* Above the speed limit for good, both buttons end up off and stay off,   *)
(* whatever requests, rejected events and stale samples came before, as    *)
(* long as nobody else presses them or resets the session, and SimConnect  *)
(* serves calls again and again (MCButtons' Responsive).                   *)
CutoffDelivers ==
  control \notin Presses \cup Resets /\ <>[](cutoff.over) => <>[](latch = {})

(* What the button events never do, together: undo each other, repeat a    *)
(* request, or put a button on against the cutoff.                         *)
TaxiSafety ==
  EventsKeepTheirMeaning /\ OneEventPerRequest /\ OnYieldsToCutoff
=============================================================================
