---------------------------- MODULE CompanionLink ----------------------------
(***************************************************************************)
(* How the Windows companion finds the simulator, loads the bridge into it *)
(* and keeps the mailbox up to date: app/companion.cpp, app/launcher.hpp   *)
(* and app/connection_recoverability.hpp.                                  *)
(*                                                                         *)
(* Two threads share `current` and the connection flags under app_mutex:   *)
(* the UI (Connect, Disconnect, Auto-connect, every edit of the settings)  *)
(* and the connection worker.  A step below ends where a thread releases   *)
(* the mutex, or looks at the simulator or at the mailbox again.  The      *)
(* simulator may start, die and start again, and the bridge's thread may   *)
(* stop writing; the companion may be killed and started again.            *)
(*                                                                         *)
(* Of the settings, only what connects: `enabled` and the profile request. *)
(* A heartbeat is 0 (none), 1 (no newer than the last one recorded) or 2   *)
(* (newer), which is all a watermark can tell.                             *)
(***************************************************************************)
EXTENDS Naturals

CONSTANTS
  MaxPid,           \* bound of the model: simulator processes
  MaxRequest,       \* the greatest profile request: 2^64 - 1 in the code
  MaxRetries,       \* LaunchRetry::MaxPreflightRetries
  MaxRecoveries,    \* LaunchRetry::MaxRecoveryWaves
  MaxChanges        \* bound of the model: what the user does, and what goes wrong

(* What the constants are assumed to be; the runs evaluate it.             *)
LinkAssumption == {MaxPid, MaxRequest, MaxRetries, MaxRecoveries, MaxChanges} \subseteq Nat

VARIABLES
  current,    \* settings: enabled, profile_request
  link,       \* connection_requested, connection_disconnected, auto_connect, the command queue
  ui,         \* what the UI thread is in the middle of
  worker,     \* connection_worker's locals, LaunchRetry and `status`
  mailbox,    \* the shared memory of the running simulator
  sim,        \* the simulator, the bridge's DLL and thread in it
  seen,       \* history: loads begun for this attachment, and whether a
              \* bridge declared stale has been silent since
  changes

vars == <<current, link, ui, worker, mailbox, sim, seen, changes>>

NoMailbox == [enabled |-> FALSE, owner |-> FALSE, beat |-> 0]
NoSim     == [pid |-> 0, last |-> 0, dll |-> "absent", bridge |-> "off"]
Detached  == [pc |-> "top", attached |-> 0, attempted |-> FALSE, started |-> FALSE,
              ok |-> FALSE, armed |-> FALSE, ignore |-> FALSE, open |-> FALSE,
              retries |-> 0, recoveries |-> 0, due |-> TRUE, status |-> FALSE, sample |-> 0]
NewLink   == [requested |-> FALSE, disconnected |-> FALSE, auto |-> FALSE, queue |-> "none", running |-> TRUE]
Idle      == [pc |-> "idle", draft |-> 0]

disturb == changes < MaxChanges /\ changes' = changes + 1
alive(pid) == pid # 0 /\ pid = sim.pid
-----------------------------------------------------------------------------
(* The simulator.  A process has a mailbox of its own; the bridge's thread *)
(* reports through it every 25 ms, until it hangs or ends.                 *)
sim_starts ==
  /\ sim.pid = 0 /\ sim.last < MaxPid
  /\ sim' = [NoSim EXCEPT !.pid = sim.last + 1, !.last = sim.last + 1]
  /\ mailbox' = NoMailbox
  /\ UNCHANGED <<current, link, ui, worker, seen, changes>>

sim_dies ==
  /\ disturb /\ sim.pid # 0
  /\ sim' = [NoSim EXCEPT !.last = sim.last]
  /\ mailbox' = NoMailbox
  /\ UNCHANGED <<current, link, ui, worker, seen>>

load_ends ==
  /\ sim.dll = "loading"
  /\ \/ sim' = [sim EXCEPT !.dll = "loaded"] /\ UNCHANGED changes
     \/ sim' = [sim EXCEPT !.dll = "absent"] /\ disturb
  /\ UNCHANGED <<current, link, ui, worker, mailbox, seen>>

bridge_reports ==
  /\ sim.bridge = "beats" /\ mailbox.beat # 2
  /\ mailbox' = [mailbox EXCEPT !.beat = 2]
  /\ seen' = [seen EXCEPT !.silent = FALSE]
  /\ UNCHANGED <<current, link, ui, worker, sim, changes>>

bridge_hangs ==
  /\ disturb /\ sim.bridge \in {"beats", "hung"}
  /\ sim' = [sim EXCEPT !.bridge = IF @ = "beats" THEN "hung" ELSE "beats"]
  /\ UNCHANGED <<current, link, ui, worker, mailbox, seen>>

(* TaxiCameraStart: the first call starts the thread, a later one only     *)
(* succeeds, whatever became of that thread.                               *)
TaxiCameraStart == [sim EXCEPT !.bridge = IF @ = "off" THEN "beats" ELSE @]
-----------------------------------------------------------------------------
(* What both threads do to the settings, under app_mutex.                  *)
can_begin == current.request < MaxRequest
begin_connection == [enabled |-> TRUE, request |-> current.request + 1]

publish_SlipLosesRequest(value) == [current EXCEPT !.request = value]

publish(value) == [current EXCEPT !.request = IF value > @ THEN value ELSE @]

Stopped == [mailbox EXCEPT !.enabled = FALSE, !.owner = FALSE]

(* exchange_control: the settings and whose they are, in one section.      *)
Exchanged_SlipAlwaysOwned == [mailbox EXCEPT !.enabled = current.enabled, !.owner = TRUE]

Exchanged == [mailbox EXCEPT !.enabled = current.enabled, !.owner = link.requested]
Sampled   == [Exchanged EXCEPT !.beat = IF @ = 2 THEN 1 ELSE @]
-----------------------------------------------------------------------------
(* The UI thread.  Connect and Disconnect set the flags and, for a         *)
(* Disconnect, stop the bridge at once; the queue is told after.           *)
connects ==
  IF can_begin
  THEN /\ current' = begin_connection
       /\ link' = [link EXCEPT !.requested = TRUE, !.disconnected = FALSE]
       /\ ui' = [ui EXCEPT !.pc = "connect"]
       /\ UNCHANGED <<mailbox, worker>>
  ELSE UNCHANGED <<current, link, ui, mailbox, worker>>

disconnects ==
  /\ current' = [current EXCEPT !.enabled = FALSE]
  /\ link' = [link EXCEPT !.requested = FALSE, !.disconnected = TRUE]
  /\ worker' = [worker EXCEPT !.status = FALSE]
  /\ ui' = [ui EXCEPT !.pc = "disconnect"]
  /\ mailbox' \in IF alive(worker.attached) THEN {Stopped, mailbox} ELSE {mailbox}   \* the lock may time out

toggle_connection ==
  /\ disturb /\ link.running /\ ui.pc = "idle"
  /\ IF link.requested THEN disconnects ELSE connects
  /\ UNCHANGED <<sim, seen>>

toggle_auto_connect ==
  /\ disturb /\ link.running /\ ui.pc = "idle"
  /\ IF link.auto
     THEN link' = [link EXCEPT !.auto = FALSE] /\ UNCHANGED <<current, ui>>
     ELSE IF can_begin
     THEN /\ current' = begin_connection
          /\ link' = [link EXCEPT !.auto = TRUE, !.requested = TRUE, !.disconnected = FALSE]
          /\ ui' = [ui EXCEPT !.pc = "connect"]
     ELSE link' = [link EXCEPT !.auto = TRUE] /\ UNCHANGED <<current, ui>>
  /\ UNCHANGED <<worker, mailbox, sim, seen>>

requests_command ==
  /\ ui.pc \in {"connect", "disconnect"}
  /\ link' = [link EXCEPT !.queue = ui.pc]
  /\ ui' = Idle
  /\ UNCHANGED <<current, worker, mailbox, sim, seen, changes>>

(* Every edit is a copy that is changed and then published; choosing a     *)
(* profile, by hand or because the bridge detected another aircraft,       *)
(* counts a request in the copy.                                           *)
drafted(request) ==
  /\ disturb /\ link.running /\ ui.pc = "idle"
  /\ ui' = [pc |-> "publish", draft |-> request]
  /\ UNCHANGED <<current, link, worker, mailbox, sim, seen>>

edits           == drafted(current.request)
selects_profile == can_begin /\ drafted(current.request + 1)

publishes ==
  /\ ui.pc = "publish"
  /\ current' = publish(ui.draft)
  /\ ui' = Idle
  /\ UNCHANGED <<link, worker, mailbox, sim, seen, changes>>
-----------------------------------------------------------------------------
(* The worker.  A round begins with the command and the process list.      *)
forgets(w) == [w EXCEPT !.attempted = FALSE, !.ok = FALSE, !.ignore = FALSE,
                        !.retries = 0, !.recoveries = 0, !.due = TRUE, !.open = FALSE]

take_disconnect ==
  /\ link.running /\ worker.pc = "top" /\ link.queue = "disconnect"
  /\ mailbox' = IF worker.open /\ alive(worker.attached) THEN Exchanged ELSE mailbox
  /\ worker' = [forgets(worker) EXCEPT !.armed = FALSE]
  /\ link' = [link EXCEPT !.queue = "none"]
  /\ seen' = [seen EXCEPT !.silent = FALSE]
  /\ UNCHANGED <<current, ui, sim, changes>>

Commanded == IF link.queue = "connect" THEN [forgets(worker) EXCEPT !.armed = TRUE] ELSE worker

lost(pid) == worker.attached # 0 /\ (pid # worker.attached \/ ~alive(worker.attached))

Closed(w) == [forgets(w) EXCEPT !.attached = 0, !.started = FALSE, !.armed = FALSE, !.status = FALSE]

Attach(w, pid) ==
  IF pid \in {0, w.attached} THEN w
  ELSE [forgets(w) EXCEPT !.attached = pid, !.started = FALSE,
                          !.open = w.open, !.armed = @ \/ link.queue = "connect"]

should_attempt_connect(w) == ~link.disconnected /\ (link.queue = "connect" \/ (~w.attempted /\ (link.auto \/ w.armed)))

(* find_simulator_attach may find no process that is there: the snapshot   *)
(* fails, or the process cannot be opened for a moment.                    *)
found == \/ UNCHANGED changes
         \/ disturb /\ sim.pid # 0

begin_round ==
  /\ link.running /\ worker.pc = "top" /\ link.queue # "disconnect"
  /\ found
  /\ LET pid == IF changes' = changes THEN sim.pid ELSE 0
         gone == lost(pid)
         w == Attach(IF gone THEN Closed(Commanded) ELSE Commanded, pid)
     IN /\ worker' = [w EXCEPT !.pc = IF w.attached # 0 /\ w.due /\ should_attempt_connect(w) THEN "authorise" ELSE "check"]
        /\ current' = [current EXCEPT !.enabled = @ /\ ~gone]
        /\ link' = [link EXCEPT !.requested = @ /\ ~gone, !.queue = "none"]
        /\ seen' = [loads |-> IF w.attached # worker.attached \/ gone THEN 0 ELSE seen.loads,
                    silent |-> seen.silent /\ w.ignore]
  /\ UNCHANGED <<ui, mailbox, sim>>

(* A Disconnect that came since the round began is seen under the mutex.   *)
authorise_SlipNoRecheck ==
  /\ worker.pc = "authorise"
  /\ link.requested \/ can_begin
  /\ current' = IF link.requested THEN [current EXCEPT !.enabled = TRUE] ELSE begin_connection
  /\ link' = [link EXCEPT !.requested = TRUE]
  /\ worker' = [worker EXCEPT !.pc = "open", !.attempted = TRUE]
  /\ UNCHANGED <<ui, mailbox, sim, seen, changes>>

authorise ==
  /\ worker.pc = "authorise"
  /\ \/ /\ link.disconnected
        /\ worker' = [worker EXCEPT !.pc = "top"]
        /\ UNCHANGED <<current, link>>
     \/ /\ ~link.disconnected /\ ~link.requested /\ ~can_begin
        /\ worker' = [worker EXCEPT !.pc = "top", !.attempted = TRUE]
        /\ UNCHANGED <<current, link>>
     \/ /\ ~link.disconnected /\ (link.requested \/ can_begin)
        /\ current' = IF link.requested THEN [current EXCEPT !.enabled = TRUE] ELSE begin_connection
        /\ link' = [link EXCEPT !.requested = TRUE]
        /\ worker' = [worker EXCEPT !.pc = "open", !.attempted = TRUE]
  /\ UNCHANGED <<ui, mailbox, sim, seen, changes>>

(* LaunchRetry: a preflight wave, then a pause and another wave.           *)
schedule_SlipWavesUncounted(w) ==
  IF w.retries < MaxRetries THEN [w EXCEPT !.retries = @ + 1, !.due = FALSE, !.attempted = FALSE]
  ELSE [w EXCEPT !.retries = 0, !.due = FALSE, !.attempted = FALSE]

schedule(w) ==
  IF w.retries < MaxRetries THEN [w EXCEPT !.retries = @ + 1, !.due = FALSE, !.attempted = FALSE]
  ELSE IF w.recoveries < MaxRecoveries
  THEN [w EXCEPT !.recoveries = @ + 1, !.retries = 0, !.due = FALSE, !.attempted = FALSE]
  ELSE [w EXCEPT !.attempted = TRUE, !.armed = FALSE]

delay_passes ==
  /\ ~worker.due
  /\ worker' = [worker EXCEPT !.due = TRUE]
  /\ UNCHANGED <<current, link, ui, mailbox, sim, seen, changes>>

open_mailbox ==
  /\ worker.pc = "open"
  /\ \/ /\ worker.open \/ alive(worker.attached)
        /\ worker' = [worker EXCEPT !.pc = "load", !.open = TRUE]
        /\ mailbox' = IF alive(worker.attached) THEN Exchanged ELSE mailbox
     \/ /\ ~worker.open
        /\ worker' = [schedule(worker) EXCEPT !.pc = "check"]
        /\ UNCHANGED mailbox
  /\ UNCHANGED <<current, link, ui, sim, seen, changes>>
-----------------------------------------------------------------------------
(* load_bridge.  Only a preflight that read nothing wrong may be retried;  *)
(* once a remote load or start may have begun every result is final.       *)
retryable(w) == [schedule(w) EXCEPT !.pc = "check", !.ok = FALSE]
terminal(w)  == [w EXCEPT !.pc = "check", !.ok = FALSE, !.armed = FALSE]
loaded_SlipTrustsStart(w) == [w EXCEPT !.pc = "check", !.armed = FALSE, !.ok = TRUE]

loaded(w)    == [w EXCEPT !.pc = "check", !.armed = FALSE, !.ok = ~w.ignore]

fresh_load_allowed_SlipPerAttempt == TRUE

fresh_load_allowed == ~worker.started

preflight ==
  /\ worker.pc = "load" /\ alive(worker.attached)
  /\ \/ /\ sim.dll = "loaded"
        /\ worker' = [worker EXCEPT !.pc = "start"]
        /\ UNCHANGED <<sim, seen>>
     \/ /\ sim.dll # "loaded" /\ fresh_load_allowed       \* CreateRemoteThread(LoadLibraryW)
        /\ worker' = [worker EXCEPT !.pc = "loader", !.started = TRUE]
        /\ sim' = [sim EXCEPT !.dll = "loading"]
        /\ seen' = [seen EXCEPT !.loads = @ + 1]
     \/ /\ sim.dll # "loaded" /\ ~fresh_load_allowed
        /\ worker' = retryable(worker)
        /\ UNCHANGED <<sim, seen>>
  /\ UNCHANGED <<current, link, ui, mailbox, changes>>

preflight_fails ==
  /\ worker.pc = "load"
  /\ \/ alive(worker.attached) /\ worker' = retryable(worker)   \* modules, headers or loader not readable yet
     \/ worker' = terminal(worker)                              \* access, path, legacy add-on, allocation
  /\ UNCHANGED <<current, link, ui, mailbox, sim, seen, changes>>

(* wait_for_loader gives up after 30 s; the load itself may still finish.  *)
wait_for_loader ==
  /\ worker.pc = "loader"
  /\ \/ alive(worker.attached) /\ sim.dll = "loaded" /\ worker' = [worker EXCEPT !.pc = "start"]
     \/ worker' = terminal(worker)
  /\ UNCHANGED <<current, link, ui, mailbox, sim, seen, changes>>

start_bridge ==
  /\ worker.pc = "start"
  /\ \/ /\ alive(worker.attached)
        /\ sim' = TaxiCameraStart
        /\ worker' \in {loaded(worker), terminal(worker)}       \* the wait may end before the thread does
     \/ UNCHANGED sim /\ worker' = terminal(worker)
  /\ UNCHANGED <<current, link, ui, mailbox, seen, changes>>
-----------------------------------------------------------------------------
(* A bridge that was confirmed and has been silent for 15 s is tried       *)
(* again; a beat no newer than the stale one must not confirm it.          *)
watches == worker.ok /\ worker.attempted /\ worker.open /\ worker.status /\ ~link.disconnected

stale_heartbeat ==
  /\ worker.pc = "check" /\ watches
  /\ sim.bridge = "beats" => changes < MaxChanges          \* a late round makes a live bridge look stale
  /\ changes' = IF sim.bridge = "beats" THEN changes + 1 ELSE changes
  /\ worker' = [worker EXCEPT !.pc = "publish", !.ignore = TRUE, !.ok = FALSE, !.attempted = FALSE, !.armed = TRUE,
                              !.retries = 0, !.recoveries = 0, !.due = TRUE, !.status = FALSE]
  /\ seen' = [seen EXCEPT !.silent = mailbox.beat # 2]
  /\ UNCHANGED <<current, link, ui, mailbox, sim>>

heartbeat_is_fresh ==
  /\ worker.pc = "check"
  /\ watches => (sim.bridge = "beats" \/ mailbox.beat = 2)
  /\ worker' = [worker EXCEPT !.pc = "publish"]
  /\ UNCHANGED <<current, link, ui, mailbox, sim, seen, changes>>

exchange_control ==
  /\ worker.pc = "publish"
  /\ \/ /\ worker.open /\ alive(worker.attached)
        /\ mailbox' = Sampled
        /\ worker' = [worker EXCEPT !.pc = "confirm", !.sample = mailbox.beat]
        /\ UNCHANGED changes
     \/ /\ worker.open /\ ~alive(worker.attached)            \* the mapping of a process that ended
        /\ worker' = [worker EXCEPT !.pc = "confirm", !.sample = 0]
        /\ UNCHANGED <<mailbox, changes>>
     \/ /\ ~worker.open
        /\ worker' = [worker EXCEPT !.pc = "top"]
        /\ UNCHANGED <<mailbox, changes>>
     \/ /\ worker.open /\ disturb                            \* the lock times out
        /\ worker' = [worker EXCEPT !.pc = "top"]
        /\ UNCHANGED mailbox
  /\ UNCHANGED <<current, link, ui, sim, seen>>

heartbeat_confirms_bridge == worker.sample = 2 \/ (worker.sample = 1 /\ ~worker.ignore)

confirm ==
  /\ worker.pc = "confirm"
  /\ worker' = IF link.disconnected THEN [worker EXCEPT !.pc = "top", !.sample = 0]
               ELSE IF heartbeat_confirms_bridge
               THEN [worker EXCEPT !.pc = "top", !.sample = 0, !.status = TRUE, !.ok = TRUE, !.ignore = FALSE]
               ELSE [worker EXCEPT !.pc = "top", !.sample = 0, !.status = FALSE]
  /\ UNCHANGED <<current, link, ui, mailbox, sim, seen, changes>>
-----------------------------------------------------------------------------
(* stop_service and the worker's end, or the process is killed; a mailbox  *)
(* whose writer died inside the lock is not consumed.  Runtime state is    *)
(* never restored: the next companion starts disabled.                     *)
ends ==
  /\ disturb /\ link.running
  /\ link' = [NewLink EXCEPT !.running = FALSE, !.auto = link.auto]
  /\ current' = [enabled |-> FALSE, request |-> 0]
  /\ ui' = Idle /\ worker' = Detached
  /\ mailbox' \in {mailbox, Stopped}
  /\ seen' = [loads |-> 0, silent |-> FALSE]
  /\ UNCHANGED sim

starts ==
  /\ ~link.running
  /\ link' = [link EXCEPT !.running = TRUE]
  /\ UNCHANGED <<current, ui, worker, mailbox, sim, seen, changes>>
-----------------------------------------------------------------------------
Init ==
  /\ current = [enabled |-> FALSE, request |-> 0]
  /\ link \in {NewLink, [NewLink EXCEPT !.auto = TRUE]}
  /\ ui = Idle /\ worker = Detached /\ mailbox = NoMailbox /\ sim = NoSim
  /\ seen = [loads |-> 0, silent |-> FALSE]
  /\ changes = 0

round ==
  take_disconnect \/ begin_round \/ authorise \/ open_mailbox \/ preflight \/ preflight_fails \/ wait_for_loader
  \/ start_bridge \/ stale_heartbeat \/ heartbeat_is_fresh \/ exchange_control \/ confirm
user == toggle_connection \/ toggle_auto_connect \/ requests_command \/ edits \/ selects_profile \/ publishes \/ ends \/ starts
simulator == sim_starts \/ sim_dies \/ load_ends \/ bridge_reports \/ bridge_hangs

Next == round \/ delay_passes \/ user \/ simulator

(* The worker's loop never stops, a delay ends, and a UI handler returns.  *)
Spec == Init /\ [][Next]_vars /\ WF_vars(round) /\ WF_vars(delay_passes) /\ WF_vars(requests_command \/ publishes)
-----------------------------------------------------------------------------
(* The type invariant.                                                     *)
TypeOK ==
  /\ current \in [enabled : BOOLEAN, request : 0..MaxRequest]
  /\ link \in [requested : BOOLEAN, disconnected : BOOLEAN, auto : BOOLEAN,
               queue : {"none", "connect", "disconnect"}, running : BOOLEAN]
  /\ ui \in [pc : {"idle", "connect", "disconnect", "publish"}, draft : 0..MaxRequest]
  /\ worker.pc \in {"top", "authorise", "open", "load", "loader", "start", "check", "publish", "confirm"}
  /\ worker.attached \in 0..MaxPid /\ worker.retries \in 0..MaxRetries /\ worker.recoveries \in 0..MaxRecoveries
  /\ mailbox \in [enabled : BOOLEAN, owner : BOOLEAN, beat : 0..2]
  /\ seen \in [loads : 0..2, silent : BOOLEAN]

(* What the button says and what the bridge is told are one thing: no      *)
(* edit, no closing simulator and no automatic connection separates them.  *)
EnabledIffRequested ==
  /\ current.enabled = link.requested
  /\ link.disconnected => ~link.requested

(* One remote LoadLibrary for a process the worker is attached to, through *)
(* Disconnect, Connect, retries and recovery of a stale bridge.            *)
OneLoadPerAttachment == seen.loads <= 1

(* A bridge declared stale is not confirmed before it has written again:   *)
(* neither by the start that returned at once, nor by the old beat.        *)
RecoveryNeedsABeat == seen.silent => ~worker.ok

LinkSafety == TypeOK /\ EnabledIffRequested /\ OneLoadPerAttachment /\ RecoveryNeedsABeat

(* After Disconnect nothing turns the bridge on, or says it has an owner,  *)
(* until Connect: not the round, the load or the exchange under way.       *)
DisconnectHolds ==
  [][link.disconnected /\ link'.disconnected =>
       /\ mailbox'.enabled => mailbox.enabled
       /\ mailbox'.owner => mailbox.owner]_vars

(* The profile request is how the bridge tells one setup from the next: no *)
(* edit from an older copy takes back what the worker counted meanwhile.   *)
RequestsOnlyGrow == [][link'.running => current'.request >= current.request]_vars

(* A Connect, and Auto-connect while it is on, ends with a confirmed bridge *)
(* or with a worker that has said it stopped trying: no command is lost on *)
(* the way, and nothing is tried for ever.                                 *)
Paused  == worker.attempted /\ worker.pc = "top"
Settled == worker.ok \/ Paused \/ ~link.requested \/ ~link.running
ConnectIsAnswered ==
  /\ (link.queue = "connect" /\ sim.pid # 0) ~> (Settled \/ sim.pid = 0)
  /\ (link.auto /\ ~link.disconnected /\ sim.pid # 0)
       ~> (worker.ok \/ Paused \/ link.disconnected \/ ~link.auto \/ ~link.running \/ sim.pid = 0)
=============================================================================
