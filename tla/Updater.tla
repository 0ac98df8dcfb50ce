------------------------------ MODULE Updater ------------------------------
(***************************************************************************)
(* The updater (updater.cpp) and the window that drives it: a worker       *)
(* thread per check, which runs the helper script that downloads into a    *)
(* fresh directory, and the window's timer, which takes the result, asks   *)
(* the user and starts the installer.                                      *)
(*                                                                         *)
(* Directories are numbered in the order they are tried; setup[d] is what   *)
(* setup.exe of directory d holds: "good" is the file of the result's      *)
(* hash.  Another program may spoil or remove a file nothing holds open.   *)
(* The boxes that only inform do not keep the window's timer from running, *)
(* so they are no state.                                                   *)
(*                                                                         *)
(* launched and asked are history: what ShellExecuteEx was given, and      *)
(* whether a check the user asked for still has no answer.                 *)
(***************************************************************************)
EXTENDS Naturals

CONSTANTS MaxCaches, MaxSpoils

(* What the constants are assumed to be; the runs evaluate it.             *)
UpdaterAssumption == MaxCaches \in Nat \ {0} /\ MaxSpoils \in Nat

VARIABLES
  made, setup,             \* directories tried; "absent" before and after
  cache,                   \* cache_, 0 for none
  worker,                  \* "none", "helps", "published"
  busy, cancelled,
  ready, result,           \* result_
  taken, ui,               \* the copy poll_updates works on, and where it is
  held,                    \* the verified handle is open
  due,                     \* next_update_check has passed
  sim,                     \* a simulator process exists
  spoils, launched, asked

updater == <<made, setup, cache, worker, busy, cancelled, ready, result>>
window  == <<taken, ui, held, due>>
vars    == <<updater, window, sim, spoils, launched, asked>>

Dirs     == 1..MaxCaches
NoResult == [available |-> FALSE, manual |-> FALSE, dir |-> 0]
NoLaunch == [dir |-> 0, setup |-> "absent"]
update_prompt == ui \in {"asks", "launches", "verified"}
-----------------------------------------------------------------------------
(* clean_cache, make_cache: a new directory, or none when that fails.      *)
(* Nothing takes result_ while the worker runs, so it holds its manual.    *)
Cleaned(s) == IF cache = 0 THEN s ELSE [s EXCEPT ![cache] = "absent"]

reusable(manual) == manual /\ result.available /\ cache # 0 /\ result.dir = cache

begin(manual) ==
  /\ ~busy
  /\ IF reusable(manual)
     THEN /\ result' = [result EXCEPT !.manual = TRUE] /\ ready' = TRUE
          /\ UNCHANGED <<made, setup, cache, worker, busy, cancelled>>
     ELSE /\ worker = "none" /\ made < MaxCaches
          /\ ready' = FALSE /\ cancelled' = FALSE /\ busy' = TRUE /\ worker' = "helps"
          /\ made' = made + 1
          /\ \/ cache' = 0 /\ setup' = Cleaned(setup)
             \/ cache' = made' /\ setup' = [Cleaned(setup) EXCEPT ![made'] = "empty"]
          /\ result' = [result EXCEPT !.manual = manual]

check_updates(manual) ==
  /\ ui = "idle" /\ begin(manual) /\ due' = FALSE
  /\ asked' = (asked \/ manual)
  /\ UNCHANGED <<taken, ui, held, sim, spoils, launched>>
-----------------------------------------------------------------------------
(* The worker.  The helper ends with a download, with none, or is killed   *)
(* after 180 s or when it is cancelled; the file is verified before the    *)
(* result says that it is there.                                           *)
downloads ==
  /\ worker = "helps" /\ cache # 0 /\ setup[cache] = "empty"
  /\ \E s \in {"good", "other"} : setup' = [setup EXCEPT ![cache] = s]
  /\ UNCHANGED <<made, cache, worker, busy, cancelled, ready, result, window, sim, spoils, launched, asked>>

reported_SlipForgetsWho(found) ==
  [available |-> found, manual |-> FALSE, dir |-> IF found THEN cache ELSE 0]

reported(found) ==
  [result EXCEPT !.available = found, !.dir = IF found THEN cache ELSE 0]

publishes ==
  /\ worker = "helps" /\ worker' = "published"
  /\ \/ /\ cache # 0 /\ setup[cache] = "good" /\ ~cancelled /\ result' = reported(TRUE)
     \/ result' = reported(FALSE)
  /\ ready' = ~cancelled
  /\ UNCHANGED <<made, setup, cache, busy, cancelled, window, sim, spoils, launched, asked>>

finishes ==
  /\ worker = "published" /\ worker' = "none" /\ busy' = FALSE
  /\ UNCHANGED <<made, setup, cache, cancelled, ready, result, window, sim, spoils, launched, asked>>
-----------------------------------------------------------------------------
(* poll_updates: take, then tell, or ask unless a simulator runs. *)
take ==
  /\ ui = "idle" /\ ready /\ ready' = FALSE /\ taken' = result
  /\ ui' = IF result.available /\ ~sim THEN "asks" ELSE "idle"
  /\ asked' = (asked /\ ~result.manual)
  /\ UNCHANGED <<made, setup, cache, worker, busy, cancelled, result, held, due, sim, spoils, launched>>

polls == ~ready /\ due /\ check_updates(FALSE)

declines ==
  /\ ui = "asks" /\ ui' = "idle"
  /\ UNCHANGED <<updater, taken, held, due, sim, spoils, launched, asked>>

(* Yes, with no unsaved settings or after they were saved or discarded.    *)
accepts ==
  /\ ui = "asks" /\ ui' = "launches"
  /\ result' = [result EXCEPT !.available = FALSE]
  /\ UNCHANGED <<made, setup, cache, worker, busy, cancelled, ready, taken, held, due, sim, spoils, launched, asked>>

(* launch: refused for another directory, a simulator or a changed file;   *)
(* the verified handle stays open over ShellExecuteEx.                     *)
Offered == taken.available /\ cache # 0 /\ taken.dir = cache

refuses ==
  /\ ui = "launches" /\ (~Offered \/ sim \/ setup[taken.dir] # "good")
  /\ ui' = "idle"
  /\ UNCHANGED <<updater, taken, held, due, sim, spoils, launched, asked>>

verify_SlipClosesEarly ==
  /\ ui = "launches" /\ Offered /\ ~sim /\ setup[taken.dir] = "good"
  /\ ui' = "verified" /\ held' = FALSE
  /\ UNCHANGED <<updater, taken, due, sim, spoils, launched, asked>>

verify ==
  /\ ui = "launches" /\ Offered /\ ~sim /\ setup[taken.dir] = "good"
  /\ ui' = "verified" /\ held' = TRUE
  /\ UNCHANGED <<updater, taken, due, sim, spoils, launched, asked>>

launch_SlipOwnsCache ==
  /\ ui = "verified" /\ held' = FALSE
  /\ \/ launched' = [dir |-> taken.dir, setup |-> setup[taken.dir]] /\ ui' = "ends" /\ UNCHANGED cache
     \/ ui' = "idle" /\ UNCHANGED <<launched, cache>>
  /\ UNCHANGED <<made, setup, worker, busy, cancelled, ready, result, taken, due, sim, spoils, asked>>

launch ==
  /\ ui = "verified" /\ held' = FALSE
  /\ \/ launched' = [dir |-> taken.dir, setup |-> setup[taken.dir]] /\ ui' = "ends" /\ cache' = 0
     \/ ui' = "idle" /\ UNCHANGED <<launched, cache>>
  /\ UNCHANGED <<made, setup, worker, busy, cancelled, ready, result, taken, due, sim, spoils, asked>>
-----------------------------------------------------------------------------
(* Exit, which the tray offers under a question too; then wWinMain stops   *)
(* the worker, waits for it, and the updater is destroyed.                 *)
exits ==
  /\ ui \in {"idle", "asks"} /\ ui' = "ends"
  /\ UNCHANGED <<updater, taken, held, due, sim, spoils, launched, asked>>

stop ==
  /\ ui = "ends" /\ ui' = "joins" /\ cancelled' = TRUE
  /\ UNCHANGED <<made, setup, cache, worker, busy, ready, result, taken, held, due, sim, spoils, launched, asked>>

destroyed_SlipNoJoin ==
  /\ ui = "joins" /\ ui' = "ended"
  /\ setup' = Cleaned(setup) /\ asked' = FALSE
  /\ UNCHANGED <<made, cache, worker, busy, cancelled, ready, result, taken, held, due, sim, spoils, launched>>

destroyed ==
  /\ ui = "joins" /\ worker = "none" /\ ui' = "ended"
  /\ setup' = Cleaned(setup) /\ asked' = FALSE
  /\ UNCHANGED <<made, cache, worker, busy, cancelled, ready, result, taken, held, due, sim, spoils, launched>>

(* The rest of the machine. *)
world ==
  /\ ui # "ended"
  /\ \/ sim' = ~sim /\ UNCHANGED <<setup, spoils, due>>
     \/ due' = TRUE /\ ~due /\ UNCHANGED <<setup, spoils, sim>>
     \/ /\ spoils < MaxSpoils /\ spoils' = spoils + 1
        /\ \E d \in Dirs : /\ setup[d] = "good" /\ ~(held /\ taken.dir = d)
                           /\ setup' = [setup EXCEPT ![d] = "other"]
        /\ UNCHANGED <<sim, due>>
  /\ UNCHANGED <<made, cache, worker, busy, cancelled, ready, result, taken, ui, held, launched, asked>>
-----------------------------------------------------------------------------
Init ==
  /\ made = 0 /\ setup = [d \in Dirs |-> "absent"] /\ cache = 0
  /\ worker = "none" /\ busy = FALSE /\ cancelled = FALSE /\ ready = FALSE /\ result = NoResult
  /\ taken = NoResult /\ ui = "idle" /\ held = FALSE /\ due = TRUE
  /\ sim \in BOOLEAN /\ spoils = 0 /\ launched = NoLaunch /\ asked = FALSE

Worker == downloads \/ publishes \/ finishes
Window == take \/ polls \/ declines \/ accepts \/ refuses \/ verify \/ launch \/ stop \/ destroyed
Next   == Worker \/ Window \/ check_updates(TRUE) \/ exits \/ world

Spec == Init /\ [][Next]_vars

(* The worker's wait is bounded and its thread runs; the timer ticks.      *)
Fairness ==
  /\ WF_vars(publishes) /\ WF_vars(finishes)
  /\ WF_vars(take) /\ WF_vars(refuses) /\ WF_vars(verify) /\ WF_vars(launch) /\ WF_vars(stop) /\ WF_vars(destroyed)
  /\ WF_vars(declines \/ accepts)
FairSpec == Spec /\ Fairness
-----------------------------------------------------------------------------
TypeOK ==
  /\ made \in 0..MaxCaches /\ cache \in 0..made /\ setup \in [Dirs -> {"absent", "empty", "good", "other"}]
  /\ {busy, cancelled, ready, held, due, sim, asked} \subseteq BOOLEAN

(* What was started is the file that was verified, whatever another        *)
(* program did to it meanwhile, and it keeps its directory.                *)
LaunchedAsVerified ==
  launched # NoLaunch => launched.setup = "good" /\ setup[launched.dir] # "absent"

(* Every directory but the installer's is the current one, and none is     *)
(* left behind, nor written to, once the program is gone.                  *)
NoLitter ==
  /\ \A d \in Dirs : setup[d] # "absent" => d \in {cache, launched.dir}
  /\ ui = "ended" => worker = "none" /\ \A d \in Dirs : setup[d] # "absent" => d = launched.dir

(* A question is only open for a download of the directory there is; an    *)
(* automatic check under the question would remove it.                     *)
OfferStands == update_prompt => taken.dir = cache /\ setup[cache] # "absent"

UpdateSafety == TypeOK /\ LaunchedAsVerified /\ NoLitter /\ OfferStands

(* A check the user asked for is answered, or the program ends.            *)
ManualIsAnswered == asked ~> ~asked
=============================================================================
