----------------------------- MODULE MCCompanion ----------------------------
(***************************************************************************)
(* For TLC: the companion's connection to the bridge, the bridge's control *)
(* loop, the controller of the camera entries, the updater, and the        *)
(* settings, shortcuts and log, checked one component at a time, with what *)
(* each promises to come to.                                               *)
(***************************************************************************)
EXTENDS EntryPair, TLC

CONSTANTS LinkChanges, ControlChanges, FileChanges, Damaged, Checked

VARIABLES
  component,      \* the component this behaviour is of
  control_mailbox, flight, probe, gpu, connection, setup, applied, scene, prewarm,
  round, changes,
  current, link, ui, worker, link_mailbox, sim, seen, link_changes,
  made, update_setup, cache, update_worker, busy, cancelled, ready, result, taken,
  update_ui, held, due, update_sim, spoils, launched, asked,
  file, temp, sel, marker, up, plan, w, cur, field, dirty, picker, edits, crashes, kept,
  settings_seen,
  hotkeys_file, saved, draft, chords, registered, lent, queue, dialog, focused, closing,
  hotkeys_up, saving, hotkeys_changes, done,
  active, previous, log_owner, at, tail, number, faults, told

(* The components. They share no state here: each stays as it starts while *)
(* the behaviour is of another.                                            *)
Control == INSTANCE BridgeControl WITH
  Profiles <- {1, 2}, MaxEpoch <- 1, MaxChanges <- ControlChanges,
  mailbox <- control_mailbox
Link == INSTANCE CompanionLink WITH
  MaxPid <- 2, MaxRequest <- 3, MaxRetries <- 1, MaxRecoveries <- 1,
  MaxChanges <- LinkChanges, mailbox <- link_mailbox, changes <- link_changes
Updates == INSTANCE Updater WITH
  MaxCaches <- 3, MaxSpoils <- 1, setup <- update_setup, worker <- update_worker,
  ui <- update_ui, sim <- update_sim
Files == INSTANCE SettingsFiles WITH
  Profiles <- {"a", "b"}, First <- "a", Legacy <- {"b"}, Spoiled <- Damaged, MaxEdits <- FileChanges,
  MaxRequests <- FileChanges, MaxCrashes <- 1, seen <- settings_seen
Hotkeys == INSTANCE CameraHotkeys WITH
  Actions <- {"left", "right"}, Chords <- {"c1", "c2"}, MaxQueue <- 2,
  MaxChanges <- 3 * FileChanges, file <- hotkeys_file, up <- hotkeys_up,
  changes <- hotkeys_changes
Log == INSTANCE RotatingLog WITH
  Writers <- {"w1", "w2"}, Limit <- 3, Oversize <- TRUE, MaxRecords <- 9,
  MaxFaults <- FileChanges, owner <- log_owner

ASSUME EntryPairAssumption /\ Link!LinkAssumption /\ Control!ControlAssumption /\ Updates!UpdaterAssumption
ASSUME Files!SettingsFilesAssumption /\ Hotkeys!CameraHotkeysAssumption /\ Log!RotatingLogAssumption
-----------------------------------------------------------------------------
controlVars == <<control_mailbox, flight, probe, gpu, connection, setup, applied,
                 scene, prewarm, round, changes>>
linkVars == <<current, link, ui, worker, link_mailbox, sim, seen, link_changes>>
updatesVars == <<made, update_setup, cache, update_worker, busy, cancelled,
                 ready, result, taken, update_ui, held, due, update_sim, spoils,
                 launched, asked>>
filesVars == <<file, temp, sel, marker, up, plan, w, cur, field, dirty, picker,
               edits, crashes, kept, settings_seen>>
hotkeysVars == <<hotkeys_file, saved, draft, chords, registered, lent, queue,
                 dialog, focused, closing, hotkeys_up, saving, hotkeys_changes,
                 done>>
logVars == <<active, previous, log_owner, at, tail, number, faults, told>>

Components == Checked

InitOne ==
  /\ component \in Components
  /\ Init
  /\ Control!Init
  /\ Link!Init
  /\ Updates!Init
  /\ Files!Init
  /\ Hotkeys!Init
  /\ Log!Init
  /\ component # "control" => ~control_mailbox.want
  /\ component # "link" => ~link.auto
  /\ component # "update" => ~update_sim
  /\ component # "hotkeys" => \A c \in {"c1", "c2"} : lent[c] = "none"

(* A step is one of the component the behaviour is of.                     *)
OfPair == component = "pair" /\ UNCHANGED <<component, controlVars, linkVars, updatesVars, filesVars, hotkeysVars, logVars>> /\ Next
OfControl == component = "control" /\ UNCHANGED <<component, vars, linkVars, updatesVars, filesVars, hotkeysVars, logVars>> /\ Control!Next
OfLink == component = "link" /\ UNCHANGED <<component, vars, controlVars, updatesVars, filesVars, hotkeysVars, logVars>> /\ Link!Next
OfUpdates == component = "update" /\ UNCHANGED <<component, vars, controlVars, linkVars, filesVars, hotkeysVars, logVars>> /\ Updates!Next
OfFiles == component = "settings" /\ UNCHANGED <<component, vars, controlVars, linkVars, updatesVars, hotkeysVars, logVars>> /\ Files!Next
OfHotkeys == component = "hotkeys" /\ UNCHANGED <<component, vars, controlVars, linkVars, updatesVars, filesVars, logVars>> /\ Hotkeys!Next
OfLog == component = "log" /\ UNCHANGED <<component, vars, controlVars, linkVars, updatesVars, filesVars, hotkeysVars>> /\ Log!Next

(* Components whose runs end: what may change has changed, or the program  *)
(* is gone.                                                                *)
Rests == component \in {"link", "update", "pair", "hotkeys", "log"} /\ UNCHANGED <<component, vars, controlVars, linkVars, updatesVars, filesVars, hotkeysVars, logVars>>

NextOne == OfPair \/ OfControl \/ OfLink \/ OfUpdates \/ OfFiles \/ OfHotkeys \/ OfLog \/ Rests

(* The fairness of each component, for the behaviours that are its own.    *)
FairnessOne ==
  /\ SF_vars(component = "pair" /\ take(TRUE))
  /\ SF_vars(component = "pair" /\ erase(TRUE, TRUE))
  /\ WF_vars(component = "pair" /\ skip) /\ WF_vars(component = "pair" /\ start) /\ WF_vars(component = "pair" /\ publish)
  /\ WF_vars(component = "pair" /\ \E sure, gone \in BOOLEAN : erase(sure, gone))
  /\ WF_vars(component = "pair" /\ \E why \in {"none", "initializer_failed", "initializer_contract"} : prepare(why))
  /\ WF_vars(component = "pair" /\ (create_fails \/ create_first \/ create_second \/ create_duplicate))
  /\ WF_linkVars(component = "link" /\ Link!round) /\ WF_linkVars(component = "link" /\ Link!delay_passes)
  /\ WF_linkVars(component = "link" /\ (Link!requests_command \/ Link!publishes))
  /\ WF_controlVars(component = "control" /\ Control!run_impl) /\ WF_controlVars(component = "control" /\ Control!observer)
  /\ WF_controlVars(component = "control" /\ Control!budget_passes) /\ WF_controlVars(component = "control" /\ Control!acknowledges)
  /\ WF_controlVars(component = "control" /\ (Control!service_world_invalidation \/ Control!settles))
  /\ WF_updatesVars(component = "update" /\ Updates!publishes) /\ WF_updatesVars(component = "update" /\ Updates!finishes) /\ WF_updatesVars(component = "update" /\ Updates!take)
  /\ WF_updatesVars(component = "update" /\ Updates!refuses) /\ WF_updatesVars(component = "update" /\ Updates!verify) /\ WF_updatesVars(component = "update" /\ Updates!launch)
  /\ WF_updatesVars(component = "update" /\ Updates!stop) /\ WF_updatesVars(component = "update" /\ Updates!destroyed)
  /\ WF_updatesVars(component = "update" /\ (Updates!declines \/ Updates!accepts))

SpecOne == InitOne /\ [][NextOne]_<<component, vars, controlVars, linkVars, updatesVars, filesVars, hotkeysVars, logVars>>
FairSpecOne == SpecOne /\ FairnessOne
-----------------------------------------------------------------------------
(* The invariants of the three that keep files: kept settings are on disk  *)
(* and each aircraft has its own, shortcuts are paused or the saved ones,  *)
(* the newest records are in the log.                                      *)
FilesSafety == Files!SettingsSafety /\ Hotkeys!HotkeySafety /\ Log!LogSafety

(* See SettingsFiles and CameraHotkeys: the aircraft changes only when     *)
(* everything entered for the departing one is in its file, and a message  *)
(* acts only for the binding saved when it is handled.                     *)
SavedIsMeant == Files!SwitchKeepsEdits /\ Hotkeys!ActsAsSaved

(* The invariants of the three: LinkSafety (one load per attachment, one   *)
(* meaning of Connect), SetupSafety (demand only behind the whole setup),  *)
(* UpdateSafety (the installer that starts is the one that was verified).  *)
CompanionSafety == Link!LinkSafety /\ Control!SetupSafety /\ Updates!UpdateSafety

(* Disconnect holds and requests only grow, whatever the worker is in the  *)
(* middle of (companion.cpp:169).                                          *)
LinkHolds == Link!DisconnectHolds /\ Link!RequestsOnlyGrow

(* See BridgeControl: a start is only asked for by the companion whose     *)
(* setup was applied.                                                      *)
StartsAreWanted == Control!StartsAreWanted

(* See CompanionLink: a request to connect is answered.                    *)
ConnectAnswered == component = "link" => Link!ConnectIsAnswered

(* See EntryPair: a request to disable is followed by the end of all       *)
(* ownership.                                                              *)
PairDrains == component = "pair" => StopDrains

(* See BridgeControl: the loop ends up with what companion and flight ask. *)
SetupSettles == component = "control" => Control!SetupSettles

(* See BridgeControl: a warm-up that began ends, paused or not.            *)
WarmupEnds == component = "control" => Control!WarmupEnds

(* See Updater: a check the user asked for is answered.                    *)
ManualIsAnswered == component = "update" => Updates!ManualIsAnswered
=============================================================================
