--------------------------- MODULE SettingsFiles ---------------------------
(***************************************************************************)
(* The settings of each aircraft on disk (settings_store.hpp), the first-  *)
(* use marker (startup_state.hpp), and the operations of the settings      *)
(* window that load and save them (companion.cpp).  All run on the window  *)
(* thread; the program or the machine may stop between any two of their    *)
(* system calls, each of which may fail.                                   *)
(*                                                                         *)
(* The calibration of an aircraft is one value [of, n]: the aircraft it    *)
(* was made for and an edit number (0 the defaults of the catalog and of   *)
(* the installer's mounts, 1 the calibration of an older version, edits    *)
(* count from 2).  A file is such a value with the revision of its night   *)
(* boost preference; valid says that valid_settings accepts what is read   *)
(* from it, safe that it was flushed, or moved into place with write-      *)
(* through.  What is not safe is torn by a crash, valid or not.            *)
(*                                                                         *)
(* plan holds the stages left of the operation under way, w the settings   *)
(* it writes or loads.  kept is history: the last edit of each aircraft    *)
(* the user was told is saved; seen whether the window was ever shown.     *)
(***************************************************************************)
EXTENDS Integers, Sequences

CONSTANTS
  Profiles, First,     \* the aircraft; the one chosen when none is stored
  Legacy,              \* the aircraft an older version left a file of
  Spoiled,             \* those whose file others than the program may make invalid
  MaxEdits, MaxRequests, MaxCrashes

(* What the constants are assumed to be; the runs evaluate it.             *)
SettingsFilesAssumption ==
  /\ First \in Profiles /\ Legacy \subseteq Profiles /\ Spoiled \subseteq Profiles
  /\ MaxEdits \in Nat /\ MaxRequests \in Nat /\ MaxCrashes \in Nat

VARIABLES
  file,       \* file[p]: <key>.ini
  temp,       \* <key>.ini.tmp or .night-boost.tmp of the operation under way
  sel,        \* settings.ini: profile, automatic; before: the profile it replaced
  marker,     \* startup-state
  up, plan, w,
  cur, field, \* current; what the controls hold over it
  dirty, picker,
  edits, crashes,
  kept, seen

disk == <<file, temp, sel, marker>>
ui   == <<cur, field, dirty, picker>>
hist == <<edits, crashes, kept, seen>>
vars == <<disk, up, plan, w, ui, hist>>

None   == [is |-> "none"]
Torn   == -1
Data(p, n, revised, safe) ==
  [is |-> "data", of |-> p, n |-> n, revised |-> revised, safe |-> safe, valid |-> TRUE]
Perhaps(f) == {[f EXCEPT !.valid = v] : v \in BOOLEAN}
Exists(f) == f.is = "data"
Settings(p, n, auto, request) == [profile |-> p, of |-> p, n |-> n, auto |-> auto, request |-> request]
Same   == 0      \* the controls show current
Bad    == -1     \* read_fields refuses them
Closed == [profile |-> First, request |-> -1]
Idle   == up /\ plan = <<>>
-----------------------------------------------------------------------------
Save == <<"create", "write", "move", "select", "automatic">>
Load == <<"import", "read", "patch", "replace">>
Rest == Tail(plan)

(* The operation ends early: the caller returns and only reports.          *)
Fails == plan' = <<>> /\ temp' = None
At(stage) == up /\ plan # <<>> /\ Head(plan) = stage

(* save_settings, into the file of w.profile. *)
create ==
  /\ At("create")
  /\ \/ plan' = Rest /\ temp' = Data(w.of, Torn, FALSE, FALSE)
     \/ Fails
  /\ UNCHANGED <<file, sel, marker, up, w, ui, hist>>

write_SlipNoFlush ==
  /\ At("write")
  /\ \/ plan' = Rest /\ temp' = Data(w.of, w.n, TRUE, FALSE)
     \/ Fails
  /\ UNCHANGED <<file, sel, marker, up, w, ui, hist>>

write ==
  /\ At("write")
  /\ \/ plan' = Rest /\ temp' = Data(w.of, w.n, TRUE, TRUE)
     \/ Fails
  /\ UNCHANGED <<file, sel, marker, up, w, ui, hist>>

move ==
  /\ At("move")
  /\ \/ /\ file' = [file EXCEPT ![w.profile] = temp]
        /\ plan' = Rest /\ temp' = None
     \/ Fails /\ UNCHANGED file
  /\ UNCHANGED <<sel, marker, up, w, ui, hist>>

select ==
  /\ At("select")
  /\ \/ sel' = [sel EXCEPT !.profile = w.profile, !.before = sel.profile] /\ plan' = Rest /\ UNCHANGED temp
     \/ Fails /\ UNCHANGED sel
  /\ UNCHANGED <<file, marker, up, w, ui, hist>>

automatic ==
  /\ At("automatic")
  /\ \/ sel' = [sel EXCEPT !.automatic = w.auto] /\ plan' = Rest /\ UNCHANGED temp
     \/ Fails /\ UNCHANGED sel
  /\ UNCHANGED <<file, marker, up, w, ui, hist>>
-----------------------------------------------------------------------------
(* load_settings for w.profile.  CopyFileW fills the file and deletes what *)
(* it made when it fails; the older version's file is then read instead.   *)
Importable == ~Exists(file[w.profile]) /\ w.profile \in Legacy

import ==
  /\ At("import")
  /\ IF Importable
     THEN /\ file' = [file EXCEPT ![w.profile] = Data(w.profile, Torn, FALSE, FALSE)]
          /\ plan' = <<"copied">> \o Rest
     ELSE UNCHANGED file /\ plan' = Rest
  /\ UNCHANGED <<temp, sel, marker, up, w, ui, hist>>

copied ==
  /\ At("copied") /\ plan' = Rest
  /\ \E f \in {None} \union Perhaps(Data(w.profile, 1, FALSE, FALSE)) : file' = [file EXCEPT ![w.profile] = f]
  /\ UNCHANGED <<temp, sel, marker, up, w, ui, hist>>

Sources == IF Importable THEN Perhaps(Data(w.profile, 1, FALSE, TRUE)) ELSE {file[w.profile]}

(* A file without the revision is patched; one that does not exist is not. *)
read ==
  /\ At("read")
  /\ \E s \in Sources :
       /\ Exists(s) => s.valid
       /\ w' = [w EXCEPT !.of = IF Exists(s) THEN s.of ELSE w.profile,
                         !.n = IF Exists(s) THEN s.n ELSE 0, !.auto = sel.automatic]
       /\ plan' = IF Exists(s) /\ ~s.revised THEN Rest ELSE Tail(Tail(Rest))
  /\ UNCHANGED <<disk, up, ui, hist>>

(* valid_settings refuses what was read.  A switch ends, with the departing*)
(* aircraft saved and current as it was; a start goes on with the defaults *)
(* of the first aircraft, whichever is selected.                           *)
Starting == plan[4] = "started"

refuses ==
  /\ At("read")
  /\ \E s \in Sources : Exists(s) /\ ~s.valid
  /\ IF Starting THEN plan' = Tail(Tail(Rest)) /\ w' = Settings(First, 0, TRUE, 0)
                 ELSE plan' = <<>> /\ UNCHANGED w
  /\ UNCHANGED <<disk, up, ui, hist>>

(* migrate_night_boost: whatever fails, the load goes on with what was read. *)
patch ==
  /\ At("patch")
  /\ \/ temp' = Data(w.of, w.n, TRUE, TRUE) /\ plan' = Rest
     \/ temp' = None /\ plan' = Tail(Rest)
  /\ UNCHANGED <<file, sel, marker, up, w, ui, hist>>

replace ==
  /\ At("replace") /\ plan' = Rest /\ temp' = None
  /\ \/ file' = [file EXCEPT ![w.profile] = temp]
     \/ UNCHANGED file
  /\ UNCHANGED <<sel, marker, up, w, ui, hist>>
-----------------------------------------------------------------------------
(* read_fields over current, as the settings an operation works on.        *)
Read == IF field = Same THEN cur ELSE [cur EXCEPT !.of = cur.profile, !.n = field]

(* apply(): validate the fields, save, publish.                             *)
applied ==
  /\ At("applied") /\ plan' = Rest
  /\ cur' = w /\ field' = Same /\ dirty' = FALSE
  /\ kept' = [kept EXCEPT ![w.profile] = w.n]
  /\ UNCHANGED <<disk, up, w, picker, edits, crashes, seen>>

Then(stages, s) == plan' = stages /\ w' = s

saves ==
  /\ Idle /\ picker = Closed /\ field # Bad
  /\ Then(Save \o <<"applied">>, Read)
  /\ UNCHANGED <<disk, up, ui, hist>>

(* The list of aircraft, or auto_profile once the detected aircraft is     *)
(* another: save the departing profile, load the other, save it as the     *)
(* selected one, publish it.                                               *)
Switch_SlipNoApply(q, auto) ==
  /\ Then(<<"swap", q>> \o Load \o <<"next", auto>> \o Save \o <<"publish">>, cur)
  /\ UNCHANGED <<disk, up, ui, hist>>

Switch(q, auto) ==
  /\ field # Bad
  /\ Then(Save \o <<"applied", "swap", q>> \o Load \o <<"next", auto>> \o Save \o <<"publish">>, Read)
  /\ UNCHANGED <<disk, up, ui, hist>>

chooses_profile(q) ==
  Idle /\ picker = Closed /\ cur.request < MaxRequests /\ Switch(q, FALSE)

auto_profile(q) ==
  Idle /\ cur.auto /\ q # cur.profile /\ cur.request < MaxRequests /\ Switch(q, TRUE)

swap ==
  /\ At("swap") /\ plan' = Tail(Tail(Rest))
  /\ w' = Settings(plan[2], 0, TRUE, cur.request)
  /\ UNCHANGED <<disk, up, ui, hist>>

prepare_profile_selection ==
  /\ At("next") /\ plan' = Tail(Rest)
  /\ w' = [w EXCEPT !.auto = plan[2], !.request = cur.request + 1]
  /\ UNCHANGED <<disk, up, ui, hist>>

publish ==
  /\ At("publish") /\ plan' = Rest
  /\ cur' = w /\ field' = Same /\ dirty' = FALSE
  /\ kept' = [kept EXCEPT ![w.profile] = w.n]
  /\ UNCHANGED <<disk, up, w, picker, edits, crashes, seen>>
-----------------------------------------------------------------------------
(* The controls: a text that parses, or one that does not. *)
types ==
  /\ Idle /\ picker = Closed /\ dirty' = TRUE
  /\ \/ edits < MaxEdits /\ edits' = edits + 1 /\ field' = edits + 2
     \/ field' = Bad /\ UNCHANGED edits
  /\ UNCHANGED <<disk, up, plan, w, cur, picker, crashes, kept, seen>>

(* Buttons that first apply the fields without saving, and change or keep  *)
(* the calibration (Raise, Forward, Apply live), or reset it.              *)
adjusts ==
  /\ Idle /\ picker = Closed /\ edits < MaxEdits
  /\ cur' = [cur EXCEPT !.of = cur.profile, !.n = edits + 2]
  /\ edits' = edits + 1 /\ field' = Same /\ dirty' = TRUE
  /\ UNCHANGED <<disk, up, plan, w, picker, crashes, kept, seen>>

(* A new DPI, Auto-connect and "Stop camera tests" rebuild the controls    *)
(* from current: what was typed and not applied is gone.                   *)
rebuilds ==
  /\ Idle /\ field # Same /\ field' = Same
  /\ UNCHANGED <<disk, up, plan, w, cur, dirty, picker, hist>>

toggles_automatic ==
  /\ Idle /\ picker = Closed /\ field # Bad
  /\ cur' = [Read EXCEPT !.auto = ~cur.auto] /\ field' = Same /\ dirty' = FALSE
  /\ Then(Save \o <<"applied">>, cur')
  /\ UNCHANGED <<disk, up, picker, hist>>

opens_picker ==
  /\ Idle /\ picker = Closed /\ field # Bad
  /\ cur' = Read /\ field' = Same /\ dirty' = FALSE
  /\ picker' = [profile |-> cur.profile, request |-> cur.request]
  /\ UNCHANGED <<disk, up, plan, w, hist>>

(* apply_color_selection: the picker pumped messages, so current may be    *)
(* another aircraft by now.                                                *)
Session_SlipAny(expected) == TRUE
Session(expected) == cur.profile = expected.profile /\ cur.request = expected.request

picks ==
  /\ Idle /\ picker # Closed /\ picker' = Closed
  /\ \/ /\ Session(picker) /\ edits < MaxEdits
        /\ cur' = [cur EXCEPT !.of = picker.profile, !.n = edits + 2]
        /\ edits' = edits + 1 /\ dirty' = TRUE
     \/ UNCHANGED <<cur, edits, dirty>>
  /\ UNCHANGED <<disk, up, plan, w, field, crashes, kept, seen>>
-----------------------------------------------------------------------------
(* wWinMain.  StartupSettings: a background start stays hidden once the    *)
(* window was shown; the marker follows the window.                        *)
starts(background) ==
  /\ ~up /\ up' = TRUE
  /\ Then(Load \o <<"started", background>>, Settings(sel.profile, 0, TRUE, 0))
  /\ UNCHANGED <<disk, ui, hist>>

should_show_SlipHidden(background) == ~background
should_show(background) == ~background \/ ~marker

started ==
  /\ At("started") /\ plan' = <<>>
  /\ cur' = [w EXCEPT !.request = 0] /\ field' = Same /\ dirty' = FALSE /\ picker' = Closed
  /\ IF should_show(plan[2])
     THEN seen' = TRUE /\ marker' \in {marker, TRUE}
     ELSE UNCHANGED <<seen, marker>>
  /\ UNCHANGED <<file, temp, sel, up, w, edits, crashes, kept>>

(* Ends between two system calls, by a power cut at worst: what was not    *)
(* flushed is torn, the selection may be the one before.                   *)
crash ==
  /\ up /\ crashes < MaxCrashes /\ crashes' = crashes + 1
  /\ up' = FALSE /\ plan' = <<>> /\ temp' = None /\ picker' = Closed
  /\ \E valid \in BOOLEAN :
       file' = [p \in Profiles |->
                  IF Exists(file[p]) /\ ~file[p].safe
                  THEN [Data(file[p].of, Torn, FALSE, TRUE) EXCEPT !.valid = valid] ELSE file[p]]
  /\ \E p \in {sel.profile, sel.before}, a \in BOOLEAN : sel' = [profile |-> p, before |-> p, automatic |-> a]
  /\ UNCHANGED <<marker, w, cur, field, dirty, edits, kept, seen>>

(* A file is edited by hand, or refused by a newer version of the program. *)
spoils(p) ==
  /\ ~up /\ p \in Spoiled /\ Exists(file[p]) /\ file[p].valid
  /\ file' = [file EXCEPT ![p].valid = FALSE] /\ kept' = [kept EXCEPT ![p] = Torn]
  /\ UNCHANGED <<temp, sel, marker, up, plan, w, ui, edits, crashes, seen>>
-----------------------------------------------------------------------------
Init ==
  /\ file = [p \in Profiles |-> None] /\ temp = None
  /\ sel = [profile |-> First, before |-> First, automatic |-> TRUE]
  /\ marker = FALSE /\ up = FALSE /\ plan = <<>>
  /\ w = Settings(First, 0, TRUE, 0) /\ cur = w
  /\ field = Same /\ dirty = FALSE /\ picker = Closed
  /\ edits = 0 /\ crashes = 0 /\ kept = [p \in Profiles |-> Torn] /\ seen = FALSE

Stage ==
  \/ create \/ write \/ move \/ select \/ automatic
  \/ import \/ copied \/ read \/ refuses \/ patch \/ replace
  \/ applied \/ swap \/ prepare_profile_selection \/ publish \/ started

Next ==
  \/ Stage \/ saves \/ types \/ adjusts \/ rebuilds \/ toggles_automatic \/ opens_picker \/ picks \/ crash
  \/ \E q \in Profiles : chooses_profile(q) \/ auto_profile(q) \/ spoils(q)
  \/ \E b \in BOOLEAN : starts(b)

Spec == Init /\ [][Next]_vars
-----------------------------------------------------------------------------
TypeOK ==
  /\ \A p \in Profiles : file[p] = None \/ (file[p].of \in Profiles /\ file[p].n \in Torn..MaxEdits + 1)
  /\ sel.profile \in Profiles /\ {sel.automatic, marker, up, dirty, seen} \subseteq BOOLEAN
  /\ field \in Bad..MaxEdits + 1 /\ edits \in 0..MaxEdits /\ crashes \in 0..MaxCrashes

(* A calibration the user was told is saved is on disk in that form or a   *)
(* later one, at every step of every later save, load, migration or crash. *)
KeptIsOnDisk ==
  \A p \in Profiles : kept[p] # Torn => Exists(file[p]) /\ file[p].n >= kept[p]

(* No aircraft gets the calibration of another, in memory or on disk, even *)
(* when it is switched under an open colour picker.                        *)
OwnCalibration ==
  /\ \A p \in Profiles : Exists(file[p]) => file[p].of = p
  /\ Idle => cur.of = cur.profile

(* After the first start the user has seen the window, whatever started    *)
(* the program and whatever crashed before the marker was stored.          *)
WindowWasSeen == Idle => seen

SettingsSafety == TypeOK /\ KeptIsOnDisk /\ OwnCalibration /\ WindowWasSeen

(* The selected aircraft changes only when everything entered for the      *)
(* departing one, published or still in the controls, is in its file.      *)
SwitchKeepsEdits ==
  [][cur'.request > cur.request =>
       Exists(file[cur.profile]) /\ file[cur.profile].n = cur.n /\ field = Same]_vars
=============================================================================
