--------------------------- MODULE CameraHotkeys ---------------------------
(***************************************************************************)
(* The keyboard shortcuts (camera_hotkeys.hpp) with the editor that        *)
(* changes them and the window that gets their messages (companion.cpp).   *)
(* Windows lends a chord to one registration at a time and posts a message *)
(* per press; messages posted before a change are handled after it.        *)
(*                                                                         *)
(* file is hotkeys.ini; done is history: the action and the chord of the   *)
(* last request that a message made.                                       *)
(***************************************************************************)
EXTENDS Naturals, Sequences, FiniteSets

CONSTANTS
  Actions,      \* CameraHotkeyNames
  Chords,       \* the chords valid_camera_hotkey accepts
  MaxQueue,     \* messages posted and not yet handled
  MaxChanges    \* edits of the draft, presses, other programs, ends: together

(* What the constants are assumed to be; the runs evaluate it.             *)
CameraHotkeysAssumption == MaxQueue \in Nat /\ MaxChanges \in Nat /\ Cardinality(Chords) >= Cardinality(Actions)

VARIABLES
  file,                 \* what is stored, or the defaults before the first save
  saved, draft,         \* hotkey_saved, hotkey_draft
  chords, registered,   \* chords_, registered_ of the registration
  lent,                 \* Windows: to which action, or "other" or "none", a chord is registered
  queue,                \* WM_HOTKEY messages of the window
  dialog, focused, closing, up,
  saving,               \* between the move of hotkeys.ini and hotkey_saved
  changes, done

reg  == <<chords, registered, lent>>
vars == <<file, saved, draft, reg, queue, dialog, focused, closing, up, saving, changes, done>>

Disabled == "disabled"
NoChords == [a \in Actions |-> Disabled]
NoAction == [action |-> "none", chord |-> Disabled]
Defaults == CHOOSE c \in [Actions -> Chords] : \A a, b \in Actions : a # b => c[a] # c[b]

valid_camera_hotkeys(c) ==
  /\ \A a \in Actions : c[a] \in Chords \union {Disabled}
  /\ \A a, b \in Actions : a # b /\ c[a] = c[b] => c[a] = Disabled

Changes == changes < MaxChanges /\ changes' = changes + 1
-----------------------------------------------------------------------------
(* CameraHotkeyRegistration::clear and configure.  RegisterHotKey refuses  *)
(* a chord that another program holds.                                     *)
Freed == [c \in Chords |-> IF lent[c] \in Actions THEN "none" ELSE lent[c]]

clear == registered' = [a \in Actions |-> FALSE] /\ lent' = Freed /\ UNCHANGED chords

configure_SlipNoClear(c) ==
  /\ chords' = c
  /\ lent' = [x \in Chords |-> IF lent[x] = "none" /\ \E a \in Actions : c[a] = x
                               THEN CHOOSE a \in Actions : c[a] = x ELSE lent[x]]
  /\ registered' = [a \in Actions |-> registered[a] \/ (c[a] # Disabled /\ lent'[c[a]] = a)]

configure(c) ==
  /\ chords' = c
  /\ lent' = [x \in Chords |-> IF Freed[x] = "none" /\ \E a \in Actions : c[a] = x
                               THEN CHOOSE a \in Actions : c[a] = x ELSE Freed[x]]
  /\ registered' = [a \in Actions |-> c[a] # Disabled /\ lent'[c[a]] = a]

register_camera_hotkeys(c, editing, closes) ==
  IF editing \/ closes THEN clear ELSE configure(c)

action_SlipIdOnly(m) == registered[m.action]
action(m) == registered[m.action] /\ chords[m.action] = m.chord
-----------------------------------------------------------------------------
(* shortcut_dialog and shortcut_editor. *)
opens ==
  /\ up /\ ~dialog /\ ~closing /\ Changes
  /\ dialog' = TRUE /\ draft' = saved
  /\ UNCHANGED <<file, saved, reg, queue, focused, closing, up, saving, done>>

(* WM_SETFOCUS of a field, from outside or from another field. *)
focuses ==
  /\ up /\ dialog /\ ~focused /\ ~saving
  /\ focused' = TRUE /\ clear
  /\ UNCHANGED <<file, saved, draft, queue, dialog, closing, up, saving, changes, done>>

(* WM_KILLFOCUS towards anything but another field. *)
unfocuses ==
  /\ up /\ focused /\ ~saving
  /\ focused' = FALSE /\ register_camera_hotkeys(saved, FALSE, closing)
  /\ UNCHANGED <<file, saved, draft, queue, dialog, closing, up, saving, changes, done>>

(* A chord typed into the focused field, Clear and Reset. *)
edits ==
  /\ up /\ dialog /\ ~saving /\ Changes
  /\ \E d \in {[draft EXCEPT ![a] = c] : a \in Actions, c \in Chords \union {Disabled}} \union {Defaults} :
       d # draft /\ draft' = d
  /\ UNCHANGED <<file, saved, reg, queue, dialog, focused, closing, up, saving, done>>

(* "Save changes", by mouse or by Enter in a field: hotkeys.ini is written *)
(* beside the old one and moved over it; then the new chords apply.        *)
saves ==
  /\ up /\ dialog /\ ~saving /\ valid_camera_hotkeys(draft)
  /\ file' = draft /\ saving' = TRUE
  /\ UNCHANGED <<saved, draft, reg, queue, dialog, focused, closing, up, changes, done>>

applies ==
  /\ up /\ saving /\ saving' = FALSE
  /\ saved' = draft /\ register_camera_hotkeys(draft, focused, closing)
  /\ UNCHANGED <<file, draft, queue, dialog, focused, closing, up, changes, done>>

(* WM_DESTROY of the editor, whether a field held the focus or not. *)
closes_SlipKeepsPause ==
  /\ up /\ dialog /\ ~saving
  /\ dialog' = FALSE /\ focused' = FALSE /\ draft' = saved
  /\ register_camera_hotkeys(saved, focused, closing)
  /\ UNCHANGED <<file, saved, queue, closing, up, saving, changes, done>>

closes ==
  /\ up /\ dialog /\ ~saving
  /\ dialog' = FALSE /\ focused' = FALSE /\ draft' = saved
  /\ register_camera_hotkeys(saved, FALSE, closing)
  /\ UNCHANGED <<file, saved, queue, closing, up, saving, changes, done>>
-----------------------------------------------------------------------------
(* Windows and other programs. *)
presses(c) ==
  /\ lent[c] \in Actions /\ Len(queue) < MaxQueue /\ Changes
  /\ queue' = Append(queue, [action |-> lent[c], chord |-> c])
  /\ UNCHANGED <<file, saved, draft, reg, dialog, focused, closing, up, saving, done>>

other_program(c) ==
  /\ Changes
  /\ \/ lent[c] = "none" /\ lent' = [lent EXCEPT ![c] = "other"]
     \/ lent[c] = "other" /\ lent' = [lent EXCEPT ![c] = "none"]
  /\ UNCHANGED <<file, saved, draft, chords, registered, queue, dialog, focused, closing, up, saving, done>>

(* WM_HOTKEY: a request only of the binding as it is now. *)
handles ==
  /\ up /\ ~saving /\ queue # <<>> /\ queue' = Tail(queue)
  /\ done' = IF action(Head(queue)) THEN Head(queue) ELSE done
  /\ UNCHANGED <<file, saved, draft, reg, dialog, focused, closing, up, saving, changes>>

(* WM_DESTROY of the window; the editor, which it owns, is destroyed next. *)
destroys ==
  /\ up /\ ~closing /\ ~saving /\ Changes
  /\ closing' = TRUE /\ clear
  /\ UNCHANGED <<file, saved, draft, queue, dialog, focused, up, saving, done>>

(* The process ends, or dies: Windows takes its registrations back.        *)
ends ==
  /\ up
  /\ \/ closing /\ ~dialog /\ UNCHANGED changes
     \/ Changes
  /\ up' = FALSE /\ dialog' = FALSE /\ focused' = FALSE /\ saving' = FALSE /\ queue' = <<>>
  /\ clear
  /\ UNCHANGED <<file, saved, draft, closing, done>>

(* load_camera_hotkeys and WM_CREATE. *)
starts ==
  /\ ~up /\ up' = TRUE /\ closing' = FALSE
  /\ saved' = file
  /\ draft' = saved' /\ configure(saved')
  /\ UNCHANGED <<file, queue, dialog, focused, saving, changes, done>>
-----------------------------------------------------------------------------
Init ==
  /\ file = Defaults /\ saved = Defaults /\ draft = Defaults
  /\ chords = NoChords /\ registered = [a \in Actions |-> FALSE]
  /\ lent \in [Chords -> {"none", "other"}]
  /\ queue = <<>> /\ dialog = FALSE /\ focused = FALSE /\ closing = FALSE /\ up = FALSE /\ saving = FALSE
  /\ changes = 0 /\ done = NoAction

Next ==
  \/ opens \/ focuses \/ unfocuses \/ edits \/ saves \/ applies \/ closes
  \/ handles \/ destroys \/ ends \/ starts
  \/ \E c \in Chords : presses(c) \/ other_program(c)

Spec == Init /\ [][Next]_vars
-----------------------------------------------------------------------------
TypeOK ==
  /\ {file, saved, draft, chords} \subseteq [Actions -> Chords \union {Disabled}]
  /\ registered \in [Actions -> BOOLEAN] /\ lent \in [Chords -> Actions \union {"none", "other"}]
  /\ Len(queue) <= MaxQueue /\ {dialog, focused, closing, up, saving} \subseteq BOOLEAN

(* What the registration believes is what Windows lent it: no chord stays  *)
(* taken for a binding that is gone, and none fires two actions.           *)
NothingLeaks ==
  \A c \in Chords, a \in Actions : lent[c] = a <=> registered[a] /\ chords[a] = c

(* While a field of the editor has the focus and once the window closes,   *)
(* every chord is free; otherwise the saved chords are the ones asked for. *)
PausedOrSaved ==
  up => IF focused \/ closing THEN \A a \in Actions : ~registered[a] ELSE chords = saved

(* What is stored is what applies, or the save under way. *)
StoredApplies == up => file = IF saving THEN draft ELSE saved

HotkeySafety == TypeOK /\ NothingLeaks /\ PausedOrSaved /\ StoredApplies

(* A message acts only for the binding that is saved when it is handled,   *)
(* and never while the shortcuts are being edited.                         *)
ActsAsSaved ==
  [][handles /\ action(Head(queue)) => saved[Head(queue).action] = Head(queue).chord /\ ~focused]_vars
=============================================================================
