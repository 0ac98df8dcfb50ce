-------------------------- MODULE CameraOwnership ---------------------------
(***************************************************************************)
(* What the program promises the simulator about the camera entries it has *)
(* created there: camera/entry_pair, seen from outside.  EntryPair         *)
(* implements it.                                                          *)
(*                                                                         *)
(* An entry is a manager's lifetime and an ID.  The engine may drop one    *)
(* at any time; the program creates them only under a permission, at most  *)
(* a pair at a time, both in one lifetime, and stops to remember one only  *)
(* when it no longer exists.                                               *)
(***************************************************************************)
CONSTANT Entries

VARIABLES
  alive,      \* entries that exist in the simulator on our behalf
  held,       \* entries the program knows it has to erase
  allowed     \* creation is wanted and not yet withdrawn, used up or failed

vars == <<alive, held, allowed>>

Init == alive = {} /\ held = {} /\ allowed = FALSE

Allow    == allowed' = TRUE  /\ UNCHANGED <<alive, held>>
Withdraw == allowed' = FALSE /\ UNCHANGED <<alive, held>>

(* At most two at a time; the permission ends with the second.             *)
Create(e) ==
  /\ allowed /\ \A g, h \in held : g = h
  /\ e \notin alive \cup held /\ \A h \in held : h[1] = e[1]
  /\ alive' = alive \cup {e} /\ held' = held \cup {e}
  /\ allowed' = (held = {})

(* An attempt to erase: it may succeed unnoticed, it is never believed in  *)
(* vain.                                                                   *)
Erase(e) ==
  /\ e \in held
  /\ alive' \in {alive, alive \ {e}}
  /\ held' \in {held} \cup {held \ {e}} /\ alive' \subseteq held'
  /\ UNCHANGED allowed

(* The manager of the pair is gone, and everything in it.                  *)
Lose ==
  /\ alive = {} /\ held # {}
  /\ held' = {} /\ allowed' = FALSE
  /\ UNCHANGED alive

Vanish ==
  /\ alive # {}
  /\ \E e \in alive : alive' \in {alive \ {e}, {}}
  /\ UNCHANGED <<held, allowed>>

Next ==
  \/ Allow \/ Withdraw
  \/ \E e \in Entries : Create(e)
  \/ \E e \in held : Erase(e)
  \/ Lose \/ Vanish

Spec == Init /\ [][Next]_vars
=============================================================================
