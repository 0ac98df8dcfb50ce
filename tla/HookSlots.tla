------------------------------ MODULE HookSlots -----------------------------
(***************************************************************************)
(* The function slots the bridge exchanges, and the five installers that   *)
(* own them: the command list observer of render passes (boundary), the    *)
(* command list state observer (pfd), the queue observer (queue), the      *)
(* single slot of the camera manager (engine), and the process-lifetime    *)
(* NativeSlots of initialize_graphics (native).  Init picks one of them:   *)
(* they hold different locks and share no slot.                            *)
(*                                                                         *)
(* Every installer exchanges a slot the same way: publish the address the  *)
(* wrapper forwards to, change the page's protection, compare and swap,    *)
(* restore the protection.  Other software in the process (foreign) may    *)
(* exchange the same slot at any step, over the wrapper or under it, and   *)
(* each protection change may fail.  A repair that fails ends its          *)
(* operation before anything changed, so it is no step.                    *)
(*                                                                         *)
(* value is what a slot holds, below what the foreign wrapper forwards to, *)
(* owed the protection still to be restored; reached is history: whether   *)
(* the bridge's own wrapper was ever in the slot.                          *)
(***************************************************************************)
EXTENDS Naturals, FiniteSets

CONSTANTS
  NList,        \* slots of a command list's own table
  NEnd,         \* slots of tables the runtime swaps in for a render pass
  Objects,      \* command lists or queues that register
  MaxEnds,      \* active_end_slots.size()
  MaxObjects    \* identities (8192), kMaximumQueues

(* What the constants are assumed to be; the runs evaluate it.             *)
HookSlotsAssumption == NList \in Nat \ {0} /\ NEnd \in Nat /\ MaxEnds \in Nat /\ MaxObjects \in Nat

ListSlots == 1..NList
EndSlots  == NList + 1 .. NList + NEnd
Slots     == ListSlots \union EndSlots
Pages     == {"list", "pass"}
Page(s)   == IF s \in ListSlots THEN "list" ELSE "pass"

VARIABLES
  kind, value, below, page,
  forwards, installed, owed, reached,
  configured, removed, enabled,
  known,           \* active_end_slots in use
  ids, on,         \* registered objects; the queues that deliver callbacks
  copied,          \* installed_copy_on_write
  late,            \* a disable_capture still to come, after the control lock
  op               \* the operation that holds the control lock

slots == <<value, below, page, forwards, installed, owed, reached>>
flags == <<configured, removed, enabled, known, ids, on, copied, late>>
vars  == <<kind, slots, flags, op>>

Tables == {"boundary", "pfd"}
Single == {"queue", "engine"}
Idle   == [what |-> "none", todo |-> {}, slot |-> 0, object |-> 0, ok |-> TRUE]
Free   == op.what = "none"
Owes   == {s \in Slots : owed[s] # "none"}
-----------------------------------------------------------------------------
(* repair, restore_pending_protection: a copied page stays executable and  *)
(* writable whatever is asked for.                                         *)
Restored(pg, s) == [pg EXCEPT ![Page(s)] = IF @ = "owned" THEN @ ELSE owed[s]]

Repair ==
  /\ owed' = [s \in Slots |-> "none"]
  /\ page' = IF Owes = {} THEN page ELSE Restored(page, CHOOSE s \in Owes : TRUE)

(* Which pages an installer agrees to write to: plain data, and for the    *)
(* engine's slot the copy-on-write image of a section that the image's own *)
(* headers declare read-only.                                              *)
data_slot(s) == page[Page(s)] \in {"ro", "rw"}

slot_memory(s) ==
  \/ data_slot(s)
  \/ kind = "engine" /\ page[Page(s)] = "cow"
  \/ kind = "engine" /\ page[Page(s)] = "owned" /\ copied

(* The first half of exchange: the page becomes writable and its           *)
(* protection is owed.  Only a NativeSlot keeps an obligation of its own.  *)
Open(s, what, todo, o) ==
  /\ slot_memory(s)
  /\ page' = [page EXCEPT ![Page(s)] = IF @ \in {"cow", "owned"} THEN @ ELSE "rw"]
  /\ owed' = [t \in Slots |-> IF t = s THEN page[Page(s)] ELSE IF kind = "native" THEN owed[t] ELSE "none"]
  /\ op' = [what |-> what, todo |-> todo, slot |-> s, object |-> o, ok |-> op.ok]

(* A refusal: what the caller does once an exchange or a check failed.     *)
Refuse(what) ==
  /\ enabled' = (enabled /\ ~(what = "register" /\ kind \in Tables))
  /\ late' = (late \/ what = "pass")
  /\ op' = IF what = "initialize" THEN [op EXCEPT !.slot = 0, !.ok = FALSE] ELSE Idle

Expected(s)    == IF op.what = "remove" THEN "wrapper" ELSE forwards[s]
Replacement(s) == IF op.what = "remove" THEN forwards[s] ELSE "wrapper"

(* The second half: the swap, what is remembered of it, and the            *)
(* restoration, which may fail.                                            *)
Exchanged_SlipPlainStore(s) ==
  /\ value' = [value EXCEPT ![s] = Replacement(s)]
  /\ installed' = [installed EXCEPT ![s] = op.what # "remove" \/ kind \in Single]
  /\ reached' = [reached EXCEPT ![s] = @ \/ op.what # "remove"]
  /\ copied' = IF op.what = "remove" THEN copied ELSE page[Page(s)] = "cow"

Exchanged(s) ==
  IF value[s] # Expected(s) THEN UNCHANGED <<value, installed, reached, copied>>
  ELSE /\ value' = [value EXCEPT ![s] = Replacement(s)]
       /\ installed' = [installed EXCEPT ![s] = op.what # "remove" \/ kind \in Single]
       /\ reached' = [reached EXCEPT ![s] = @ \/ op.what # "remove"]
       /\ copied' = IF op.what = "remove" THEN copied ELSE page[Page(s)] = "cow"

WrittenPage(s) ==
  [page EXCEPT ![Page(s)] = IF value[s] = Expected(s) /\ @ = "cow" THEN "owned" ELSE @]

Swap ==
  LET s == op.slot
      swapped == value[s] = Expected(s)
  IN /\ s # 0
     /\ Exchanged(s)
     /\ removed' = (removed \/ (swapped /\ op.what = "remove"))
     /\ \/ /\ page' = Restored(WrittenPage(s), s)
           /\ owed' = [owed EXCEPT ![s] = "none"]
           /\ IF swapped THEN /\ op' = [op EXCEPT !.slot = 0, !.todo = @ \ {s}]
                              /\ UNCHANGED <<enabled, late>>
                         ELSE Refuse(op.what)
        \/ /\ page' = WrittenPage(s) /\ UNCHANGED owed
           /\ Refuse(op.what)
     /\ UNCHANGED <<kind, below, forwards, configured, known, ids, on>>
-----------------------------------------------------------------------------
(* register_list of the two table observers.  The forward addresses are    *)
(* taken and published once, for the whole table.                          *)
Registration_SlipNoRepair(o) ==
  /\ Free /\ ~removed
  /\ forwards' = IF configured THEN forwards
                ELSE [s \in Slots |-> IF s \in ListSlots THEN value[s] ELSE forwards[s]]
  /\ configured' = TRUE
  /\ op' = [Idle EXCEPT !.what = "register", !.todo = ListSlots \union known, !.object = o]
  /\ UNCHANGED <<kind, value, below, page, owed, installed, reached, removed, enabled, known, ids, on, copied, late>>

Registration(o) ==
  /\ Free /\ ~removed
  /\ Repair
  /\ forwards' = IF configured THEN forwards
                ELSE [s \in Slots |-> IF s \in ListSlots THEN value[s] ELSE forwards[s]]
  /\ configured' = TRUE
  /\ op' = [Idle EXCEPT !.what = "register", !.todo = ListSlots \union known, !.object = o]
  /\ UNCHANGED <<kind, value, below, installed, reached, removed, enabled, known, ids, on, copied, late>>

register_list(o)     == kind = "boundary" /\ Registration(o)
pfd_register_list(o) == kind = "pfd" /\ Registration(o)

(* Its loop over the slots: leave an installed one, exchange one that is   *)
(* not, refuse whatever holds neither address.                             *)
register_slot(s) ==
  /\ op.what = "register" /\ op.slot = 0 /\ s \in op.todo
  /\ op.todo \intersect ListSlots # {} => s \in ListSlots
  /\ \/ /\ ~(installed[s] /\ value[s] = "wrapper")
        /\ Refuse("register") /\ UNCHANGED <<page, owed>>
     \/ /\ installed[s] /\ value[s] = "wrapper"
        /\ op' = [op EXCEPT !.todo = @ \ {s}]
        /\ UNCHANGED <<page, owed, enabled, late>>
     \/ /\ ~installed[s] /\ value[s] = forwards[s]
        /\ Open(s, "register", op.todo, op.object)
        /\ UNCHANGED <<enabled, late>>
  /\ UNCHANGED <<kind, value, below, forwards, installed, reached, configured, removed, known, ids, on, copied>>

register_done ==
  /\ op.what = "register" /\ op.todo = {}
  /\ op' = Idle
  /\ IF op.object \in ids \/ Cardinality(ids) < MaxObjects
     THEN ids' = ids \union {op.object} /\ enabled' = TRUE
     ELSE UNCHANGED <<ids, enabled>>                           \* identity_limit
  /\ UNCHANGED <<kind, slots, configured, removed, known, on, copied, late>>

unregister_list(o) ==
  /\ kind \in Tables /\ o \in ids
  /\ ids' = ids \ {o}
  /\ UNCHANGED <<kind, slots, configured, removed, enabled, known, on, copied, late, op>>

(* install_active_end, from the begin wrapper of a registered list: the    *)
(* runtime left the list's own table, or put table t in its place.         *)
install_active_end(t) ==
  /\ kind = "boundary" /\ Free /\ configured /\ ids # {}
  /\ \/ /\ removed \/ ~enabled \/ Owes # {}       \* or the repair failed
        /\ late' = TRUE /\ UNCHANGED <<page, owed, forwards, known, op>>
     \/ /\ ~removed /\ enabled /\ Repair
        /\ \/ /\ t = 1 \/ (t \in known /\ (installed[t] \/ value[t] # forwards[t]))
              /\ late' = (late \/ value[t] # "wrapper")
              /\ UNCHANGED <<forwards, known, op>>
           \/ /\ t \in EndSlots \ known /\ Cardinality(known) = MaxEnds
              /\ late' = TRUE /\ UNCHANGED <<forwards, known, op>>
           \/ /\ \/ t \in known /\ ~installed[t] /\ value[t] = forwards[t]
                 \/ t \in EndSlots \ known /\ Cardinality(known) < MaxEnds
              /\ forwards' = [forwards EXCEPT ![t] = value[t]]
              /\ known' = known \union {t}
              /\ op' = [Idle EXCEPT !.what = "pass", !.todo = {t}]
              /\ UNCHANGED late
  /\ UNCHANGED <<kind, value, below, installed, reached, configured, removed, enabled, ids, on, copied>>

install_active_slot ==
  /\ op.what = "pass" /\ op.slot = 0
  /\ IF op.todo = {} THEN op' = Idle /\ UNCHANGED <<page, owed, enabled, late>>
     ELSE LET t == CHOOSE s \in op.todo : TRUE
          IN \/ Open(t, "pass", op.todo, 0) /\ UNCHANGED <<enabled, late>>
             \/ Refuse("pass") /\ UNCHANGED <<page, owed>>
  /\ UNCHANGED <<kind, value, below, forwards, installed, reached, configured, removed, known, ids, on, copied>>

disable_capture ==
  /\ late
  /\ late' = FALSE /\ enabled' = FALSE
  /\ UNCHANGED <<kind, slots, configured, removed, known, ids, on, copied, op>>
-----------------------------------------------------------------------------
(* register_queue: the queue is retained before the slot is touched, and   *)
(* delivers callbacks only once the wrapper is in place.                   *)
register_queue(o) ==
  /\ kind = "queue" /\ Free /\ ~removed
  /\ o \in ids \/ Cardinality(ids) < MaxObjects
  /\ IF installed[1]
     THEN /\ value[1] = "wrapper" /\ Repair
          /\ ids' = ids \union {o} /\ on' = on \union {o}
          /\ UNCHANGED <<forwards, configured, op>>
     ELSE /\ configured => value[1] = forwards[1]
          /\ Repair
          /\ forwards' = [forwards EXCEPT ![1] = value[1]]
          /\ configured' = TRUE
          /\ ids' = ids \union {o}
          /\ op' = [Idle EXCEPT !.what = "queue", !.todo = {1}, !.object = o]
          /\ UNCHANGED on
  /\ UNCHANGED <<kind, value, below, installed, reached, removed, enabled, known, copied, late>>

register_queue_slot ==
  /\ op.what = "queue" /\ op.slot = 0
  /\ IF op.todo = {} THEN /\ on' = on \union {op.object} /\ op' = Idle
                          /\ UNCHANGED <<page, owed>>
     ELSE /\ UNCHANGED on
          /\ \/ Open(1, "queue", op.todo, op.object)
             \/ op' = Idle /\ UNCHANGED <<page, owed>>
  /\ UNCHANGED <<kind, value, below, forwards, installed, reached, configured, removed, enabled, known, ids, copied, late>>

disable_queue(o) ==
  /\ kind = "queue" /\ Free /\ o \in on
  /\ on' = on \ {o}
  /\ UNCHANGED <<kind, slots, configured, removed, enabled, known, ids, copied, late, op>>
-----------------------------------------------------------------------------
(* The scene start of camera/probe: install the manager's slot once, and   *)
(* refuse native requests while its page is not restored.                  *)
start_observer ==
  /\ kind = "engine" /\ Free /\ ~enabled /\ ~removed
  /\ Repair
  /\ IF installed[1]
     THEN enabled' = TRUE /\ UNCHANGED <<forwards, op>>
     ELSE /\ value[1] = "native"
          /\ forwards' = [forwards EXCEPT ![1] = "native"]
          /\ op' = [Idle EXCEPT !.what = "engine", !.todo = {1}]
          /\ UNCHANGED enabled
  /\ UNCHANGED <<kind, value, below, installed, reached, configured, removed, known, ids, on, copied, late>>

start_observer_slot ==
  /\ op.what = "engine" /\ op.slot = 0
  /\ IF op.todo = {} THEN enabled' = TRUE /\ op' = Idle /\ UNCHANGED <<page, owed>>
     ELSE /\ UNCHANGED enabled
          /\ \/ Open(1, "engine", op.todo, 0)
             \/ op' = Idle /\ UNCHANGED <<page, owed>>
  /\ UNCHANGED <<kind, value, below, forwards, installed, reached, configured, removed, known, ids, on, copied, late>>

(* remove of the four removable installers.  The table observers and the   *)
(* queue observer stop delivering first, whatever becomes of the slots.    *)
Removal ==
  /\ Free
  /\ kind \in Single => installed[1] /\ ~removed
  /\ removed' = (removed \/ kind \in Tables)
  /\ enabled' = FALSE /\ on' = {}
  /\ \/ Repair /\ op' = [Idle EXCEPT !.what = "remove", !.todo = {s \in Slots : installed[s]}]
     \/ Owes # {} /\ UNCHANGED <<page, owed, op>>              \* the repair failed
  /\ UNCHANGED <<kind, value, below, forwards, installed, reached, configured, known, ids, copied, late>>

remove_boundary == kind = "boundary" /\ Removal
remove_pfd      == kind = "pfd" /\ Removal
remove_queue    == kind = "queue" /\ Removal
remove_engine   == kind = "engine" /\ Removal

remove_slot ==
  /\ op.what = "remove" /\ op.slot = 0
  /\ IF op.todo = {}
     THEN /\ op' = Idle /\ ids' = IF kind \in Tables THEN {} ELSE ids
          /\ UNCHANGED <<page, owed>>
     ELSE /\ UNCHANGED ids
          /\ \E s \in op.todo : \/ Open(s, "remove", op.todo, 0)
                                \/ op' = Idle /\ UNCHANGED <<page, owed>>
  /\ UNCHANGED <<kind, value, below, forwards, installed, reached, configured, removed, enabled, known, on, copied, late>>

(* repair_protection, restore_protection: nothing but the repair.          *)
restore_protection ==
  /\ kind # "native" /\ Free /\ Owes # {}
  /\ Repair
  /\ UNCHANGED <<kind, value, below, forwards, installed, reached, flags, op>>
-----------------------------------------------------------------------------
(* initialize_graphics: hook_state over the list's own table and over the  *)
(* table of an open pass, once.  A failed slot does not stop the others.   *)
hook_state(active) == IF active THEN EndSlots ELSE ListSlots

initialize_graphics ==
  /\ kind = "native" /\ Free /\ ~configured
  /\ configured' = TRUE
  /\ op' = [Idle EXCEPT !.what = "initialize", !.todo = hook_state(FALSE) \union hook_state(TRUE)]
  /\ UNCHANGED <<kind, slots, removed, enabled, known, ids, on, copied, late>>

(* NativeSlot::install, and StateHook::install's test that a pass table    *)
(* forwards where the list's own table does.                               *)
Base(s) == ((s - 1) % NList) + 1

install_native(s) ==
  /\ op.what = "initialize" /\ op.slot = 0 /\ s \in op.todo
  /\ op.todo \intersect ListSlots # {} => s \in ListSlots
  /\ IF s \in EndSlots /\ (~installed[Base(s)] \/ value[s] # forwards[Base(s)])
     THEN op' = [op EXCEPT !.todo = @ \ {s}, !.ok = FALSE] /\ UNCHANGED <<forwards, page, owed>>
     ELSE /\ forwards' = [forwards EXCEPT ![s] = value[s]]
          /\ \/ Open(s, "initialize", op.todo \ {s}, 0)
             \/ op' = [op EXCEPT !.todo = @ \ {s}, !.ok = FALSE] /\ UNCHANGED <<page, owed>>
  /\ UNCHANGED <<kind, value, below, installed, reached, flags>>

initialize_done ==
  /\ op.what = "initialize" /\ op.slot = 0 /\ op.todo = {}
  /\ enabled' = op.ok
  /\ op' = Idle
  /\ UNCHANGED <<kind, slots, configured, removed, known, ids, on, copied, late>>
-----------------------------------------------------------------------------
(* Other software: it wraps what a slot holds, takes its wrapper off, or   *)
(* puts back what it had found, over a wrapper that came after its own.    *)
Hooked(s) ==
  /\ \/ below[s] = "none" /\ value[s] # "foreign"
     \/ below[s] = "native" /\ value[s] = "native"
  /\ below' = [below EXCEPT ![s] = value[s]]
  /\ value' = [value EXCEPT ![s] = "foreign"]

Unhooked(s) ==
  /\ \/ /\ value[s] = "foreign"
        /\ below' = [below EXCEPT ![s] = IF forwards[s] = "foreign" THEN @ ELSE "none"]
     \/ value[s] = "wrapper" /\ forwards[s] = "foreign" /\ UNCHANGED below
  /\ value' = [value EXCEPT ![s] = below[s]]

foreign(s) ==
  /\ Hooked(s) \/ Unhooked(s)
  /\ UNCHANGED <<kind, page, forwards, installed, owed, reached, flags, op>>
-----------------------------------------------------------------------------
Init ==
  /\ kind \in Tables \union Single \union {"native"}
  /\ value = [s \in Slots |-> "native"]
  /\ below = [s \in Slots |-> "none"]
  /\ page \in {[p \in Pages |-> "ro"]} \union
              {[p \in Pages |-> IF kind = "engine" THEN "cow" ELSE "ro"]}
  /\ forwards = [s \in Slots |-> "none"]
  /\ installed = [s \in Slots |-> FALSE]
  /\ owed = [s \in Slots |-> "none"]
  /\ reached = [s \in Slots |-> FALSE]
  /\ configured = FALSE /\ removed = FALSE /\ enabled = FALSE
  /\ known = {} /\ ids = {} /\ on = {}
  /\ copied = FALSE /\ late = FALSE
  /\ op = Idle

Next ==
  \/ Swap
  \/ \E o \in Objects : \/ register_list(o) \/ pfd_register_list(o) \/ unregister_list(o)
                       \/ register_queue(o) \/ disable_queue(o)
  \/ \E s \in Slots : register_slot(s) \/ install_active_end(s) \/ install_native(s) \/ foreign(s)
  \/ register_done \/ install_active_slot \/ disable_capture \/ register_queue_slot
  \/ start_observer \/ start_observer_slot
  \/ remove_boundary \/ remove_pfd \/ remove_queue \/ remove_engine \/ remove_slot \/ restore_protection
  \/ initialize_graphics \/ initialize_done

Spec == Init /\ [][Next]_vars
-----------------------------------------------------------------------------
TypeOK ==
  /\ kind \in Tables \union Single \union {"native"}
  /\ value \in [Slots -> {"native", "wrapper", "foreign"}]
  /\ below \in [Slots -> {"none", "native", "wrapper"}]
  /\ page \in [Pages -> {"ro", "rw", "cow", "owned"}]
  /\ forwards \in [Slots -> {"none", "native", "foreign"}]
  /\ installed \in [Slots -> BOOLEAN] /\ reached \in [Slots -> BOOLEAN]
  /\ owed \in [Slots -> {"none", "ro", "rw", "cow", "owned"}]
  /\ known \subseteq EndSlots /\ Cardinality(known) <= MaxEnds
  /\ on \subseteq ids /\ ids \subseteq Objects /\ Cardinality(ids) <= MaxObjects
  /\ {configured, removed, enabled, copied, late} \subseteq BOOLEAN

(* Whoever calls through a slot, or through a wrapper whose address it     *)
(* fetched while the wrapper was in the slot, arrives at the native        *)
(* function: a wrapper never forwards to nothing and never, through        *)
(* somebody else's wrapper, to itself.                                     *)
Forwards(s) == forwards[s] = "native" \/ (forwards[s] = "foreign" /\ below[s] = "native")

EveryCallArrives ==
  \A s \in Slots :
    /\ reached[s] => Forwards(s)
    /\ value[s] = "foreign" /\ below[s] = "wrapper" => forwards[s] = "native"

(* A page that is writable is either in the middle of an exchange or owed  *)
(* its original protection: the obligation is never overwritten by the     *)
(* next exchange, which would record "writable" as what to restore.        *)
PagesAreOwed ==
  \A p \in Pages : page[p] = "rw" => \E s \in Slots : Page(s) = p /\ owed[s] = "ro"

(* Delivery is enabled only over a whole table: every slot of the list's   *)
(* own table was exchanged, and, once a failed pass table has been dealt   *)
(* with, no page is left writable behind it.                               *)
EnabledIsWhole ==
  /\ enabled /\ kind # "engine" => \A s \in ListSlots : installed[s]
  /\ enabled /\ Free /\ ~late => Owes = {} /\ \A s \in known : installed[s]
  /\ enabled \/ on # {} => reached[1]

(* What is in a slot can be taken out again: an installer knows of its     *)
(* wrapper even when the restoration failed, and accepts the page that its *)
(* own exchange left behind.                                               *)
UndoIsPossible ==
  kind # "native" /\ Free =>
    /\ \A s \in Slots : value[s] = "wrapper" /\ ~removed => installed[s]
    /\ Owes = {} => \A s \in Slots : installed[s] => slot_memory(s)

HookSafety ==
  TypeOK /\ EveryCallArrives /\ PagesAreOwed /\ EnabledIsWhole /\ UndoIsPossible

(* Other software's wrapper is never thrown out of a slot: the bridge only *)
(* puts its own over it and then forwards to it.  The address a wrapper    *)
(* forwards to never changes once the wrapper was in the slot: a thread    *)
(* may still be on its way through it, even after remove.                  *)
HooksAreConsiderate ==
  [][\A s \in Slots :
       /\ reached[s] => forwards'[s] = forwards[s]
       /\ op' # op /\ value'[s] # value[s] =>
            IF value[s] = "wrapper" THEN value'[s] = forwards[s]
                                    ELSE value'[s] = "wrapper" /\ forwards[s] = value[s]
       /\ removed /\ kind \in Tables => ~enabled']_vars
=============================================================================
