----------------------------- MODULE EntryPair ------------------------------
(***************************************************************************)
(* Ownership of the pair of camera entries inside the simulator:           *)
(* camera/entry_pair.                                                      *)
(*                                                                         *)
(* Any thread leaves requests in a last-wins mailbox.  process_update runs *)
(* on the engine's update thread, guarded by an atomic flag, and calls the *)
(* engine (initialize, create, erase) with no mutex held: it is one action *)
(* for its decision, one for each engine call, and one that publishes.     *)
(*                                                                         *)
(* The engine is what the callbacks show of it.  A manager has lifetimes   *)
(* (tokens); entries live inside one.  erase answers TRUE only when the    *)
(* entry is known to be absent; FALSE leaves open whether it went away.    *)
(* The variables licence and confirmed are history.                        *)
(***************************************************************************)
EXTENDS Naturals

CONSTANTS
  Keys,        \* pose keys of a request, independent pose included
  NoKeys,      \* keys before the first request
  MaxToken,    \* bound of the model: manager lifetimes
  MaxId        \* bound of the model: entries the engine ever creates

ASSUME EntryPairAssumption == NoKeys \notin Keys /\ MaxToken \in Nat /\ MaxId \in Nat

VARIABLES
  mailbox, published,                            \* under mailbox_mutex_
  owner, ids, desired_keys, owned_keys,          \* under processing_
  desired_enabled, creation_pending, active_pair, failure,
  pc, rollback, answer,                          \* process_update under way
  manager, last_token, live, last_id,            \* the engine
  licence, confirmed

own    == <<owner, ids, desired_keys, owned_keys, desired_enabled, creation_pending, active_pair, failure>>
step   == <<pc, rollback, answer>>
engine == <<manager, last_token, live, last_id>>
ghost  == <<licence, confirmed>>
vars   == <<mailbox, published, own, step, engine, ghost>>

NoRequest == [command |-> "none", keys |-> NoKeys]
Requests  == {[command |-> "disable", keys |-> NoKeys]} \cup [command : {"enable"}, keys : Keys]
States    == {"disabled", "active", "cleanup_pending", "failed", "blocked"}
Failures  == {"none", "initializer_failed", "initializer_contract", "create_failed",
              "duplicate_id", "manager_destroyed"}
Stages    == {"idle", "erase2", "erase1", "start", "initialize1", "create1", "initialize2",
              "create2", "publish"}
Tokens    == 0..MaxToken          \* zero: no valid manager
Ids       == 0..MaxId             \* zero: no entry
Empty     == [state |-> "disabled", failure |-> "none", owner |-> 0, ids |-> <<0, 0>>,
              creation_pending |-> FALSE]

processing    == pc # "idle"
has_owned_ids == ids # <<0, 0>>
-----------------------------------------------------------------------------
(* The mailbox: request_enable, request_independent_pose, request_disable. *)
request(r) ==
  /\ mailbox' = r
  /\ UNCHANGED <<published, own, step, engine, ghost>>

(* cancel_uncreated_request, which refuses while an update is under way or *)
(* anything is owned.  Definitions named ..._Slip are plausible mistakes   *)
(* in the definition that follows; no action uses them.                    *)
cancel_uncreated_request_SlipTrustsSnapshot ==
  /\ published.ids = <<0, 0>> /\ published.owner = 0
  /\ mailbox' = NoRequest /\ published' = Empty
  /\ desired_enabled' = FALSE /\ creation_pending' = FALSE
  /\ active_pair' = FALSE /\ failure' = "none" /\ licence' = FALSE
  /\ UNCHANGED <<owner, ids, desired_keys, owned_keys, step, engine, confirmed>>

cancel_uncreated_request ==
  /\ ~processing /\ ~has_owned_ids /\ owner = 0
  /\ mailbox' = NoRequest /\ published' = Empty
  /\ desired_enabled' = FALSE /\ creation_pending' = FALSE
  /\ active_pair' = FALSE /\ failure' = "none" /\ licence' = FALSE
  /\ UNCHANGED <<owner, ids, desired_keys, owned_keys, step, engine, confirmed>>
-----------------------------------------------------------------------------
(* process_update takes the request: what is wanted from now on.           *)
Whole == active_pair /\ ids[1] # 0 /\ ids[2] # 0

Wanted_SlipKeepsPair(r) ==
  CASE r.command = "enable"  -> [keys |-> r.keys, enabled |-> TRUE, failure |-> "none",
                                 pending |-> ~(Whole /\ owned_keys = r.keys)]
    [] OTHER                 -> [keys |-> desired_keys, enabled |-> desired_enabled,
                                 failure |-> "none", pending |-> FALSE]

Wanted(r) ==
  CASE r.command = "enable"  -> [keys |-> r.keys, enabled |-> TRUE, failure |-> "none",
                                 pending |-> ~(Whole /\ owned_keys = r.keys)]
    [] r.command = "disable" -> [keys |-> desired_keys, enabled |-> FALSE, failure |-> "none",
                                 pending |-> FALSE]
    [] OTHER                 -> [keys |-> desired_keys, enabled |-> desired_enabled,
                                 failure |-> failure, pending |-> creation_pending]

Settled(why) == IF why = "none" THEN "disabled" ELSE "failed"

(* Where it goes from there: publish a state, clean up, or start.          *)
Route_SlipAnyManager(w, callbacks) ==
  IF ~has_owned_ids /\ ~w.pending  THEN <<"publish", Settled(w.failure)>>
  ELSE IF manager = 0 \/ ~callbacks THEN <<"publish", "blocked">>
  ELSE IF ~has_owned_ids           THEN <<"start", "disabled">>
  ELSE IF w.enabled /\ Whole /\ ~w.pending /\ w.failure = "none" THEN <<"publish", "active">>
  ELSE <<"erase2", "disabled">>

Route(w, callbacks) ==
  IF ~has_owned_ids /\ ~w.pending THEN <<"publish", Settled(w.failure)>>
  ELSE IF manager = 0 \/ (has_owned_ids /\ manager # owner) \/ ~callbacks THEN <<"publish", "blocked">>
  ELSE IF ~has_owned_ids          THEN <<"start", "disabled">>
  ELSE IF w.enabled /\ Whole /\ ~w.pending /\ w.failure = "none" THEN <<"publish", "active">>
  ELSE <<"erase2", "disabled">>

take(callbacks) ==
  LET w == Wanted(mailbox) IN
  /\ ~processing
  /\ mailbox' = NoRequest
  /\ desired_keys' = w.keys /\ desired_enabled' = w.enabled
  /\ creation_pending' = w.pending /\ failure' = w.failure
  /\ pc' = Route(w, callbacks)[1] /\ answer' = Route(w, callbacks)[2]
  /\ active_pair' = (active_pair /\ pc' # "erase2")
  /\ rollback' = FALSE
  /\ licence' = CASE mailbox.command = "enable" -> TRUE
                  [] mailbox.command = "disable" -> FALSE
                  [] OTHER -> licence
  /\ UNCHANGED <<published, owner, ids, owned_keys, engine, confirmed>>

(* cleanup, the second entry first.  An erase that is not confirmed keeps  *)
(* the ID, although the entry may be gone.                                 *)
Slot == IF pc = "erase2" THEN 2 ELSE 1

Remaining_SlipForgets(sure) == [ids EXCEPT ![Slot] = 0]

Remaining(sure) == IF sure THEN [ids EXCEPT ![Slot] = 0] ELSE ids

erase(sure, gone) ==
  /\ pc \in {"erase2", "erase1"} /\ ids[Slot] # 0
  /\ sure => gone
  /\ live' = IF gone THEN live \ {<<owner, ids[Slot]>>} ELSE live
  /\ ids' = Remaining(sure)
  /\ confirmed' = IF sure THEN confirmed \cup {<<owner, ids[Slot]>>} ELSE confirmed
  /\ owner' = IF pc = "erase1" /\ ids' = <<0, 0>> THEN 0 ELSE owner
  /\ pc' = IF pc = "erase2" THEN "erase1"
           ELSE IF ids' # <<0, 0>> \/ rollback THEN "publish" ELSE "start"
  /\ answer' = IF ids' # <<0, 0>> THEN "cleanup_pending" ELSE Settled(failure)
  /\ UNCHANGED <<mailbox, published, desired_keys, owned_keys, desired_enabled, creation_pending,
                 active_pair, failure, rollback, manager, last_token, last_id, licence>>

(* An empty slot is not erased.  Either way cleanup ends by forgetting the *)
(* manager when nothing is owned any more.                                 *)
skip ==
  /\ pc \in {"erase2", "erase1"} /\ ids[Slot] = 0
  /\ pc' = IF pc = "erase2" THEN "erase1"
           ELSE IF ids # <<0, 0>> \/ rollback THEN "publish" ELSE "start"
  /\ answer' = IF ids # <<0, 0>> THEN "cleanup_pending" ELSE Settled(failure)
  /\ owner' = IF pc = "erase1" /\ ids = <<0, 0>> THEN 0 ELSE owner
  /\ UNCHANGED <<mailbox, published, ids, desired_keys, owned_keys, desired_enabled, creation_pending,
                 active_pair, failure, rollback, engine, ghost>>

(* The creation request is consumed once, before any engine call.          *)
start ==
  /\ pc = "start"
  /\ IF desired_enabled /\ creation_pending
       THEN pc' = "initialize1" /\ creation_pending' = FALSE /\ UNCHANGED answer
       ELSE pc' = "publish" /\ answer' = Settled(failure) /\ UNCHANGED creation_pending
  /\ UNCHANGED <<mailbox, published, owner, ids, desired_keys, owned_keys, desired_enabled,
                 active_pair, failure, rollback, engine, ghost>>
-----------------------------------------------------------------------------
(* creation_failed: roll back what was created.                            *)
Fails(why) ==
  /\ failure' = why /\ licence' = FALSE
  /\ active_pair' = (active_pair /\ ~has_owned_ids)
  /\ pc' = (IF has_owned_ids THEN "erase2" ELSE "publish")
  /\ answer' = "failed" /\ rollback' = TRUE
  /\ UNCHANGED <<mailbox, published, owner, ids, desired_keys, owned_keys, desired_enabled,
                 creation_pending, engine, confirmed>>

(* prepare: the native initializer, and the check of what it left.         *)
prepare(why) ==
  /\ pc \in {"initialize1", "initialize2"}
  /\ IF why = "none"
       THEN /\ pc' = (IF pc = "initialize1" THEN "create1" ELSE "create2")
            /\ UNCHANGED <<mailbox, published, own, rollback, answer, engine, ghost>>
       ELSE Fails(why)

create_fails ==
  /\ pc \in {"create1", "create2"}
  /\ Fails("create_failed")

create_first ==
  /\ pc = "create1" /\ last_id < MaxId
  /\ last_id' = last_id + 1 /\ live' = live \cup {<<manager, last_id'>>}
  /\ owner' = manager /\ ids' = [ids EXCEPT ![1] = last_id']
  /\ pc' = "initialize2"
  /\ UNCHANGED <<mailbox, published, desired_keys, owned_keys, desired_enabled, creation_pending,
                 active_pair, failure, rollback, answer, manager, last_token, ghost>>

create_second ==
  /\ pc = "create2" /\ last_id < MaxId
  /\ last_id' = last_id + 1 /\ live' = live \cup {<<manager, last_id'>>}
  /\ ids' = [ids EXCEPT ![2] = last_id']
  /\ owned_keys' = desired_keys /\ active_pair' = TRUE
  /\ pc' = "publish" /\ answer' = "active" /\ licence' = FALSE
  /\ UNCHANGED <<mailbox, published, owner, desired_keys, desired_enabled, creation_pending,
                 failure, rollback, manager, last_token, confirmed>>

(* The engine answers the second creation with the first entry's ID.       *)
create_duplicate ==
  /\ pc = "create2"
  /\ Fails("duplicate_id")

publish ==
  /\ pc = "publish"
  /\ published' = [state |-> answer, failure |-> failure, owner |-> owner, ids |-> ids,
                   creation_pending |-> creation_pending]
  /\ pc' = "idle"
  /\ UNCHANGED <<mailbox, own, rollback, answer, engine, ghost>>
-----------------------------------------------------------------------------
(* The owner reports that the manager of the pair was destroyed.           *)
acknowledge_manager_destroyed_SlipSilent ==
  /\ ~processing /\ has_owned_ids /\ owner # manager
  /\ ids' = <<0, 0>> /\ owner' = 0
  /\ desired_enabled' = FALSE /\ creation_pending' = FALSE /\ active_pair' = FALSE
  /\ failure' = "manager_destroyed" /\ mailbox' = NoRequest
  /\ licence' = FALSE
  /\ UNCHANGED <<published, desired_keys, owned_keys, step, engine, confirmed>>

acknowledge_manager_destroyed ==
  /\ ~processing /\ has_owned_ids /\ owner # manager
  /\ ids' = <<0, 0>> /\ owner' = 0
  /\ desired_enabled' = FALSE /\ creation_pending' = FALSE /\ active_pair' = FALSE
  /\ failure' = "manager_destroyed" /\ mailbox' = NoRequest
  /\ published' = [Empty EXCEPT !.state = "failed", !.failure = "manager_destroyed"]
  /\ licence' = FALSE
  /\ UNCHANGED <<desired_keys, owned_keys, step, engine, confirmed>>

(* The engine between updates: its manager comes and goes, and an entry    *)
(* may disappear by itself.                                                *)
destroy_manager ==
  /\ ~processing /\ manager # 0
  /\ manager' = 0 /\ live' = {}
  /\ UNCHANGED <<mailbox, published, own, step, last_token, last_id, ghost>>

new_manager ==
  /\ ~processing /\ manager = 0 /\ last_token < MaxToken
  /\ manager' = last_token + 1 /\ last_token' = last_token + 1
  /\ UNCHANGED <<mailbox, published, own, step, live, last_id, ghost>>

vanish(e) ==
  /\ ~processing /\ e \in live
  /\ live' = live \ {e}
  /\ UNCHANGED <<mailbox, published, own, step, manager, last_token, last_id, ghost>>
-----------------------------------------------------------------------------
Init ==
  /\ mailbox = NoRequest /\ published = Empty
  /\ owner = 0 /\ ids = <<0, 0>> /\ desired_keys = NoKeys /\ owned_keys = NoKeys
  /\ desired_enabled = FALSE /\ creation_pending = FALSE /\ active_pair = FALSE /\ failure = "none"
  /\ pc = "idle" /\ rollback = FALSE /\ answer = "disabled"
  /\ manager = 0 /\ last_token = 0 /\ live = {} /\ last_id = 0
  /\ licence = FALSE /\ confirmed = {}

Update ==
  \/ \E callbacks \in BOOLEAN : take(callbacks)
  \/ \E sure, gone \in BOOLEAN : erase(sure, gone)
  \/ skip \/ start
  \/ \E why \in {"none", "initializer_failed", "initializer_contract"} : prepare(why)
  \/ create_fails \/ create_first \/ create_second \/ create_duplicate
  \/ publish

Next ==
  \/ Update
  \/ \E r \in Requests : request(r)
  \/ cancel_uncreated_request
  \/ acknowledge_manager_destroyed
  \/ destroy_manager \/ new_manager
  \/ \E e \in live : vanish(e)

Spec == Init /\ [][Next]_vars

(* The engine keeps calling the update, with its callbacks, and erases     *)
(* in the end what it is asked to.                                         *)
FairSpec ==
  /\ Spec
  /\ SF_vars(take(TRUE)) /\ WF_vars(skip) /\ WF_vars(start) /\ WF_vars(publish)
  /\ WF_vars(\E sure, gone \in BOOLEAN : erase(sure, gone))
  /\ SF_vars(erase(TRUE, TRUE))
  /\ WF_vars(\E why \in {"none", "initializer_failed", "initializer_contract"} : prepare(why))
  /\ WF_vars(create_fails \/ create_first \/ create_second \/ create_duplicate)
-----------------------------------------------------------------------------
(* Every field stays within its domain.                                    *)
TypeOK ==
  /\ mailbox \in Requests \cup {NoRequest}
  /\ published \in [state : States, failure : Failures, owner : Tokens, ids : Ids \X Ids,
                    creation_pending : BOOLEAN]
  /\ owner \in Tokens /\ ids \in Ids \X Ids
  /\ desired_keys \in Keys \cup {NoKeys} /\ owned_keys \in Keys \cup {NoKeys}
  /\ desired_enabled \in BOOLEAN /\ creation_pending \in BOOLEAN /\ active_pair \in BOOLEAN
  /\ failure \in Failures /\ pc \in Stages /\ rollback \in BOOLEAN /\ answer \in States
  /\ manager \in Tokens /\ last_token \in Tokens /\ last_id \in Ids
  /\ live \subseteq (Tokens \X Ids) /\ confirmed \subseteq (Tokens \X Ids)
  /\ licence \in BOOLEAN

(* No camera entry is ever left behind: whatever exists in the engine on   *)
(* our behalf is held by the controller, under the manager that made it.   *)
NothingForgotten ==
  \A e \in live : e[1] = manager /\ e[1] = owner /\ e[2] \in {ids[1], ids[2]}

(* The engine is asked to erase only in the lifetime that created the      *)
(* entry, and never again once the entry is known to be absent.            *)
ErasesItsOwn ==
  pc \in {"erase2", "erase1"} /\ ids[Slot] # 0
    => owner = manager /\ manager # 0 /\ <<owner, ids[Slot]>> \notin confirmed

(* Between updates the published ownership is the real one, and a pair     *)
(* published as active is two different entries.                           *)
PublishedIsOwned ==
  ~processing =>
    /\ published.owner = owner /\ published.ids = ids
    /\ published.state = "active" => active_pair /\ ids[1] # 0 /\ ids[2] # 0 /\ ids[1] # ids[2]

(* Together, with the types: what the pair's controller never gets wrong.  *)
EntryPairSafety == TypeOK /\ NothingForgotten /\ ErasesItsOwn /\ PublishedIsOwned

(* Seen from outside it is CameraOwnership: entries are created only under *)
(* an enable request that was taken and since then neither used, failed,   *)
(* withdrawn nor cancelled (a cancellation that succeeded cannot be        *)
(* overtaken by a creation under way), and forgotten only once gone.       *)
Ownership == INSTANCE CameraOwnership WITH
  Entries <- (1..MaxToken) \X (1..MaxId),
  alive   <- live,
  held    <- {owner} \X ({ids[1], ids[2]} \ {0}),
  allowed <- licence

OwnsAsPromised == Ownership!Spec

(* A request to disable is followed by the end of all ownership, unless a  *)
(* newer request asks otherwise or the pair's manager is not there.        *)
StopDrains ==
  mailbox.command = "disable" ~> ids = <<0, 0>> \/ mailbox.command = "enable" \/ manager # owner
=============================================================================
