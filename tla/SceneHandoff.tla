---------------------------- MODULE SceneHandoff ----------------------------
(***************************************************************************)
(* The identity registry between the native camera observer and the        *)
(* graphics callbacks: graphics/scene_handoff.hpp and scene_handoff.cpp.   *)
(*                                                                         *)
(* Graphics callbacks register devices and resources by opaque address.    *)
(* An inspector opens a ticket, reads the live camera pair out of engine   *)
(* memory and publishes it; GPU callbacks then match addresses against the *)
(* publication and keep the match as a value, asking is_current again      *)
(* before they consume the captured image.  Every method runs under one    *)
(* mutex, so each is one step; the interesting races are between the steps *)
(* of one inspection or one retained match and everybody else's steps.     *)
(*                                                                         *)
(* An address is reused as soon as its object is destroyed.  What keeps a  *)
(* match honest is that every registration draws a fresh generation and    *)
(* that counters stop (advance) instead of wrapping.                       *)
(***************************************************************************)
EXTENDS Naturals, FiniteSets

CONSTANTS
  DeviceKeys,     \* device keys a callback may pass
  Handles,        \* native resource addresses
  Ids,            \* graphics registry ids of resources
  Managers,       \* engine manager identities (identity, generation)
  EntryIds,       \* camera entry ids read from the engine
  Inspectors,     \* threads that open tickets and publish
  Null,           \* the zero of keys, handles, ids, entries and managers
  MaxDevices,     \* maximum_devices
  MaxResources,   \* maximum_resources_per_device
  MaxCounter,     \* numeric_limits<uint64_t>::max()
  MaxScenes,      \* bound of the model: scene epochs drawn
  MaxCaptures     \* bound of the model: tickets opened

ASSUME HandoffAssumption ==
  /\ Null \notin DeviceKeys \cup Handles \cup Ids \cup Managers \cup EntryIds
  /\ MaxDevices \in Nat /\ MaxResources \in Nat
  /\ MaxCounter \in Nat \ {0}
  /\ MaxScenes \in Nat /\ MaxCaptures \in Nat

VARIABLES
  epoch,            \* Device.epoch of each key; 0: no slot holds the key
  resources,        \* Device.resources: id and generation; generation 0: absent
  deviceCounter, resourceCounter, lifecycleEpoch, sceneEpoch, captureSequence,
  exhausted, active,
  owner,            \* owner_bound_, owner_, owned_ids_
  publication,
  candidate,        \* candidate_handles_: rejection hint
  observed,         \* observed_handles_: last inspected pair
  ticket,           \* the ticket each inspector holds
  inspected,        \* the registry when that ticket was opened (history)
  held              \* a match some GPU callback retains

registry == <<epoch, resources>>
counters == <<deviceCounter, resourceCounter, lifecycleEpoch, sceneEpoch,
              captureSequence>>
hints    == <<candidate, observed>>
clients  == <<ticket, inspected, held>>
vars     == <<registry, counters, exhausted, active, owner, publication, hints,
              clients>>

Feeds      == {1, 2}                       \* nose and tail, in entry order
NullPair   == [f \in Feeds |-> Null]
Pairs(S)   == [Feeds -> S \cup {Null}]
Counter    == 0..MaxCounter
NoResource == [id |-> Null, generation |-> 0]
NoIdentity == [device |-> 0, id |-> Null, generation |-> 0]
NoPublication ==
  [valid |-> FALSE, scene |-> 0, sequence |-> 0, device |-> Null,
   manager |-> Null, entries |-> NullPair, handles |-> NullPair,
   resources |-> [f \in Feeds |-> NoIdentity]]
NoOwner  == [bound |-> FALSE, manager |-> Null, entries |-> NullPair]
NoTicket == [scene |-> 0, lifecycle |-> 0, sequence |-> 0]
NoMatch  == [matched |-> FALSE, feed |-> 1, scene |-> 0, sequence |-> 0,
             manager |-> Null, entry |-> Null, resource |-> NoIdentity]

Resource == [id : Ids \cup {Null}, generation : Counter]
Identity == [device : Counter, id : Ids \cup {Null}, generation : Counter]
Ticket   == [scene : Counter, lifecycle : Counter, sequence : Counter]
Match    == [matched : BOOLEAN, feed : Feeds, scene : Counter,
             sequence : Counter, manager : Managers \cup {Null},
             entry : EntryIds \cup {Null}, resource : Identity]
Publication ==
  [valid : BOOLEAN, scene : Counter, sequence : Counter,
   device : DeviceKeys \cup {Null}, manager : Managers \cup {Null},
   entries : Pairs(EntryIds), handles : Pairs(Handles),
   resources : [Feeds -> Identity]]
Registry == [epoch : [DeviceKeys -> Counter],
             resources : [DeviceKeys -> [Handles -> Resource]]]

Live(k, h) == resources[k][h].generation # 0
IdentityOf(k, h) == [device |-> epoch[k], id |-> resources[k][h].id,
                     generation |-> resources[k][h].generation]
-----------------------------------------------------------------------------
(* Definitions named ..._Slip are plausible mistakes in the definition     *)
(* that follows; no action uses them.                                      *)
CanAdvance_SlipWraps(c) == ~exhausted /\ c <= MaxCounter
CanAdvance_SlipRevives(c) == c < MaxCounter

(* advance: a counter that cannot move exhausts the handoff for good.      *)
CanAdvance(c) == ~exhausted /\ c < MaxCounter

DropPublication ==
  /\ publication' = NoPublication
  /\ candidate' = NullPair
  /\ observed' = NullPair

Exhaust ==
  /\ exhausted' = TRUE
  /\ active' = FALSE
  /\ DropPublication

(* lifecycle_event: every registry change closes open tickets by moving    *)
(* the lifecycle epoch; it drops the publication when the change is not    *)
(* about one handle, or is about a handle of the last inspected pair.      *)
Touched_SlipUnrelated(h) == h = Null

Touched(h) == h = Null \/ h \in {observed[f] : f \in Feeds}

LifecycleEvent_SlipOnlyTouched(h) ==
  IF Touched(h) /\ CanAdvance(lifecycleEpoch)
    THEN lifecycleEpoch' = lifecycleEpoch + 1 /\ DropPublication /\ UNCHANGED <<exhausted, active>>
    ELSE UNCHANGED <<lifecycleEpoch, publication, hints, exhausted, active>>

LifecycleEvent(h) ==
  IF CanAdvance(lifecycleEpoch)
    THEN /\ lifecycleEpoch' = lifecycleEpoch + 1
         /\ IF Touched(h) THEN DropPublication
                          ELSE UNCHANGED <<publication, hints>>
         /\ UNCHANGED <<exhausted, active>>
    ELSE Exhaust /\ UNCHANGED lifecycleEpoch

(* Device and resource counters move only after the lifecycle epoch has,   *)
(* and start below it, so theirs never is the advance that fails           *)
(* (CountersTrailLifecycle).                                               *)
HasSlot(k) == epoch[k] # 0 \/ Cardinality({d \in DeviceKeys : epoch[d] # 0}) < MaxDevices

register_device(k) ==
  /\ LifecycleEvent(Null)
  /\ IF CanAdvance(lifecycleEpoch) /\ k # Null /\ HasSlot(k)
       THEN /\ deviceCounter' = deviceCounter + 1
            /\ epoch' = [epoch EXCEPT ![k] = deviceCounter + 1]
            /\ resources' = [resources EXCEPT ![k] = [h \in Handles |-> NoResource]]
       ELSE UNCHANGED <<registry, deviceCounter>>
  /\ UNCHANGED <<resourceCounter, sceneEpoch, captureSequence, owner, clients>>

unregister_device(k) ==
  /\ LifecycleEvent(Null)
  /\ IF k # Null
       THEN /\ epoch' = [epoch EXCEPT ![k] = 0]
            /\ resources' = [resources EXCEPT ![k] = [h \in Handles |-> NoResource]]
       ELSE UNCHANGED registry
  /\ UNCHANGED <<deviceCounter, resourceCounter, sceneEpoch, captureSequence,
                 owner, clients>>

HasRoom(k, h) ==
  Live(k, h) \/ Cardinality({g \in Handles : Live(k, g)}) < MaxResources

(* insert_or_assign may throw: the previous incarnation is erased then,    *)
(* with the generation already drawn.                                      *)
register_resource(k, h, id, allocated) ==
  /\ LifecycleEvent(h)
  /\ LET known == CanAdvance(lifecycleEpoch) /\ k # Null /\ h # Null /\ epoch[k] # 0
         drawn == known /\ id # Null /\ HasRoom(k, h)
     IN /\ resourceCounter' = resourceCounter + (IF drawn THEN 1 ELSE 0)
        /\ resources' =
             IF drawn /\ allocated
               THEN [resources EXCEPT ![k][h] = [id |-> id, generation |-> resourceCounter + 1]]
             ELSE IF drawn \/ (known /\ id = Null)
               THEN [resources EXCEPT ![k][h] = NoResource]
             ELSE resources
  /\ UNCHANGED <<epoch, deviceCounter, sceneEpoch, captureSequence, owner, clients>>

unregister_resource_SlipRecycles(k, h) ==
  LET held_back == IF k # Null /\ h # Null THEN Live(k, h) ELSE FALSE
  IN /\ LifecycleEvent(h)
     /\ resources' = IF held_back THEN [resources EXCEPT ![k][h] = NoResource] ELSE resources
     /\ resourceCounter' = resourceCounter - (IF held_back THEN 1 ELSE 0)
     /\ UNCHANGED <<epoch, deviceCounter, sceneEpoch, captureSequence, owner, clients>>

unregister_resource(k, h) ==
  /\ LifecycleEvent(h)
  /\ resources' = IF k # Null /\ h # Null
                    THEN [resources EXCEPT ![k][h] = NoResource] ELSE resources
  /\ UNCHANGED <<epoch, deviceCounter, resourceCounter, sceneEpoch,
                 captureSequence, owner, clients>>
-----------------------------------------------------------------------------
begin_scene ==
  /\ DropPublication
  /\ owner' = NoOwner
  /\ IF CanAdvance(sceneEpoch)
       THEN sceneEpoch' = sceneEpoch + 1 /\ active' = TRUE /\ UNCHANGED exhausted
       ELSE active' = FALSE /\ exhausted' = TRUE /\ UNCHANGED sceneEpoch
  /\ UNCHANGED <<registry, deviceCounter, resourceCounter, lifecycleEpoch,
                 captureSequence, clients>>

(* stop_scene leaves owner_ and owned_ids_ in place, unbound.              *)
stop_scene ==
  /\ DropPublication
  /\ active' = FALSE
  /\ owner' = [owner EXCEPT !.bound = FALSE]
  /\ IF CanAdvance(sceneEpoch)
       THEN sceneEpoch' = sceneEpoch + 1 /\ UNCHANGED exhausted
       ELSE exhausted' = TRUE /\ UNCHANGED sceneEpoch
  /\ UNCHANGED <<registry, deviceCounter, resourceCounter, lifecycleEpoch,
                 captureSequence, clients>>

begin_capture(t) ==
  /\ IF ~active
       THEN /\ ticket' = [ticket EXCEPT ![t] = NoTicket]
            /\ UNCHANGED <<captureSequence, inspected, exhausted, active,
                           publication, hints>>
     ELSE IF CanAdvance(captureSequence)
       THEN /\ captureSequence' = captureSequence + 1
            /\ ticket' = [ticket EXCEPT ![t] =
                 [scene |-> sceneEpoch, lifecycle |-> lifecycleEpoch,
                  sequence |-> captureSequence + 1]]
            /\ inspected' = [inspected EXCEPT ![t] =
                 [epoch |-> epoch, resources |-> resources]]
            /\ UNCHANGED <<exhausted, active, publication, hints>>
       ELSE /\ Exhaust
            /\ ticket' = [ticket EXCEPT ![t] = NoTicket]
            /\ UNCHANGED <<captureSequence, inspected>>
  /\ UNCHANGED <<registry, deviceCounter, resourceCounter, lifecycleEpoch,
                 sceneEpoch, owner, held>>

TicketAdmitted_SlipLifecycle(k) ==
  /\ active /\ ~exhausted /\ k.scene = sceneEpoch
  /\ k.sequence # 0 /\ k.sequence = captureSequence
  /\ ~(publication.valid /\ publication.sequence = k.sequence)

TicketAdmitted_SlipSequence(k) ==
  /\ active /\ ~exhausted /\ k.scene = sceneEpoch
  /\ k.lifecycle = lifecycleEpoch /\ k.sequence # 0
  /\ ~(publication.valid /\ publication.sequence = k.sequence)

(* publish, line by line: the ticket gate, the shape of the pair, the      *)
(* owner gate, the lookup of both handles, the publication.                *)
TicketAdmitted(k) ==
  /\ active /\ ~exhausted
  /\ k.scene = sceneEpoch
  /\ k.lifecycle = lifecycleEpoch
  /\ k.sequence # 0 /\ k.sequence = captureSequence
  /\ ~(publication.valid /\ publication.sequence = k.sequence)

WellFormed(m, ids, hs) ==
  /\ m # Null
  /\ \A f \in Feeds : ids[f] # Null /\ hs[f] # Null
  /\ ids[1] # ids[2] /\ hs[1] # hs[2]

OwnerChanged_SlipBoth(m, ids) ==
  owner.bound /\ owner.manager # m /\ owner.entries # ids

OwnerChanged(m, ids) == owner.bound /\ (owner.manager # m \/ owner.entries # ids)

(* The address names one live resource over all devices, and both feeds    *)
(* are on device k.                                                        *)
ResolvedOn(k, hs) ==
  \A f \in Feeds : {d \in DeviceKeys : Live(d, hs[f])} = {k}

RefuseLatest_SlipHintOnly ==
  /\ candidate' = NullPair
  /\ UNCHANGED <<publication, observed>>

RefuseLatest ==
  /\ publication' = NoPublication
  /\ candidate' = NullPair
  /\ UNCHANGED observed

publish(t, m, ids, hs) ==
  /\ TicketAdmitted(ticket[t])
  /\ \/ /\ ~WellFormed(m, ids, hs)
        /\ RefuseLatest
        /\ UNCHANGED <<exhausted, active, owner, sceneEpoch>>
     \/ /\ WellFormed(m, ids, hs) /\ OwnerChanged(m, ids)
        /\ DropPublication
        /\ active' = FALSE
        /\ IF CanAdvance(sceneEpoch)
             THEN sceneEpoch' = sceneEpoch + 1 /\ UNCHANGED exhausted
             ELSE exhausted' = TRUE /\ UNCHANGED sceneEpoch
        /\ UNCHANGED owner
     \/ /\ WellFormed(m, ids, hs) /\ ~OwnerChanged(m, ids)
        /\ ~\E k \in DeviceKeys : ResolvedOn(k, hs)
        /\ RefuseLatest
        /\ UNCHANGED <<exhausted, active, owner, sceneEpoch>>
     \/ /\ WellFormed(m, ids, hs) /\ ~OwnerChanged(m, ids)
        /\ \E k \in DeviceKeys :
             /\ ResolvedOn(k, hs)
             /\ publication' =
                  [valid |-> TRUE, scene |-> sceneEpoch,
                   sequence |-> ticket[t].sequence, device |-> k, manager |-> m,
                   entries |-> ids, handles |-> hs,
                   resources |-> [f \in Feeds |-> IdentityOf(k, hs[f])]]
        /\ owner' = [bound |-> TRUE, manager |-> m, entries |-> ids]
        /\ candidate' = hs
        /\ observed' = hs
        /\ UNCHANGED <<exhausted, active, sceneEpoch>>
  /\ UNCHANGED <<registry, deviceCounter, resourceCounter, lifecycleEpoch,
                 captureSequence, clients>>
-----------------------------------------------------------------------------
(* match, observe_copy and is_current.                                     *)
Matches(k, h, f) ==
  /\ active /\ ~exhausted
  /\ publication.valid /\ publication.scene = sceneEpoch
  /\ publication.device = k
  /\ h # Null /\ epoch[k] # 0 /\ Live(k, h)
  /\ publication.handles[f] = h
  /\ publication.resources[f] = IdentityOf(k, h)

MatchOf(k, h, f) ==
  [matched |-> TRUE, feed |-> f, scene |-> sceneEpoch,
   sequence |-> publication.sequence, manager |-> publication.manager,
   entry |-> publication.entries[f], resource |-> IdentityOf(k, h)]

(* The hint is read without the lock.  While a publication stands the hint *)
(* equals its handles (HintsCoverPublication), so at the locked match the  *)
(* early return is exactly this guard.                                     *)
observe_copy(k, h) ==
  /\ h \in {candidate[f] : f \in Feeds}
  /\ \E f \in Feeds : Matches(k, h, f) /\ held' = MatchOf(k, h, f)
  /\ UNCHANGED <<registry, counters, exhausted, active, owner, publication,
                 hints, ticket, inspected>>

is_current_SlipResource(v) ==
  /\ v.matched /\ publication.valid
  /\ v.scene = sceneEpoch
  /\ v.manager = publication.manager
  /\ v.entry = publication.entries[v.feed]

is_current(v) ==
  /\ v.matched /\ publication.valid
  /\ publication.handles[v.feed] # Null
  /\ Matches(publication.device, publication.handles[v.feed], v.feed)
  /\ v.scene = sceneEpoch
  /\ v.manager = publication.manager
  /\ v.entry = publication.entries[v.feed]
  /\ v.resource = IdentityOf(publication.device, publication.handles[v.feed])
  /\ v.sequence # 0 /\ v.sequence <= publication.sequence
-----------------------------------------------------------------------------
Init ==
  /\ epoch = [k \in DeviceKeys |-> 0]
  /\ resources = [k \in DeviceKeys |-> [h \in Handles |-> NoResource]]
  /\ deviceCounter = 0 /\ resourceCounter = 0 /\ lifecycleEpoch = 1
  /\ sceneEpoch = 0 /\ captureSequence = 0
  /\ exhausted = FALSE /\ active = FALSE
  /\ owner = NoOwner
  /\ publication = NoPublication
  /\ candidate = NullPair /\ observed = NullPair
  /\ ticket = [t \in Inspectors |-> NoTicket]
  /\ inspected = [t \in Inspectors |-> [epoch |-> epoch, resources |-> resources]]
  /\ held = NoMatch

(* A bound above MaxCounter bounds nothing.                                *)
Next ==
  \/ \E k \in DeviceKeys \cup {Null} : register_device(k) \/ unregister_device(k)
  \/ \E k \in DeviceKeys \cup {Null}, h \in Handles \cup {Null},
        id \in Ids \cup {Null}, allocated \in BOOLEAN :
       register_resource(k, h, id, allocated)
  \/ \E k \in DeviceKeys \cup {Null}, h \in Handles \cup {Null} :
       unregister_resource(k, h)
  \/ sceneEpoch < MaxScenes /\ (begin_scene \/ stop_scene)
  \/ captureSequence < MaxCaptures /\ \E t \in Inspectors : begin_capture(t)
  \/ \E t \in Inspectors, m \in Managers \cup {Null}, ids \in Pairs(EntryIds),
        hs \in Pairs(Handles) : publish(t, m, ids, hs)
  \/ \E k \in DeviceKeys, h \in Handles : observe_copy(k, h)

Spec == Init /\ [][Next]_vars
-----------------------------------------------------------------------------
(* Every variable keeps its type; counters stay within their width.        *)
TypeOK ==
  /\ epoch \in [DeviceKeys -> Counter]
  /\ resources \in [DeviceKeys -> [Handles -> Resource]]
  /\ deviceCounter \in Counter /\ resourceCounter \in Counter
  /\ lifecycleEpoch \in Counter \ {0}
  /\ sceneEpoch \in Counter /\ captureSequence \in Counter
  /\ exhausted \in BOOLEAN /\ active \in BOOLEAN
  /\ owner \in [bound : BOOLEAN, manager : Managers \cup {Null},
                entries : Pairs(EntryIds)]
  /\ publication \in Publication
  /\ candidate \in Pairs(Handles) /\ observed \in Pairs(Handles)
  /\ ticket \in [Inspectors -> Ticket]
  /\ inspected \in [Inspectors -> Registry]
  /\ held \in Match

(* The advance of a device or resource counter cannot be the one that      *)
(* fails: the lifecycle epoch is always ahead of both.                     *)
CountersTrailLifecycle ==
  deviceCounter < lifecycleEpoch /\ resourceCounter < lifecycleEpoch

(* The lock-free hints never hide a standing publication: a callback that  *)
(* rejects an address on the hint alone would also have failed to match,   *)
(* and a lifecycle event on a published handle is seen as touching it.     *)
HintsCoverPublication ==
  publication.valid => candidate = publication.handles /\ observed = publication.handles

(* A standing publication names two distinct resources, on one device,     *)
(* that are registered right now under exactly the published generations:  *)
(* no destroyed, re-registered or reused address stays published.          *)
PublishedPairIsLive ==
  publication.valid =>
    /\ active /\ ~exhausted /\ publication.scene = sceneEpoch
    /\ publication.device \in DeviceKeys
    /\ publication.handles[1] # publication.handles[2]
    /\ \A f \in Feeds :
         /\ publication.handles[f] \in Handles
         /\ Live(publication.device, publication.handles[f])
         /\ publication.resources[f] = IdentityOf(publication.device, publication.handles[f])
    /\ epoch[publication.device] # 0

(* A retained match is dead once its scene has ended or no device holds    *)
(* its resource generation under its device epoch any more.                *)
Dead(v) ==
  \/ v.scene # sceneEpoch
  \/ ~\E k \in DeviceKeys, h \in Handles :
        Live(k, h) /\ IdentityOf(k, h) = v.resource

(* is_current never accepts a dead match.                                  *)
CurrentIsAlive == is_current(held) => ~Dead(held)

(* Addresses are reused, identities are not: a retained match that has     *)
(* died stays dead whatever is registered or published later.              *)
DeadStaysDead ==
  [][held.matched /\ held' = held /\ Dead(held) => Dead(held)']_vars

(* What an inspector publishes was registered, under the same generations, *)
(* when it opened its ticket, so the addresses it read out of engine       *)
(* memory in between could not have been freed and reused.                 *)
PublishedAsInspected ==
  [][publication'.valid /\ publication' # publication =>
       \E t \in Inspectors :
         /\ ticket[t].sequence = publication'.sequence
         /\ \A f \in Feeds :
              LET k == publication'.device
                  h == publication'.handles[f]
              IN  publication'.resources[f] =
                    [device |-> inspected[t].epoch[k],
                     id |-> inspected[t].resources[k][h].id,
                     generation |-> inspected[t].resources[k][h].generation]]_vars

(* Within one scene epoch the owner never changes, refused and reopened    *)
(* inspections in between included: a match retained from this epoch has   *)
(* the manager and the entry of the standing publication.                  *)
OneOwnerPerScene ==
  held.matched /\ publication.valid /\ held.scene = publication.scene =>
    /\ held.manager = publication.manager
    /\ held.entry = publication.entries[held.feed]

(* A late completion never replaces a newer capture: no publication stands *)
(* that is older than a match already taken.                               *)
NewestPublicationWins ==
  held.matched /\ publication.valid => held.sequence <= publication.sequence

(* Exhaustion is final: nothing is active or published afterwards.         *)
ExhaustionIsFinal ==
  [][exhausted => exhausted' /\ ~active' /\ ~publication'.valid /\ ~publication.valid]_vars

(* What the handoff never gets wrong, in one formula: a reader that holds  *)
(* a scene holds a live pair of resources, published by the one owner of   *)
(* the scene, under the newest inspection.                                 *)
HandoffSafety ==
  /\ TypeOK /\ CountersTrailLifecycle /\ HintsCoverPublication /\ PublishedPairIsLive
  /\ CurrentIsAlive /\ OneOwnerPerScene /\ NewestPublicationWins
=============================================================================
