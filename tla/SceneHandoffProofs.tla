------------------------- MODULE SceneHandoffProofs -------------------------
(***************************************************************************)
(* Proofs about SceneHandoff for every set of devices, addresses, managers *)
(* and inspectors, and every width of the counters; and about ViewPool for *)
(* any pool, ledgers, and number of pairs and faults.                      *)
(***************************************************************************)
EXTENDS MCHandoff, Sequences, FiniteSetTheorems, TLAPS

(* The absent values have the types of the fields they stand for.          *)
LEMMA Absent ==
  /\ NoPublication \in Publication /\ ~NoPublication.valid /\ NoPublication.sequence = 0
  /\ NoTicket \in Ticket
  /\ NoMatch \in Match /\ ~NoMatch.matched
  /\ NoResource \in Resource /\ NoResource.generation = 0
  /\ \A S : NullPair \in Pairs(S)
BY HandoffAssumption DEF NoPublication, Publication, NullPair, Pairs, NoIdentity, Identity, Counter,
  Feeds, NoTicket, Ticket, NoMatch, Match, NoResource, Resource

(* lifecycle_event keeps the types of what it writes, moves the epoch by   *)
(* one or exhausts the handoff, and either drops the publication or leaves *)
(* it with its hints, which then do not name the handle.                   *)
LEMMA LifecycleEventEffect ==
  ASSUME TypeOK, NEW h \in Handles \cup {Null}, LifecycleEvent(h)
  PROVE  /\ lifecycleEpoch' \in Counter \ {0}
         /\ lifecycleEpoch <= lifecycleEpoch'
         /\ CanAdvance(lifecycleEpoch) => lifecycleEpoch' = lifecycleEpoch + 1
         /\ ~CanAdvance(lifecycleEpoch) => exhausted'
         /\ exhausted => exhausted'
         /\ exhausted' \in BOOLEAN /\ active' \in BOOLEAN
         /\ active' => active /\ exhausted' = exhausted
         /\ exhausted' /\ ~exhausted => ~active'
         /\ publication' \in Publication /\ publication' \in {publication, NoPublication}
         /\ candidate' \in Pairs(Handles) /\ observed' \in Pairs(Handles)
         /\ \/ ~publication'.valid
            \/ /\ publication' = publication
               /\ candidate' = candidate /\ observed' = observed
               /\ exhausted' = exhausted /\ active' = active
               /\ h # Null /\ \A f \in Feeds : observed[f] # h
<1>0. NoPublication \in Publication /\ NullPair \in Pairs(Handles) /\ ~NoPublication.valid
  BY Absent
<1>1. CASE CanAdvance(lifecycleEpoch)
  <2>1. lifecycleEpoch' = lifecycleEpoch + 1 /\ exhausted' = exhausted /\ active' = active /\ ~exhausted
    BY <1>1 DEF LifecycleEvent, CanAdvance
  <2>2. lifecycleEpoch' \in Counter \ {0} /\ lifecycleEpoch <= lifecycleEpoch'
    BY <2>1, <1>1, HandoffAssumption DEF CanAdvance, TypeOK, Counter
  <2>3. CASE Touched(h)
    <3>1. publication' = NoPublication /\ candidate' = NullPair /\ observed' = NullPair
      BY <1>1, <2>3 DEF LifecycleEvent, DropPublication
    <3> QED BY <1>0, <1>1, <2>1, <2>2, <3>1 DEF TypeOK
  <2>4. CASE ~Touched(h)
    <3>1. publication' = publication /\ candidate' = candidate /\ observed' = observed
      BY <1>1, <2>4 DEF LifecycleEvent, hints
    <3>2. h # Null /\ \A f \in Feeds : observed[f] # h
      BY <2>4 DEF Touched
    <3> QED BY <1>1, <2>1, <2>2, <3>1, <3>2 DEF TypeOK
  <2> QED BY <2>3, <2>4
<1>2. CASE ~CanAdvance(lifecycleEpoch)
  <2>1. /\ lifecycleEpoch' = lifecycleEpoch /\ exhausted' = TRUE /\ active' = FALSE
        /\ publication' = NoPublication /\ candidate' = NullPair /\ observed' = NullPair
    BY <1>2 DEF LifecycleEvent, Exhaust, DropPublication
  <2>2. lifecycleEpoch <= lifecycleEpoch' /\ lifecycleEpoch' \in Counter \ {0}
    BY <2>1, HandoffAssumption DEF TypeOK, Counter
  <2> QED BY <1>0, <1>2, <2>1, <2>2 DEF TypeOK
<1> QED BY <1>1, <1>2
-----------------------------------------------------------------------------
(* The parts of the inductive invariant that no run needs by themselves.   *)

(* Resources live only on registered devices, under drawn generations.     *)
RegistryDrawn ==
  \A k \in DeviceKeys, h \in Handles :
    /\ Live(k, h) => epoch[k] # 0
    /\ resources[k][h].generation <= resourceCounter

(* A retained match was drawn from counters that never move back.          *)
HeldDrawn ==
  held.matched =>
    /\ held.scene <= sceneEpoch
    /\ held.sequence <= captureSequence
    /\ held.resource.generation <= resourceCounter

PublicationDrawn == publication.sequence <= captureSequence

ExhaustedIsIdle == exhausted => ~active

(* The bound owner is the publication's, and that of every match retained  *)
(* from the running scene.                                                 *)
OwnerOfPublication ==
  publication.valid =>
    owner = [bound |-> TRUE, manager |-> publication.manager,
             entries |-> publication.entries]

OwnerOfHeld ==
  active /\ held.matched /\ held.scene = sceneEpoch =>
    /\ owner.bound
    /\ held.manager = owner.manager
    /\ held.entry = owner.entries[held.feed]

IInv ==
  /\ TypeOK /\ CountersTrailLifecycle /\ HintsCoverPublication
  /\ PublishedPairIsLive /\ RegistryDrawn /\ HeldDrawn /\ PublicationDrawn
  /\ ExhaustedIsIdle /\ OwnerOfPublication /\ OwnerOfHeld
  /\ NewestPublicationWins

(* The initial registry is empty and nothing is published.                 *)
LEMMA InitIInv == Init => IInv
<1> SUFFICES ASSUME Init PROVE IInv
  OBVIOUS
<1> USE HandoffAssumption DEF Init
<1>1. TypeOK
  <2>1. epoch \in [DeviceKeys -> Counter] /\ resources \in [DeviceKeys -> [Handles -> Resource]]
    BY Absent DEF Counter
  <2>2. inspected \in [Inspectors -> Registry]
    BY <2>1 DEF Registry
  <2>3. owner \in [bound : BOOLEAN, manager : Managers \cup {Null}, entries : Pairs(EntryIds)]
    BY Absent DEF NoOwner
  <2>4. ticket \in [Inspectors -> Ticket] /\ held \in Match /\ publication \in Publication
    BY Absent
  <2>5. candidate \in Pairs(Handles) /\ observed \in Pairs(Handles)
    BY Absent
  <2>6. /\ deviceCounter \in Counter /\ resourceCounter \in Counter /\ lifecycleEpoch \in Counter \ {0}
        /\ sceneEpoch \in Counter /\ captureSequence \in Counter
    BY DEF Counter
  <2> QED BY <2>1, <2>2, <2>3, <2>4, <2>5, <2>6 DEF TypeOK
<1>2. CountersTrailLifecycle /\ RegistryDrawn
  BY DEF CountersTrailLifecycle, RegistryDrawn, Live, NoResource
<1>3. /\ HintsCoverPublication /\ PublishedPairIsLive /\ PublicationDrawn
      /\ OwnerOfPublication /\ NewestPublicationWins
  BY DEF HintsCoverPublication, PublishedPairIsLive, PublicationDrawn, OwnerOfPublication,
         NewestPublicationWins, NoPublication
<1>4. HeldDrawn /\ ExhaustedIsIdle /\ OwnerOfHeld
  BY DEF HeldDrawn, ExhaustedIsIdle, OwnerOfHeld, NoMatch
<1> QED BY <1>1, <1>2, <1>3, <1>4 DEF IInv

-----------------------------------------------------------------------------
(* What every registry callback leaves true by way of its lifecycle event. *)
LEMMA LifecycleFrame ==
  ASSUME IInv, NEW h \in Handles \cup {Null}, LifecycleEvent(h),
         UNCHANGED <<sceneEpoch, captureSequence, owner, clients>>,
         resourceCounter' \in Counter, resourceCounter <= resourceCounter'
  PROVE  /\ HintsCoverPublication' /\ HeldDrawn' /\ PublicationDrawn'
         /\ ExhaustedIsIdle' /\ OwnerOfPublication' /\ OwnerOfHeld'
         /\ NewestPublicationWins'
<1> USE DEF IInv
<1>0. TypeOK
  OBVIOUS
<1>1. /\ active' => active /\ exhausted' = exhausted
      /\ exhausted' /\ ~exhausted => ~active'
      /\ publication' \in {publication, NoPublication}
      /\ publication'.valid => publication' = publication /\ candidate' = candidate /\ observed' = observed
  BY <1>0, LifecycleEventEffect
<1>2. held' = held /\ sceneEpoch' = sceneEpoch /\ captureSequence' = captureSequence /\ owner' = owner
  BY DEF clients
<1>3. HintsCoverPublication' /\ OwnerOfPublication' /\ NewestPublicationWins'
  BY <1>1, <1>2 DEF HintsCoverPublication, OwnerOfPublication, NewestPublicationWins
<1>4. HeldDrawn'
  BY <1>2 DEF HeldDrawn, TypeOK, Match, Identity, Counter
<1>5. PublicationDrawn'
  BY <1>1, <1>2, Absent DEF PublicationDrawn, TypeOK, Counter
<1>6. ExhaustedIsIdle' /\ OwnerOfHeld'
  BY <1>1, <1>2 DEF ExhaustedIsIdle, OwnerOfHeld
<1> QED BY <1>3, <1>4, <1>5, <1>6

LEMMA RegisterDeviceStep ==
  ASSUME IInv, NEW k \in DeviceKeys \cup {Null}, register_device(k)
  PROVE  IInv'
<1> USE DEF IInv
<1>0. LifecycleEvent(Null) /\ resourceCounter' = resourceCounter /\ UNCHANGED <<sceneEpoch, captureSequence, owner, clients>>
  BY DEF register_device
<1>1. resourceCounter' \in Counter /\ resourceCounter <= resourceCounter'
  BY <1>0 DEF TypeOK, Counter
<1>2. /\ HintsCoverPublication' /\ HeldDrawn' /\ PublicationDrawn'
      /\ ExhaustedIsIdle' /\ OwnerOfPublication' /\ OwnerOfHeld'
      /\ NewestPublicationWins'
  BY <1>0, <1>1, LifecycleFrame
<1>3. ~publication'.valid
  BY <1>0, LifecycleEventEffect
<1>4. PublishedPairIsLive'
  BY <1>3 DEF PublishedPairIsLive
<1>5. /\ lifecycleEpoch' \in Counter \ {0} /\ lifecycleEpoch <= lifecycleEpoch'
      /\ CanAdvance(lifecycleEpoch) => lifecycleEpoch' = lifecycleEpoch + 1
      /\ exhausted' \in BOOLEAN /\ active' \in BOOLEAN /\ publication' \in Publication
      /\ candidate' \in Pairs(Handles) /\ observed' \in Pairs(Handles)
  BY <1>0, LifecycleEventEffect
<1>6. CASE CanAdvance(lifecycleEpoch) /\ k # Null /\ HasSlot(k)
  <2>1. /\ deviceCounter' = deviceCounter + 1 /\ k \in DeviceKeys
        /\ epoch' = [epoch EXCEPT ![k] = deviceCounter + 1]
        /\ resources' = [resources EXCEPT ![k] = [h \in Handles |-> NoResource]]
    BY <1>6 DEF register_device
  <2>2. CountersTrailLifecycle' /\ deviceCounter' \in Counter
    BY <1>0, <1>5, <1>6, <2>1, HandoffAssumption DEF CountersTrailLifecycle, TypeOK, Counter, CanAdvance
  <2>3. epoch' \in [DeviceKeys -> Counter] /\ resources' \in [DeviceKeys -> [Handles -> Resource]]
    BY <2>1, <2>2, Absent DEF TypeOK
  <2>4. TypeOK'
    BY <1>0, <1>1, <1>5, <2>2, <2>3 DEF TypeOK, clients
  <2>5. RegistryDrawn'
    BY <1>0, <2>1, Absent DEF RegistryDrawn, Live, TypeOK, Counter
  <2> QED BY <1>2, <1>4, <2>2, <2>4, <2>5
<1>7. CASE ~(CanAdvance(lifecycleEpoch) /\ k # Null /\ HasSlot(k))
  <2>1. UNCHANGED <<epoch, resources, deviceCounter>>
    BY <1>7 DEF register_device, registry
  <2>2. CountersTrailLifecycle'
    BY <1>0, <1>5, <2>1 DEF CountersTrailLifecycle, TypeOK, Counter
  <2>3. TypeOK'
    BY <1>0, <1>1, <1>5, <2>1 DEF TypeOK, clients
  <2>4. RegistryDrawn'
    BY <1>0, <2>1 DEF RegistryDrawn, Live
  <2> QED BY <1>2, <1>4, <2>2, <2>3, <2>4
<1> QED BY <1>6, <1>7

LEMMA UnregisterDeviceStep ==
  ASSUME IInv, NEW k \in DeviceKeys \cup {Null}, unregister_device(k)
  PROVE  IInv'
<1> USE DEF IInv
<1>0. /\ LifecycleEvent(Null) /\ resourceCounter' = resourceCounter /\ deviceCounter' = deviceCounter
      /\ UNCHANGED <<sceneEpoch, captureSequence, owner, clients>>
  BY DEF unregister_device
<1>1. resourceCounter' \in Counter /\ resourceCounter <= resourceCounter'
  BY <1>0 DEF TypeOK, Counter
<1>2. /\ HintsCoverPublication' /\ HeldDrawn' /\ PublicationDrawn'
      /\ ExhaustedIsIdle' /\ OwnerOfPublication' /\ OwnerOfHeld'
      /\ NewestPublicationWins'
  BY <1>0, <1>1, LifecycleFrame
<1>3. ~publication'.valid
  BY <1>0, LifecycleEventEffect
<1>4. PublishedPairIsLive'
  BY <1>3 DEF PublishedPairIsLive
<1>5. /\ lifecycleEpoch' \in Counter \ {0} /\ lifecycleEpoch <= lifecycleEpoch'
      /\ exhausted' \in BOOLEAN /\ active' \in BOOLEAN /\ publication' \in Publication
      /\ candidate' \in Pairs(Handles) /\ observed' \in Pairs(Handles)
  BY <1>0, LifecycleEventEffect
<1>6. CountersTrailLifecycle'
  BY <1>0, <1>5 DEF CountersTrailLifecycle, TypeOK, Counter
<1>7. epoch' \in [DeviceKeys -> Counter] /\ resources' \in [DeviceKeys -> [Handles -> Resource]]
  BY Absent, HandoffAssumption DEF unregister_device, registry, TypeOK, Counter
<1>8. RegistryDrawn'
  <2>1. \/ k # Null /\ epoch' = [epoch EXCEPT ![k] = 0] /\ resources' = [resources EXCEPT ![k] = [h \in Handles |-> NoResource]]
        \/ UNCHANGED <<epoch, resources>>
    BY DEF unregister_device, registry
  <2>2. CASE UNCHANGED <<epoch, resources>>
    BY <1>0, <2>2 DEF RegistryDrawn, Live
  <2>3. CASE k # Null /\ epoch' = [epoch EXCEPT ![k] = 0] /\ resources' = [resources EXCEPT ![k] = [h \in Handles |-> NoResource]]
    BY <1>0, <2>3, Absent DEF RegistryDrawn, Live, TypeOK, Counter
  <2> QED BY <2>1, <2>2, <2>3
<1>9. TypeOK'
  BY <1>0, <1>1, <1>5, <1>7 DEF TypeOK, clients
<1> QED BY <1>2, <1>4, <1>6, <1>8, <1>9

(* A registry callback on one handle changes no other handle, so it leaves *)
(* a publication it did not drop as live as it was.                        *)
LEMMA OtherHandlesLive ==
  ASSUME IInv, NEW h \in Handles \cup {Null}, LifecycleEvent(h), epoch' = epoch, sceneEpoch' = sceneEpoch,
         \A d \in DeviceKeys, g \in Handles : g # h => resources'[d][g] = resources[d][g]
  PROVE  PublishedPairIsLive'
<1> USE DEF IInv
<1>0. TypeOK
  OBVIOUS
<1>1. CASE ~publication'.valid
  BY <1>1 DEF PublishedPairIsLive
<1>2. CASE publication'.valid
  <2>1. /\ publication' = publication /\ exhausted' = exhausted /\ active' = active
        /\ h # Null /\ \A f \in Feeds : observed[f] # h
    BY <1>0, <1>2, LifecycleEventEffect
  <2>2. \A f \in Feeds : publication.handles[f] # h /\ publication.handles[f] \in Handles
    BY <1>2, <2>1 DEF HintsCoverPublication, PublishedPairIsLive
  <2> QED BY <1>2, <2>1, <2>2 DEF PublishedPairIsLive, Live, IdentityOf
<1> QED BY <1>1, <1>2

LEMMA UnregisterResourceStep ==
  ASSUME IInv, NEW k \in DeviceKeys \cup {Null}, NEW h \in Handles \cup {Null},
         unregister_resource(k, h)
  PROVE  IInv'
<1> USE DEF IInv
<1>0. /\ LifecycleEvent(h) /\ resourceCounter' = resourceCounter /\ deviceCounter' = deviceCounter
      /\ epoch' = epoch /\ UNCHANGED <<sceneEpoch, captureSequence, owner, clients>>
  BY DEF unregister_resource
<1>1. resourceCounter' \in Counter /\ resourceCounter <= resourceCounter'
  BY <1>0 DEF TypeOK, Counter
<1>2. /\ HintsCoverPublication' /\ HeldDrawn' /\ PublicationDrawn'
      /\ ExhaustedIsIdle' /\ OwnerOfPublication' /\ OwnerOfHeld'
      /\ NewestPublicationWins'
  BY <1>0, <1>1, LifecycleFrame
<1>3. /\ resources' \in [DeviceKeys -> [Handles -> Resource]]
      /\ \A d \in DeviceKeys, g \in Handles :
           resources'[d][g] = resources[d][g] \/ (g = h /\ resources'[d][g] = NoResource)
  BY Absent DEF unregister_resource, TypeOK
<1>4. PublishedPairIsLive'
  BY <1>0, <1>3, OtherHandlesLive
<1>5. /\ lifecycleEpoch' \in Counter \ {0} /\ lifecycleEpoch <= lifecycleEpoch'
      /\ exhausted' \in BOOLEAN /\ active' \in BOOLEAN /\ publication' \in Publication
      /\ candidate' \in Pairs(Handles) /\ observed' \in Pairs(Handles)
  BY <1>0, LifecycleEventEffect
<1>6. CountersTrailLifecycle'
  BY <1>0, <1>5 DEF CountersTrailLifecycle, TypeOK, Counter
<1>7. RegistryDrawn'
  BY <1>0, <1>3, Absent DEF RegistryDrawn, Live, TypeOK, Counter
<1>8. TypeOK'
  BY <1>0, <1>1, <1>3, <1>5 DEF TypeOK, clients
<1> QED BY <1>2, <1>4, <1>6, <1>7, <1>8

LEMMA RegisterResourceStep ==
  ASSUME IInv, NEW k \in DeviceKeys \cup {Null}, NEW h \in Handles \cup {Null},
         NEW id \in Ids \cup {Null}, NEW allocated \in BOOLEAN,
         register_resource(k, h, id, allocated)
  PROVE  IInv'
<1> USE DEF IInv
<1> DEFINE known == CanAdvance(lifecycleEpoch) /\ k # Null /\ h # Null /\ epoch[k] # 0
           drawn == known /\ id # Null /\ HasRoom(k, h)
<1>0. /\ LifecycleEvent(h) /\ deviceCounter' = deviceCounter
      /\ epoch' = epoch /\ UNCHANGED <<sceneEpoch, captureSequence, owner, clients>>
  BY DEF register_resource
<1>5. /\ lifecycleEpoch' \in Counter \ {0} /\ lifecycleEpoch <= lifecycleEpoch'
      /\ CanAdvance(lifecycleEpoch) => lifecycleEpoch' = lifecycleEpoch + 1
      /\ exhausted' \in BOOLEAN /\ active' \in BOOLEAN /\ publication' \in Publication
      /\ candidate' \in Pairs(Handles) /\ observed' \in Pairs(Handles)
  BY <1>0, LifecycleEventEffect
<1>1. /\ resourceCounter' = resourceCounter + (IF drawn THEN 1 ELSE 0)
      /\ resources' =
             IF drawn /\ allocated
               THEN [resources EXCEPT ![k][h] = [id |-> id, generation |-> resourceCounter + 1]]
             ELSE IF drawn \/ (known /\ id = Null)
               THEN [resources EXCEPT ![k][h] = NoResource]
             ELSE resources
  BY DEF register_resource
<1>2. /\ resourceCounter' \in Counter /\ resourceCounter <= resourceCounter'
      /\ resourceCounter' < lifecycleEpoch'
  <2>1. CASE drawn
    <3>1. resourceCounter' = resourceCounter + 1 /\ CanAdvance(lifecycleEpoch)
      BY <2>1, <1>1
    <3> HIDE DEF drawn
    <3> QED BY <3>1, <1>5, HandoffAssumption DEF CanAdvance, CountersTrailLifecycle, TypeOK, Counter
  <2>2. CASE ~drawn
    <3>1. resourceCounter' = resourceCounter
      BY <2>2, <1>1 DEF TypeOK, Counter
    <3> HIDE DEF drawn
    <3> QED BY <3>1, <1>5 DEF CountersTrailLifecycle, TypeOK, Counter
  <2> QED BY <2>1, <2>2
<1>3. /\ HintsCoverPublication' /\ HeldDrawn' /\ PublicationDrawn'
      /\ ExhaustedIsIdle' /\ OwnerOfPublication' /\ OwnerOfHeld'
      /\ NewestPublicationWins'
  BY <1>0, <1>2, LifecycleFrame
<1>4. /\ resources' \in [DeviceKeys -> [Handles -> Resource]]
      /\ \A d \in DeviceKeys, g \in Handles :
           \/ resources'[d][g] = resources[d][g]
           \/ g = h /\ resources'[d][g] = NoResource
           \/ g = h /\ epoch[d] # 0 /\ resources'[d][g].generation = resourceCounter'
  <2>1. CASE drawn /\ allocated
    <3>1. k \in DeviceKeys /\ h \in Handles /\ id \in Ids /\ epoch[k] # 0
      BY <2>1
    <3>2. resourceCounter' = resourceCounter + 1
      BY <2>1, <1>1
    <3>3. [id |-> id, generation |-> resourceCounter + 1] \in Resource
      BY <3>1, <3>2, <1>2 DEF Resource
    <3>4. resources' = [resources EXCEPT ![k][h] = [id |-> id, generation |-> resourceCounter + 1]]
      BY <2>1, <1>1
    <3> HIDE DEF drawn, known
    <3> QED BY <3>1, <3>2, <3>3, <3>4 DEF TypeOK
  <2>2. CASE ~(drawn /\ allocated)
    <3>1. \/ resources' = resources
          \/ k \in DeviceKeys /\ h \in Handles /\ resources' = [resources EXCEPT ![k][h] = NoResource]
      BY <2>2, <1>1
    <3> HIDE DEF drawn, known
    <3>2. NoResource \in Resource /\ resources \in [DeviceKeys -> [Handles -> Resource]]
      BY Absent DEF TypeOK
    <3>3. CASE resources' = resources
      BY <3>2, <3>3
    <3>4. CASE k \in DeviceKeys /\ h \in Handles /\ resources' = [resources EXCEPT ![k][h] = NoResource]
      BY <3>2, <3>4
    <3> QED BY <3>1, <3>3, <3>4
  <2> QED BY <2>1, <2>2
<1> HIDE DEF drawn, known
<1>6. PublishedPairIsLive'
  BY <1>0, <1>4, OtherHandlesLive
<1>7. CountersTrailLifecycle'
  BY <1>0, <1>2, <1>5 DEF CountersTrailLifecycle, TypeOK, Counter
<1>8. RegistryDrawn'
  <2> SUFFICES ASSUME NEW d \in DeviceKeys, NEW g \in Handles
               PROVE  /\ resources'[d][g].generation # 0 => epoch[d] # 0
                      /\ resources'[d][g].generation <= resourceCounter'
    BY <1>0 DEF RegistryDrawn, Live
  <2>1. /\ resources[d][g].generation # 0 => epoch[d] # 0
        /\ resources[d][g].generation <= resourceCounter /\ resources[d][g].generation \in Nat
    BY DEF RegistryDrawn, Live, TypeOK, Resource, Counter
  <2>2. resourceCounter \in Nat /\ resourceCounter' \in Nat /\ resourceCounter <= resourceCounter'
    BY <1>2 DEF TypeOK, Counter
  <2>3. CASE resources'[d][g] = resources[d][g]
    BY <2>1, <2>2, <2>3
  <2>4. CASE resources'[d][g] = NoResource
    BY <2>2, <2>4, Absent
  <2>5. CASE epoch[d] # 0 /\ resources'[d][g].generation = resourceCounter'
    BY <2>2, <2>5
  <2> QED BY <1>4, <2>3, <2>4, <2>5
<1>9. TypeOK'
  BY <1>0, <1>2, <1>4, <1>5 DEF TypeOK, clients
<1> QED BY <1>3, <1>6, <1>7, <1>8, <1>9

-----------------------------------------------------------------------------
(* The registry parts depend on the registry alone.                        *)
LEMMA RegistryFrame ==
  ASSUME IInv, UNCHANGED <<registry, deviceCounter, resourceCounter, lifecycleEpoch>>
  PROVE  CountersTrailLifecycle' /\ RegistryDrawn'
BY DEF IInv, CountersTrailLifecycle, RegistryDrawn, Live, registry

(* A step that draws the next scene epoch, or exhausts the handoff, and    *)
(* leaves nothing published.                                               *)
LEMMA SceneMoves ==
  ASSUME IInv, DropPublication,
         UNCHANGED <<registry, deviceCounter, resourceCounter, lifecycleEpoch, captureSequence, clients>>,
         owner' \in [bound : BOOLEAN, manager : Managers \cup {Null}, entries : Pairs(EntryIds)],
         active' \in BOOLEAN,
         \/ CanAdvance(sceneEpoch) /\ sceneEpoch' = sceneEpoch + 1 /\ exhausted' = exhausted
         \/ exhausted' = TRUE /\ active' = FALSE /\ sceneEpoch' = sceneEpoch
  PROVE  IInv'
<1> USE DEF IInv
<1>0. exhausted' \in BOOLEAN
  BY DEF TypeOK
<1>1. sceneEpoch' \in Counter /\ sceneEpoch <= sceneEpoch'
  <2>1. CASE sceneEpoch < MaxCounter /\ sceneEpoch' = sceneEpoch + 1
    BY <2>1, HandoffAssumption DEF TypeOK, Counter
  <2>2. CASE sceneEpoch' = sceneEpoch
    BY <2>2 DEF TypeOK, Counter
  <2> QED BY <2>1, <2>2 DEF CanAdvance
<1>2. publication' = NoPublication /\ candidate' = NullPair /\ observed' = NullPair
  BY DEF DropPublication
<1>3. TypeOK'
  BY <1>0, <1>1, <1>2, Absent DEF TypeOK, registry, clients
<1>4. CountersTrailLifecycle' /\ RegistryDrawn'
  BY RegistryFrame
<1>5. HintsCoverPublication' /\ PublishedPairIsLive' /\ OwnerOfPublication' /\ NewestPublicationWins'
  BY <1>2, Absent DEF HintsCoverPublication, PublishedPairIsLive, OwnerOfPublication, NewestPublicationWins
<1>6. PublicationDrawn'
  BY <1>2, Absent DEF PublicationDrawn, TypeOK, Counter
<1>7. HeldDrawn'
  BY <1>1 DEF HeldDrawn, TypeOK, Match, Counter, clients
<1>8. ExhaustedIsIdle'
  BY DEF ExhaustedIsIdle, CanAdvance
<1>9. OwnerOfHeld'
  BY DEF OwnerOfHeld, HeldDrawn, TypeOK, Match, Counter, clients
<1> QED BY <1>3, <1>4, <1>5, <1>6, <1>7, <1>8, <1>9

LEMMA SceneStep ==
  ASSUME IInv, begin_scene \/ stop_scene
  PROVE  IInv'
<1>0. /\ NoOwner \in [bound : BOOLEAN, manager : Managers \cup {Null}, entries : Pairs(EntryIds)]
      /\ [owner EXCEPT !.bound = FALSE] \in [bound : BOOLEAN, manager : Managers \cup {Null}, entries : Pairs(EntryIds)]
  BY Absent DEF NoOwner, IInv, TypeOK
<1>1. CASE begin_scene
  BY <1>0, <1>1, SceneMoves DEF begin_scene
<1>2. CASE stop_scene
  BY <1>0, <1>2, SceneMoves DEF stop_scene
<1> QED BY <1>1, <1>2

LEMMA BeginCaptureStep ==
  ASSUME IInv, NEW t \in Inspectors, begin_capture(t)
  PROVE  IInv'
<1> USE DEF IInv
<1>0. /\ UNCHANGED <<registry, deviceCounter, resourceCounter, lifecycleEpoch>>
      /\ UNCHANGED <<epoch, resources, sceneEpoch, owner, held>>
  BY DEF begin_capture, registry
<1>1. CountersTrailLifecycle' /\ RegistryDrawn'
  BY <1>0, RegistryFrame
<1>2. /\ captureSequence' \in Counter /\ captureSequence <= captureSequence'
      /\ ticket' \in [Inspectors -> Ticket] /\ inspected' \in [Inspectors -> Registry]
  <2>1. CASE ~active
    BY <2>1, Absent DEF begin_capture, TypeOK, Counter
  <2>2. CASE active /\ CanAdvance(captureSequence)
    <3>1. /\ captureSequence' = captureSequence + 1
          /\ ticket' = [ticket EXCEPT ![t] =
                 [scene |-> sceneEpoch, lifecycle |-> lifecycleEpoch,
                  sequence |-> captureSequence + 1]]
          /\ inspected' = [inspected EXCEPT ![t] =
                 [epoch |-> epoch, resources |-> resources]]
      BY <2>2 DEF begin_capture
    <3>2. captureSequence' \in Counter /\ captureSequence <= captureSequence'
      BY <2>2, <3>1, HandoffAssumption DEF CanAdvance, TypeOK, Counter
    <3>3. [scene |-> sceneEpoch, lifecycle |-> lifecycleEpoch, sequence |-> captureSequence + 1] \in Ticket
      BY <3>1, <3>2 DEF Ticket, TypeOK
    <3>4. [epoch |-> epoch, resources |-> resources] \in Registry
      BY DEF Registry, TypeOK
    <3> QED BY <3>1, <3>2, <3>3, <3>4 DEF TypeOK
  <2>3. CASE active /\ ~CanAdvance(captureSequence)
    BY <2>3, Absent DEF begin_capture, TypeOK, Counter
  <2> QED BY <2>1, <2>2, <2>3
<1>3. CASE UNCHANGED <<exhausted, active, publication, hints>>
  <2>1. TypeOK'
    BY <1>0, <1>2, <1>3 DEF TypeOK, hints
  <2>2. HintsCoverPublication' /\ PublishedPairIsLive' /\ OwnerOfPublication' /\ NewestPublicationWins'
    BY <1>0, <1>3 DEF HintsCoverPublication, PublishedPairIsLive, OwnerOfPublication, NewestPublicationWins,
                      hints, Live, IdentityOf
  <2>3. PublicationDrawn' /\ HeldDrawn'
    BY <1>0, <1>2, <1>3 DEF PublicationDrawn, HeldDrawn, TypeOK, Publication, Match, Counter
  <2>4. ExhaustedIsIdle' /\ OwnerOfHeld'
    BY <1>0, <1>3 DEF ExhaustedIsIdle, OwnerOfHeld
  <2> QED BY <1>1, <2>1, <2>2, <2>3, <2>4
<1>4. CASE Exhaust
  <2>0. /\ exhausted' = TRUE /\ active' = FALSE
        /\ publication' = NoPublication /\ candidate' = NullPair /\ observed' = NullPair
    BY <1>4 DEF Exhaust, DropPublication
  <2>1. TypeOK'
    BY <1>0, <1>2, <2>0, Absent DEF TypeOK
  <2>2. HintsCoverPublication' /\ PublishedPairIsLive' /\ OwnerOfPublication' /\ NewestPublicationWins'
    BY <2>0, Absent DEF HintsCoverPublication, PublishedPairIsLive, OwnerOfPublication, NewestPublicationWins
  <2>3. PublicationDrawn' /\ HeldDrawn'
    BY <1>0, <1>2, <2>0, Absent DEF PublicationDrawn, HeldDrawn, TypeOK, Match, Counter
  <2>4. ExhaustedIsIdle' /\ OwnerOfHeld'
    BY <2>0 DEF ExhaustedIsIdle, OwnerOfHeld
  <2> QED BY <1>1, <2>1, <2>2, <2>3, <2>4
<1> QED BY <1>3, <1>4 DEF begin_capture

LEMMA ObserveCopyStep ==
  ASSUME IInv, NEW k \in DeviceKeys, NEW h \in Handles, observe_copy(k, h)
  PROVE  IInv'
<1> USE DEF IInv
<1>1. PICK f \in Feeds : Matches(k, h, f) /\ held' = MatchOf(k, h, f)
  BY DEF observe_copy
<1>2. /\ UNCHANGED <<registry, deviceCounter, resourceCounter, lifecycleEpoch>>
      /\ UNCHANGED <<epoch, resources, sceneEpoch, captureSequence, exhausted, active, owner, publication,
                     candidate, observed, ticket, inspected>>
  BY DEF observe_copy, registry, counters, hints
<1>3. CountersTrailLifecycle' /\ RegistryDrawn'
  BY <1>2, RegistryFrame
<1>4. /\ held'.matched /\ held'.feed = f /\ held'.scene = sceneEpoch /\ held'.sequence = publication.sequence
      /\ held'.manager = publication.manager /\ held'.entry = publication.entries[f]
      /\ held'.resource.generation = resources[k][h].generation
  BY <1>1 DEF MatchOf, IdentityOf
<1>5. held' \in Match
  <2>1. IdentityOf(k, h) \in Identity
    BY DEF IdentityOf, Identity, TypeOK, Resource
  <2> QED BY <1>1, <2>1 DEF MatchOf, Match, TypeOK, Publication, Pairs
<1>6. TypeOK'
  BY <1>2, <1>5 DEF TypeOK
<1>7. HintsCoverPublication' /\ PublishedPairIsLive' /\ OwnerOfPublication' /\ ExhaustedIsIdle' /\ PublicationDrawn'
  BY <1>2 DEF HintsCoverPublication, PublishedPairIsLive, OwnerOfPublication, ExhaustedIsIdle, PublicationDrawn,
              Live, IdentityOf
<1>8. HeldDrawn' /\ NewestPublicationWins'
  BY <1>2, <1>4 DEF HeldDrawn, NewestPublicationWins, PublicationDrawn, RegistryDrawn, TypeOK, Publication, Counter
<1>9. OwnerOfHeld'
  BY <1>1, <1>2, <1>4 DEF OwnerOfHeld, OwnerOfPublication, Matches
<1> QED BY <1>3, <1>6, <1>7, <1>8, <1>9

(* refuse_latest keeps the owner and every retained match, and drops the   *)
(* publication.                                                            *)
LEMMA RefuseStep ==
  ASSUME IInv, RefuseLatest, UNCHANGED <<exhausted, active, owner, sceneEpoch>>,
         UNCHANGED <<registry, deviceCounter, resourceCounter, lifecycleEpoch, captureSequence, clients>>
  PROVE  IInv'
<1> USE DEF IInv
<1>0. publication' = NoPublication /\ candidate' = NullPair /\ observed' = observed
  BY DEF RefuseLatest
<1>1. TypeOK'
  BY <1>0, Absent DEF TypeOK, registry, clients
<1>2. CountersTrailLifecycle' /\ RegistryDrawn'
  BY RegistryFrame
<1>3. HintsCoverPublication' /\ PublishedPairIsLive' /\ OwnerOfPublication' /\ NewestPublicationWins'
  BY <1>0, Absent DEF HintsCoverPublication, PublishedPairIsLive, OwnerOfPublication, NewestPublicationWins
<1>4. PublicationDrawn'
  BY <1>0, Absent DEF PublicationDrawn, TypeOK, Counter
<1>5. HeldDrawn' /\ ExhaustedIsIdle' /\ OwnerOfHeld'
  BY DEF HeldDrawn, ExhaustedIsIdle, OwnerOfHeld, clients
<1> QED BY <1>1, <1>2, <1>3, <1>4, <1>5

LEMMA PublishStep ==
  ASSUME IInv, NEW t \in Inspectors, NEW m \in Managers \cup {Null}, NEW pair \in Pairs(EntryIds),
         NEW hs \in Pairs(Handles), publish(t, m, pair, hs)
  PROVE  IInv'
<1> USE DEF IInv
<1>0. UNCHANGED <<registry, deviceCounter, resourceCounter, lifecycleEpoch, captureSequence, clients>>
  BY DEF publish
<1>1. TicketAdmitted(ticket[t])
  BY DEF publish
<1>2. CASE RefuseLatest /\ UNCHANGED <<exhausted, active, owner, sceneEpoch>>
  BY <1>0, <1>2, RefuseStep
<1>3. CASE /\ DropPublication /\ active' = FALSE /\ owner' = owner
           /\ IF CanAdvance(sceneEpoch)
                THEN sceneEpoch' = sceneEpoch + 1 /\ UNCHANGED exhausted
                ELSE exhausted' = TRUE /\ UNCHANGED sceneEpoch
  <2>1. owner' \in [bound : BOOLEAN, manager : Managers \cup {Null}, entries : Pairs(EntryIds)]
    BY <1>3 DEF TypeOK
  <2> QED BY <1>0, <1>3, <2>1, SceneMoves
<1>4. CASE /\ WellFormed(m, pair, hs) /\ ~OwnerChanged(m, pair)
           /\ \E k \in DeviceKeys :
                /\ ResolvedOn(k, hs)
                /\ publication' =
                     [valid |-> TRUE, scene |-> sceneEpoch,
                      sequence |-> ticket[t].sequence, device |-> k, manager |-> m,
                      entries |-> pair, handles |-> hs,
                      resources |-> [f \in Feeds |-> IdentityOf(k, hs[f])]]
           /\ owner' = [bound |-> TRUE, manager |-> m, entries |-> pair]
           /\ candidate' = hs
           /\ observed' = hs
           /\ UNCHANGED <<exhausted, active, sceneEpoch>>
  <2>1. PICK k \in DeviceKeys :
          /\ ResolvedOn(k, hs)
          /\ publication' =
               [valid |-> TRUE, scene |-> sceneEpoch,
                sequence |-> ticket[t].sequence, device |-> k, manager |-> m,
                entries |-> pair, handles |-> hs,
                resources |-> [f \in Feeds |-> IdentityOf(k, hs[f])]]
    BY <1>4
  <2>2. \A f \in Feeds : hs[f] \in Handles /\ Live(k, hs[f]) /\ IdentityOf(k, hs[f]) \in Identity
    <3>1. \A f \in Feeds : hs[f] \in Handles
      BY <1>4 DEF WellFormed, Pairs
    <3>2. \A f \in Feeds : Live(k, hs[f])
      BY <2>1 DEF ResolvedOn
    <3>3. \A f \in Feeds : IdentityOf(k, hs[f]) \in Identity
      BY <3>1 DEF IdentityOf, Identity, TypeOK, Resource
    <3> QED BY <3>1, <3>2, <3>3
  <2>3. ticket[t].sequence \in Counter /\ ticket[t].sequence = captureSequence
    BY <1>1 DEF TicketAdmitted, TypeOK, Ticket
  <2>4. publication' \in Publication
    BY <2>1, <2>2, <2>3 DEF Publication, TypeOK
  <2>5. TypeOK'
    BY <1>0, <1>4, <2>4 DEF TypeOK, registry, clients
  <2>6. CountersTrailLifecycle' /\ RegistryDrawn'
    BY <1>0, RegistryFrame
  <2>7. HintsCoverPublication' /\ OwnerOfPublication'
    BY <1>4, <2>1 DEF HintsCoverPublication, OwnerOfPublication
  <2>8. PublishedPairIsLive'
    <3>1. active' /\ ~exhausted' /\ publication'.scene = sceneEpoch'
      BY <1>1, <1>4, <2>1 DEF TicketAdmitted
    <3>2. hs[1] # hs[2] /\ epoch' = epoch /\ resources' = resources
      BY <1>0, <1>4 DEF WellFormed, registry
    <3>3. epoch[k] # 0
      BY <2>2 DEF RegistryDrawn, Feeds
    <3> QED BY <2>1, <2>2, <3>1, <3>2, <3>3 DEF PublishedPairIsLive, Live, IdentityOf
  <2>9. PublicationDrawn' /\ NewestPublicationWins' /\ HeldDrawn'
    BY <1>0, <1>4, <2>1, <2>3 DEF PublicationDrawn, NewestPublicationWins, HeldDrawn, clients, TypeOK, Counter
  <2>10. ExhaustedIsIdle'
    BY <1>4 DEF ExhaustedIsIdle
  <2>11. OwnerOfHeld'
    <3>1. owner.bound => owner.manager = m /\ owner.entries = pair
      BY <1>4 DEF OwnerChanged
    <3> QED BY <1>0, <1>4, <3>1 DEF OwnerOfHeld, clients
  <2> QED BY <2>5, <2>6, <2>7, <2>8, <2>9, <2>10, <2>11
<1> QED BY <1>2, <1>3, <1>4 DEF publish

LEMMA NextStep == IInv /\ [Next]_vars => IInv'
<1> SUFFICES ASSUME IInv, [Next]_vars PROVE IInv'
  OBVIOUS
<1>1. ASSUME NEW k \in DeviceKeys \cup {Null}, register_device(k) \/ unregister_device(k) PROVE IInv'
  BY <1>1, RegisterDeviceStep, UnregisterDeviceStep
<1>2. ASSUME NEW k \in DeviceKeys \cup {Null}, NEW h \in Handles \cup {Null}, NEW id \in Ids \cup {Null},
             NEW allocated \in BOOLEAN, register_resource(k, h, id, allocated)
      PROVE  IInv'
  BY <1>2, RegisterResourceStep
<1>3. ASSUME NEW k \in DeviceKeys \cup {Null}, NEW h \in Handles \cup {Null}, unregister_resource(k, h) PROVE IInv'
  BY <1>3, UnregisterResourceStep
<1>4. CASE begin_scene \/ stop_scene
  BY <1>4, SceneStep
<1>5. ASSUME NEW t \in Inspectors, begin_capture(t) PROVE IInv'
  BY <1>5, BeginCaptureStep
<1>6. ASSUME NEW t \in Inspectors, NEW m \in Managers \cup {Null}, NEW pair \in Pairs(EntryIds),
             NEW hs \in Pairs(Handles), publish(t, m, pair, hs)
      PROVE  IInv'
  BY <1>6, PublishStep
<1>7. ASSUME NEW k \in DeviceKeys, NEW h \in Handles, observe_copy(k, h) PROVE IInv'
  BY <1>7, ObserveCopyStep
<1>8. CASE UNCHANGED vars
  BY <1>8 DEF vars, registry, counters, hints, clients, IInv, TypeOK, CountersTrailLifecycle,
     HintsCoverPublication, PublishedPairIsLive, RegistryDrawn, HeldDrawn, PublicationDrawn, ExhaustedIsIdle,
     OwnerOfPublication, OwnerOfHeld, NewestPublicationWins, Live, IdentityOf
<1> QED BY <1>1, <1>2, <1>3, <1>4, <1>5, <1>6, <1>7, <1>8 DEF Next

LEMMA Invariance == Spec => []IInv
BY InitIInv, NextStep, PTL DEF Spec

(* Every variable of the handoff keeps its type, so no counter ever passes *)
(* its width: advance refuses instead of wrapping.                         *)
THEOREM TypeCorrect == Spec => []TypeOK
BY Invariance, PTL DEF IInv

(* The device and resource counters never are the ones that run out.       *)
THEOREM CountersTrail == Spec => []CountersTrailLifecycle
BY Invariance, PTL DEF IInv

(* The lock-free hints always cover the standing publication.              *)
THEOREM HintsCover == Spec => []HintsCoverPublication
BY Invariance, PTL DEF IInv

(* A standing publication always names two live, exactly identified        *)
(* resources of one registered device in the running scene.                *)
THEOREM PublishedLive == Spec => []PublishedPairIsLive
BY Invariance, PTL DEF IInv

(* No publication older than a match already taken ever stands.            *)
THEOREM NewestWins == Spec => []NewestPublicationWins
BY Invariance, PTL DEF IInv

(* Matches retained from one scene epoch have one manager and one pair of  *)
(* entries.                                                                *)
THEOREM OneOwner == Spec => []OneOwnerPerScene
<1>1. IInv => OneOwnerPerScene
  BY DEF IInv, OneOwnerPerScene, OwnerOfHeld, OwnerOfPublication, PublishedPairIsLive
<1> QED BY <1>1, Invariance, PTL

(* is_current accepts only matches of the running scene whose resource is  *)
(* registered under the matched generation.                                *)
THEOREM CurrentAlive == Spec => []CurrentIsAlive
<1>1. IInv => CurrentIsAlive
  <2> SUFFICES ASSUME IInv, is_current(held) PROVE ~Dead(held)
    BY DEF CurrentIsAlive
  <2>1. publication.valid /\ held.scene = sceneEpoch /\ held.feed \in Feeds
    BY DEF is_current, IInv, TypeOK, Match
  <2>2. /\ publication.device \in DeviceKeys /\ publication.handles[held.feed] \in Handles
        /\ Live(publication.device, publication.handles[held.feed])
    BY <2>1 DEF IInv, PublishedPairIsLive
  <2>3. IdentityOf(publication.device, publication.handles[held.feed]) = held.resource
    BY DEF is_current
  <2> QED BY <2>1, <2>2, <2>3 DEF Dead
<1> QED BY <1>1, Invariance, PTL

(* What a reader of scene_handoff.cpp relies on, in one formula: a match   *)
(* that is current names a live resource, of the one owner of its scene,   *)
(* and never one older than a match already taken.                         *)
THEOREM HandoffSafe == Spec => []HandoffSafety
BY TypeCorrect, CountersTrail, HintsCover, PublishedLive, NewestWins, OneOwner, CurrentAlive, PTL
   DEF HandoffSafety

(* Once the handoff is exhausted nothing is ever active or published again.*)
THEOREM ExhaustionFinal == Spec => ExhaustionIsFinal
<1> DEFINE Final == exhausted => exhausted' /\ ~active' /\ ~publication'.valid /\ ~publication.valid
<1>1. IInv /\ IInv' /\ [Next]_vars => [Final]_vars
  <2> SUFFICES ASSUME IInv, IInv', Next, exhausted
               PROVE  exhausted' /\ ~active' /\ ~publication'.valid /\ ~publication.valid
    OBVIOUS
  <2>0. TypeOK
    BY DEF IInv
  <2>1. exhausted'
    <3>1. ASSUME NEW h \in Handles \cup {Null}, LifecycleEvent(h) PROVE exhausted'
      BY <2>0, <3>1, LifecycleEventEffect
    <3>2. ASSUME NEW k \in DeviceKeys \cup {Null}, register_device(k) \/ unregister_device(k) PROVE exhausted'
      BY <3>1, <3>2 DEF register_device, unregister_device
    <3>3. ASSUME NEW k \in DeviceKeys \cup {Null}, NEW h \in Handles \cup {Null}, NEW id \in Ids \cup {Null},
                 NEW allocated \in BOOLEAN,
                 register_resource(k, h, id, allocated) \/ unregister_resource(k, h)
          PROVE  exhausted'
      BY <3>1, <3>3 DEF register_resource, unregister_resource
    <3>4. CASE begin_scene \/ stop_scene
      BY <3>4 DEF begin_scene, stop_scene, CanAdvance
    <3>5. ASSUME NEW t \in Inspectors, begin_capture(t) PROVE exhausted'
      BY <3>5 DEF begin_capture, Exhaust
    <3>6. ASSUME NEW t \in Inspectors, NEW m \in Managers \cup {Null}, NEW pair \in Pairs(EntryIds),
                 NEW hs \in Pairs(Handles), publish(t, m, pair, hs)
          PROVE  exhausted'
      BY <3>6 DEF publish, TicketAdmitted
    <3>7. ASSUME NEW k \in DeviceKeys, NEW h \in Handles, observe_copy(k, h) PROVE exhausted'
      BY <3>7 DEF observe_copy
    <3> QED BY <3>2, <3>3, <3>4, <3>5, <3>6, <3>7 DEF Next
  <2> QED BY <2>1 DEF IInv, ExhaustedIsIdle, PublishedPairIsLive
<1> QED BY <1>1, Invariance, PTL DEF Spec, ExhaustionIsFinal

(* A retained match whose scene has ended or whose resource generation is  *)
(* gone never comes alive again, however addresses are reused.             *)
THEOREM DeadForever == Spec => DeadStaysDead
<1> DEFINE Stays == held.matched /\ held' = held /\ Dead(held) => Dead(held)'
<1>1. IInv /\ [Next]_vars => [Stays]_vars
  <2> SUFFICES ASSUME IInv, Next, held.matched, held' = held, Dead(held)
               PROVE  Dead(held)'
    OBVIOUS
  <2> USE DEF IInv
  <2>0. TypeOK
    OBVIOUS
  <2>1. sceneEpoch' = sceneEpoch \/ sceneEpoch' = sceneEpoch + 1
    BY DEF Next, register_device, unregister_device, register_resource, unregister_resource,
           begin_scene, stop_scene, begin_capture, publish, observe_copy, counters
  <2>2. CASE held.scene # sceneEpoch
    BY <2>1, <2>2 DEF Dead, HeldDrawn, TypeOK, Match, Counter
  <2>3. CASE ~\E k \in DeviceKeys, h \in Handles : Live(k, h) /\ IdentityOf(k, h) = held.resource
    <3> DEFINE KeptOrRenewed ==
          \A k \in DeviceKeys, h \in Handles :
            \/ epoch'[k] = epoch[k] /\ resources'[k][h] = resources[k][h]
            \/ resources'[k][h] = NoResource
            \/ resources'[k][h].generation = resourceCounter + 1
    <3>1. KeptOrRenewed
      <4>1. ASSUME NEW d \in DeviceKeys \cup {Null}, register_device(d) \/ unregister_device(d) PROVE KeptOrRenewed
        BY <4>1, <2>0 DEF register_device, unregister_device, registry, TypeOK
      <4>2. ASSUME NEW d \in DeviceKeys \cup {Null}, NEW g \in Handles \cup {Null}, NEW id \in Ids \cup {Null},
                   NEW allocated \in BOOLEAN,
                   register_resource(d, g, id, allocated)
            PROVE  KeptOrRenewed
        <5>1. epoch' = epoch
          BY <4>2 DEF register_resource
        <5>2. \/ resources' = resources
              \/ /\ d \in DeviceKeys /\ g \in Handles
                 /\ \/ resources' = [resources EXCEPT ![d][g] = NoResource]
                    \/ resources' = [resources EXCEPT ![d][g] = [id |-> id, generation |-> resourceCounter + 1]]
          BY <4>2 DEF register_resource
        <5> QED BY <2>0, <5>1, <5>2 DEF TypeOK
      <4>3. ASSUME NEW d \in DeviceKeys \cup {Null}, NEW g \in Handles \cup {Null}, unregister_resource(d, g)
            PROVE  KeptOrRenewed
        BY <4>3, <2>0 DEF unregister_resource, TypeOK
      <4>4. CASE UNCHANGED <<epoch, resources>>
        BY <4>4
      <4> QED BY <4>1, <4>2, <4>3, <4>4 DEF Next, begin_scene, stop_scene, begin_capture, publish,
                 observe_copy, registry
    <3>2. ASSUME NEW k \in DeviceKeys, NEW h \in Handles, Live(k, h)', IdentityOf(k, h)' = held.resource
          PROVE  FALSE
      <4>1. CASE epoch'[k] = epoch[k] /\ resources'[k][h] = resources[k][h]
        BY <2>3, <3>2, <4>1 DEF Live, IdentityOf
      <4>2. CASE resources'[k][h] = NoResource
        BY <3>2, <4>2, Absent DEF Live
      <4>3. CASE resources'[k][h].generation = resourceCounter + 1
        <5>1. held.resource.generation = resourceCounter + 1
          BY <3>2, <4>3 DEF IdentityOf
        <5> QED BY <5>1 DEF HeldDrawn, TypeOK, Match, Identity, Counter
      <4> QED BY <3>1, <4>1, <4>2, <4>3
    <3> QED BY <3>2 DEF Dead
  <2> QED BY <2>2, <2>3 DEF Dead
<1> QED BY <1>1, Invariance, PTL DEF Spec, DeadStaysDead

-----------------------------------------------------------------------------
(* A ticket that still carries the current lifecycle epoch was opened on   *)
(* the registry as it is now.  Exhaustion is excepted: the epoch stands    *)
(* still then while resources are still unregistered.                      *)
TicketsSnapshot ==
  \A t \in Inspectors :
    /\ ticket[t].lifecycle <= lifecycleEpoch
    /\ ticket[t].sequence # 0 /\ ticket[t].lifecycle = lifecycleEpoch /\ ~exhausted
         => inspected[t] = [epoch |-> epoch, resources |-> resources]

(* A registry callback leaves no open ticket current.                      *)
LEMMA RegistryStepSnapshot ==
  ASSUME IInv, TicketsSnapshot, NEW h \in Handles \cup {Null}, LifecycleEvent(h),
         UNCHANGED <<ticket, inspected>>
  PROVE  TicketsSnapshot'
<1>0. TypeOK
  BY DEF IInv
<1>1. /\ lifecycleEpoch' \in Nat /\ lifecycleEpoch <= lifecycleEpoch' /\ lifecycleEpoch \in Nat
      /\ exhausted' \/ lifecycleEpoch' = lifecycleEpoch + 1
  BY <1>0, LifecycleEventEffect DEF Counter, TypeOK
<1>2. \A t \in Inspectors : ticket[t].lifecycle \in Nat /\ ticket[t].lifecycle <= lifecycleEpoch
  BY <1>0 DEF TypeOK, Ticket, Counter, TicketsSnapshot
<1> QED BY <1>1, <1>2 DEF TicketsSnapshot

LEMMA SnapshotStep == IInv /\ TicketsSnapshot /\ [Next]_vars => TicketsSnapshot'
<1> SUFFICES ASSUME IInv, TicketsSnapshot, [Next]_vars PROVE TicketsSnapshot'
  OBVIOUS
<1>0. TypeOK
  BY DEF IInv
<1>1. ASSUME NEW k \in DeviceKeys \cup {Null}, register_device(k) \/ unregister_device(k) PROVE TicketsSnapshot'
  BY <1>1, RegistryStepSnapshot DEF register_device, unregister_device, clients
<1>2. ASSUME NEW k \in DeviceKeys \cup {Null}, NEW h \in Handles \cup {Null}, NEW id \in Ids \cup {Null},
             NEW allocated \in BOOLEAN,
             register_resource(k, h, id, allocated) \/ unregister_resource(k, h)
      PROVE  TicketsSnapshot'
  BY <1>2, RegistryStepSnapshot DEF register_resource, unregister_resource, clients
<1>3. CASE begin_scene \/ stop_scene
  BY <1>3 DEF begin_scene, stop_scene, CanAdvance, TicketsSnapshot, registry, clients
<1>4. ASSUME NEW t \in Inspectors, begin_capture(t) PROVE TicketsSnapshot'
  <2>0. UNCHANGED <<epoch, resources, lifecycleEpoch>> /\ lifecycleEpoch \in Nat /\ NoTicket.lifecycle = 0 /\ NoTicket.sequence = 0
    BY <1>0, <1>4 DEF begin_capture, registry, NoTicket, TypeOK, Counter
  <2>1. CASE ~active
    BY <1>0, <1>4, <2>0, <2>1 DEF begin_capture, TicketsSnapshot, TypeOK
  <2>2. CASE active /\ CanAdvance(captureSequence)
    BY <1>0, <1>4, <2>0, <2>2 DEF begin_capture, TicketsSnapshot, TypeOK
  <2>3. CASE active /\ ~CanAdvance(captureSequence)
    BY <1>0, <1>4, <2>0, <2>3 DEF begin_capture, Exhaust, TicketsSnapshot, TypeOK
  <2> QED BY <2>1, <2>2, <2>3
<1>5. ASSUME NEW t \in Inspectors, NEW m \in Managers \cup {Null}, NEW pair \in Pairs(EntryIds),
             NEW hs \in Pairs(Handles), publish(t, m, pair, hs)
      PROVE  TicketsSnapshot'
  <2>1. UNCHANGED <<epoch, resources, lifecycleEpoch, ticket, inspected>> /\ (exhausted => exhausted')
    BY <1>5 DEF publish, registry, clients, TicketAdmitted
  <2> QED BY <2>1 DEF TicketsSnapshot
<1>6. ASSUME NEW k \in DeviceKeys, NEW h \in Handles, observe_copy(k, h) PROVE TicketsSnapshot'
  BY <1>6 DEF observe_copy, TicketsSnapshot, registry, counters
<1>7. CASE UNCHANGED vars
  BY <1>7 DEF vars, TicketsSnapshot, registry, counters, clients
<1> QED BY <1>1, <1>2, <1>3, <1>4, <1>5, <1>6, <1>7 DEF Next

(* What publish makes current was registered under the same generations    *)
(* when the publishing inspector opened its ticket.                        *)
THEOREM PublishedInspected == Spec => PublishedAsInspected
<1> DEFINE Known ==
      publication'.valid /\ publication' # publication =>
       \E t \in Inspectors :
         /\ ticket[t].sequence = publication'.sequence
         /\ \A f \in Feeds :
              LET k == publication'.device
                  h == publication'.handles[f]
              IN  publication'.resources[f] =
                    [device |-> inspected[t].epoch[k],
                     id |-> inspected[t].resources[k][h].id,
                     generation |-> inspected[t].resources[k][h].generation]
<1>1. Init => TicketsSnapshot
  BY DEF Init, TicketsSnapshot, NoTicket
<1>2. Spec => []TicketsSnapshot
  BY <1>1, Invariance, SnapshotStep, PTL DEF Spec
<1>3. IInv /\ TicketsSnapshot /\ [Next]_vars => [Known]_vars
  <2> SUFFICES ASSUME IInv, TicketsSnapshot, Next, publication'.valid, publication' # publication
               PROVE  Known
    OBVIOUS
  <2>0. TypeOK
    BY DEF IInv
  <2>1. ASSUME NEW h \in Handles \cup {Null}, LifecycleEvent(h) PROVE FALSE
    BY <2>0, <2>1, LifecycleEventEffect
  <2>2. PICK t \in Inspectors, m \in Managers \cup {Null}, pair \in Pairs(EntryIds), hs \in Pairs(Handles) :
          publish(t, m, pair, hs)
    BY <2>1, Absent DEF Next, register_device, unregister_device, register_resource, unregister_resource,
       begin_scene, stop_scene, begin_capture, observe_copy, DropPublication, Exhaust
  <2>3. TicketAdmitted(ticket[t])
    BY <2>2 DEF publish
  <2>4. inspected[t] = [epoch |-> epoch, resources |-> resources]
    BY <2>3 DEF TicketAdmitted, TicketsSnapshot
  <2>5. PICK k \in DeviceKeys :
          publication' =
            [valid |-> TRUE, scene |-> sceneEpoch,
             sequence |-> ticket[t].sequence, device |-> k, manager |-> m,
             entries |-> pair, handles |-> hs,
             resources |-> [f \in Feeds |-> IdentityOf(k, hs[f])]]
    BY <2>2, Absent DEF publish, RefuseLatest, DropPublication
  <2>6. /\ publication'.sequence = ticket[t].sequence
        /\ publication'.device = k /\ publication'.handles = hs
        /\ publication'.resources = [f \in Feeds |-> IdentityOf(k, hs[f])]
    BY <2>5
  <2>7. ASSUME NEW f \in Feeds
        PROVE  publication'.resources[f] =
                 [device |-> inspected[t].epoch[k],
                  id |-> inspected[t].resources[k][hs[f]].id,
                  generation |-> inspected[t].resources[k][hs[f]].generation]
    BY <2>4, <2>6 DEF IdentityOf
  <2> QED BY <2>6, <2>7
<1> QED BY <1>2, <1>3, Invariance, PTL DEF Spec, PublishedAsInspected
-----------------------------------------------------------------------------
(* The pool of views: what the variables are.                              *)
SlotUses    == {"free", "ours", "sim"}
UpdateSteps == {"idle", "capture", "capture_again", "capture_reset", "restore", "capacity", "aa"}
PoolSnaps   == [view : [Pool!Slots -> Pool!Views], free : SUBSET Pool!Slots,
                marked : SUBSET Pool!Views, queue : SUBSET Pool!Views]
ViewTypes ==
  /\ view \in [Pool!Slots -> Pool!Views] /\ use \in [Pool!Slots -> SlotUses]
  /\ bit \in [Pool!Views -> BOOLEAN]
  /\ queue \in SUBSET Pool!Views /\ marked \in SUBSET Pool!Views
  /\ ids \in Seq(Pool!Slots) /\ pool \in [1..2 -> Pool!Views \union {0}]
  /\ retired \in SUBSET Pool!Views /\ cleared \in SUBSET Pool!Views
  /\ pc \in UpdateSteps /\ creations \in 0..2
  /\ visits \in 0..MaxOthers /\ made \in 0..MaxPairs /\ faults \in 0..MaxFaults
  /\ touched \in SUBSET Pool!Views /\ unseen \in SUBSET Pool!Views
  /\ unnoted \in SUBSET Pool!Views
  /\ pc \in {"restore", "capacity"} => snap \in PoolSnaps

(* A slot has a view of its own, and a view the renderer has yet to make   *)
(* has left no trace.                                                      *)
ViewsDiffer == \A i, j \in Pool!Slots : i # j => view[i] # view[j]
Met(v) == \E i \in Pool!Slots : v <= view[i]
NewIsNew ==
  \A v \in Pool!Views :
    ~Met(v) => v \notin queue \union marked \union cleared \union touched /\ bit[v]

(* What was read of the pool may be outdated by new views, and by what the *)
(* renderer drained.                                                       *)
SnapFits ==
  pc \in {"restore", "capacity"} =>
    /\ snap.free = {i \in Pool!Slots : Pool!free(i)}
    /\ \A i \in Pool!Slots :
         \/ /\ view[i] = snap.view[i]
            /\ view[i] \in queue => view[i] \in snap.queue
            /\ view[i] \in marked => view[i] \in snap.marked
         \/ ~Pool!releasing(view[i]) /\ bit[view[i]]

(* The pair under way, and the ledgers.                                    *)
UpdateFits ==
  /\ Len(ids) <= 2 /\ (pc # "idle" => Len(ids) <= creations)
  /\ pc = "aa" => Len(ids) \in 1..2 /\ creations # 0
  /\ pc \in {"capture", "capture_again", "capture_reset", "restore", "capacity"} => creations <= 1
  /\ Cardinality(retired) <= LedgerSize /\ Cardinality(cleared) <= AaCapacity

(* A view of the bridge is one it identified, or could not; one of the     *)
(* simulator is no longer the bridge's.                                    *)
OursIsKnown ==
  \A i \in Pool!Slots :
    /\ use[i] = "ours" =>
         view[i] \in touched /\ (view[i] \in unseen \/ view[i] = pool[1] \/ view[i] = pool[2])
    /\ use[i] = "sim" => view[i] \notin touched

(* The bridge's entries are the slots that are its own.                    *)
IdsFit ==
  /\ \A j \in DOMAIN ids : use[ids[j]] = "ours"
  /\ \A j, n \in DOMAIN ids : ids[j] = ids[n] => j = n
  /\ \A i \in Pool!Slots : use[i] = "ours" => \E j \in DOMAIN ids : ids[j] = i

(* As in ViewPoolSafety, slot by slot.                                     *)
RetiredRemembered ==
  \A v \in touched \ unseen :
    (v \in queue \/ (v \in marked /\ \E i \in Pool!Slots : v = view[i])) =>
      v \in retired \/ v = pool[1] \/ v = pool[2]

ClearedLedgered ==
  \A i \in Pool!Slots : ~bit[view[i]] /\ view[i] \notin unnoted => view[i] \in cleared

ViewIInv ==
  /\ ViewTypes /\ ViewsDiffer /\ NewIsNew /\ SnapFits /\ UpdateFits /\ OursIsKnown /\ IdsFit
  /\ Pool!OnReleasedViews /\ RetiredRemembered /\ ClearedLedgered

(* The bounds, and that the slots have at most all the views.              *)
LEMMA ViewBounds == /\ LedgerSize \in Nat \ {0} /\ AaCapacity \in Nat /\ SlotCount \in Nat \ {0}
                /\ MaxViews \in Nat /\ MaxPairs \in Nat /\ MaxOthers \in Nat /\ MaxFaults \in Nat
                /\ Pool!Slots \subseteq Pool!Views /\ 0 \notin Pool!Views
                      /\ Pool!Views \subseteq Nat /\ IsFiniteSet(Pool!Views)
<1>1. /\ LedgerSize \in Nat \ {0} /\ AaCapacity \in Nat /\ SlotCount \in Nat \ {0}
      /\ MaxViews \in Nat
      /\ MaxViews >= SlotCount /\ MaxPairs \in Nat /\ MaxOthers \in Nat /\ MaxFaults \in Nat
  BY AddedAssumption DEF Pool!ViewPoolAssumption
<1>2. IsFiniteSet(1..MaxViews)
  BY <1>1, FS_Interval
<1> QED BY <1>1, <1>2 DEF Pool!Slots, Pool!Views

(* The ledgers are finite.                                                 *)
LEMMA LedgersFinite == ASSUME ViewTypes PROVE IsFiniteSet(retired) /\ IsFiniteSet(cleared)
  /\ Cardinality(retired) \in Nat /\ Cardinality(cleared) \in Nat
BY ViewBounds, FS_Subset, FS_CardinalityType DEF ViewTypes

(* The views in the pool.                                                  *)
LEMMA ViewsInPool == ASSUME NEW w \in [Pool!Slots -> Pool!Views]
  PROVE \A v : v \in Pool!Range0(w) <=> \E i \in Pool!Slots : v = w[i]
BY ViewBounds DEF Pool!Range0

(* The views the bridge owns in it.                                        *)
LEMMA OwnedPoolViews == ASSUME NEW p \in [1..2 -> Pool!Views \union {0}]
  PROVE \A v \in Pool!Views : v \in Pool!Range0(p) <=> v = p[1] \/ v = p[2]
BY ViewBounds DEF Pool!Range0

(* The instance counts as we do.                                           *)
LEMMA SameSize == \A S : Pool!Cardinality(S) = Cardinality(S)
BY DEF Pool!Cardinality, Cardinality

(* retain adds the view if there is room.                                  *)
LEMMA RetainEffect == ASSUME NEW r \in SUBSET Pool!Views, NEW v \in Pool!Views \union {0},
  Cardinality(r) <= LedgerSize
  PROVE /\ Pool!retain(r, v) \in SUBSET Pool!Views /\ Cardinality(Pool!retain(r, v)) <= LedgerSize
        /\ r \subseteq Pool!retain(r, v) /\ Pool!retain(r, v) \subseteq r \union {v}
<1>1. IsFiniteSet(r) /\ Cardinality(r) \in Nat
  BY ViewBounds, FS_Subset, FS_CardinalityType
<1>2. Cardinality(r \union {v}) = IF v \in r THEN Cardinality(r) ELSE Cardinality(r) + 1
  BY <1>1, FS_AddElement
<1>3. Cardinality(r \union {v}) <= Cardinality(r) + 1
  BY <1>1, <1>2
<1> QED BY <1>1, <1>2, <1>3, ViewBounds, SameSize DEF Pool!retain

(* note adds the view if there is room.                                    *)
LEMMA NoteEffect == ASSUME ViewTypes, NEW v \in Pool!Views, Cardinality(cleared) <= AaCapacity
  PROVE /\ Pool!note(v) \in SUBSET Pool!Views /\ Cardinality(Pool!note(v)) <= AaCapacity
        /\ cleared \subseteq Pool!note(v) /\ Pool!note(v) \subseteq cleared \union {v}
<1>1. IsFiniteSet(cleared) /\ Cardinality(cleared) \in Nat
  BY LedgersFinite
<1>2. Cardinality(cleared \union {v}) = IF v \in cleared THEN Cardinality(cleared)
      ELSE Cardinality(cleared) + 1
  BY <1>1, FS_AddElement
<1>3. Cardinality(cleared \union {v}) <= Cardinality(cleared) + 1
  BY <1>1, <1>2
<1> QED BY <1>1, <1>2, <1>3, ViewBounds, SameSize DEF Pool!note, ViewTypes

(* A part of what fits does.                                               *)
LEMMA FewerFit == ASSUME NEW n \in Nat, NEW S \in SUBSET Pool!Views, NEW R \in SUBSET S,
  Cardinality(S) <= n
  PROVE Cardinality(R) <= n
<1>1. IsFiniteSet(S)
  BY ViewBounds, FS_Subset
<1>2. Cardinality(R) <= Cardinality(S) /\ IsFiniteSet(R)
  BY <1>1, FS_Subset
<1>3. Cardinality(R) \in Nat /\ Cardinality(S) \in Nat
  BY <1>1, <1>2, FS_CardinalityType
<1> QED BY <1>2, <1>3

(* A view in the pool has been met.                                        *)
LEMMA MetView == ASSUME ViewTypes PROVE \A i \in Pool!Slots : Met(view[i])
<1>1. \A i \in Pool!Slots : view[i] \in Nat
  BY ViewBounds DEF ViewTypes
<1> QED BY <1>1 DEF Met

(* The invariant holds at first.                                           *)
LEMMA ViewInitFits == Pool!Init => ViewIInv
<1> SUFFICES ASSUME Pool!Init PROVE ViewIInv
  OBVIOUS
<1> USE DEF Pool!Init
<1>1. ViewTypes
  BY ViewBounds DEF ViewTypes, SlotUses, UpdateSteps
<1>2. view = [i \in Pool!Slots |-> i] /\ queue = {} /\ marked = {} /\ touched = {}
      /\ retired = {} /\ cleared = {} /\ ids = <<>>
  OBVIOUS
<1>3. Cardinality(retired) = 0 /\ Cardinality(cleared) = 0
  BY <1>2, FS_EmptySet
<1>4. ViewsDiffer /\ NewIsNew /\ SnapFits /\ UpdateFits
  BY <1>2, <1>3, ViewBounds DEF ViewsDiffer, NewIsNew, SnapFits, UpdateFits
<1>5. OursIsKnown /\ Pool!OnReleasedViews /\ RetiredRemembered /\ IdsFit
  BY <1>2 DEF OursIsKnown, Pool!OnReleasedViews, RetiredRemembered, Pool!releasing, IdsFit
<1>6. ClearedLedgered
  BY <1>2, ViewBounds DEF ClearedLedgered
<1> QED BY <1>1, <1>4, <1>5, <1>6 DEF ViewIInv

(* The renderer dequeues, or clears a marker.                              *)
LEMMA DrainKeeps == ASSUME ViewIInv, Pool!drains PROVE ViewIInv'
<1> USE DEF Pool!drains, Pool!bridge, Pool!history
<1>1. /\ queue' \subseteq queue /\ marked' \subseteq marked
      /\ UNCHANGED <<view, use, bit, visits, ids, pool, retired, cleared, pc, snap, creations,
                     made, faults, touched, unseen, unnoted>>
  OBVIOUS
<1> HIDE DEF Pool!drains
<1>2. ViewTypes'
  BY <1>1 DEF ViewIInv, ViewTypes
<1>3. ViewsDiffer' /\ NewIsNew' /\ UpdateFits' /\ OursIsKnown' /\ ClearedLedgered' /\ IdsFit'
  BY <1>1 DEF ViewIInv, ViewsDiffer, NewIsNew, Met, UpdateFits, OursIsKnown, ClearedLedgered, IdsFit
<1>4. SnapFits'
  BY <1>1 DEF ViewIInv, SnapFits, Pool!free, Pool!releasing
<1>5. Pool!OnReleasedViews' /\ RetiredRemembered'
  BY <1>1 DEF ViewIInv, Pool!OnReleasedViews, RetiredRemembered, Pool!releasing
<1> QED BY <1>2, <1>3, <1>4, <1>5 DEF ViewIInv

(* The renderer gives a free slot a new view.                              *)
LEMMA ReplaceKeeps == ASSUME ViewIInv, NEW k \in Pool!Slots, NEW v \in Pool!Views, Pool!replaces(k,
  v) PROVE ViewIInv'
<1> USE DEF Pool!replaces, Pool!bridge, Pool!history
<1>1. /\ view' = [view EXCEPT ![k] = v] /\ use[k] = "free" /\ view[k] \notin marked
      /\ UNCHANGED <<use, queue, marked, bit, visits, ids, pool, retired, cleared, pc, snap,
                     creations, made, faults, touched, unseen, unnoted>>
  BY DEF Pool!free
<1>2. \A i \in Pool!Slots : view[i] < v
  BY ViewBounds, ViewsInPool DEF ViewIInv, ViewTypes
<1> HIDE DEF Pool!replaces
<1>3. ViewTypes'
  BY <1>1 DEF ViewIInv, ViewTypes
<1>4. \A i \in Pool!Slots : view'[i] = IF i = k THEN v ELSE view[i]
  BY <1>1 DEF ViewIInv, ViewTypes
<1>5. v \notin queue \union marked \union cleared \union touched /\ bit[v]
  <2>1. \A i \in Pool!Slots : view[i] \in Nat /\ v \in Nat
    BY ViewBounds DEF ViewIInv, ViewTypes
  <2>2. ~Met(v)
    BY <2>1, <1>2 DEF Met
  <2> QED BY <2>2 DEF ViewIInv, NewIsNew
<1>6. ViewsDiffer'
  BY <1>1, <1>2, <1>4, ViewBounds DEF ViewIInv, ViewsDiffer, ViewTypes
<1>7. NewIsNew'
  <2>1. ASSUME NEW w \in Pool!Views, NEW i \in Pool!Slots, w <= view[i] PROVE w <= view'[i]
    <3>1. view[i] \in Nat /\ v \in Nat /\ w \in Nat
      BY ViewBounds DEF ViewIInv, ViewTypes
    <3> QED BY <2>1, <3>1, <1>2, <1>4
  <2>2. \A w \in Pool!Views : Met(w) => Met(w)'
    BY <2>1 DEF Met
  <2> QED BY <2>2, <1>1 DEF ViewIInv, NewIsNew
<1>8. SnapFits'
  BY <1>1, <1>4, <1>5 DEF ViewIInv, SnapFits, Pool!free, Pool!releasing
<1>9. UpdateFits' /\ ClearedLedgered' /\ OursIsKnown' /\ IdsFit'
  BY <1>1, <1>4, <1>5 DEF ViewIInv, UpdateFits, OursIsKnown, ClearedLedgered, IdsFit
<1>10. Pool!OnReleasedViews' /\ RetiredRemembered'
  BY <1>1, <1>4, <1>5 DEF ViewIInv, Pool!OnReleasedViews, RetiredRemembered, Pool!releasing
<1> QED BY <1>3, <1>6, <1>7, <1>8, <1>9, <1>10 DEF ViewIInv

(* An entry of the simulator's begins or ends.                             *)
LEMMA OthersKeep == ASSUME ViewIInv, NEW k \in Pool!Slots, Pool!others(k) PROVE ViewIInv'
<1>1. /\ UNCHANGED <<view, bit, ids, pool, retired, cleared, pc, snap, creations, made, faults,
                     unseen, unnoted>>
      /\ pc = "idle" /\ visits' = visits + 1 /\ visits < MaxOthers
  BY DEF Pool!others, Pool!Released, Pool!bridge
<1>2. \/ /\ use[k] = "free" /\ ~Pool!releasing(view[k]) /\ use' = [use EXCEPT ![k] = "sim"]
         /\ touched' = touched \ {view[k]} /\ UNCHANGED <<queue, marked>>
      \/ /\ use[k] = "sim" /\ use' = [use EXCEPT ![k] = "free"] /\ UNCHANGED touched
         /\ queue' = queue \union {view[k]} /\ marked' = marked \union {view[k]}
  BY DEF Pool!others, Pool!Released, Pool!free
<1>3. ViewTypes'
  <2>1. visits' \in 0..MaxOthers
    BY <1>1, ViewBounds DEF ViewIInv, ViewTypes
  <2>2. view[k] \in Pool!Views
    BY DEF ViewIInv, ViewTypes
  <2> QED BY <1>1, <1>2, <2>1, <2>2 DEF ViewIInv, ViewTypes, SlotUses
<1>4. \A i \in Pool!Slots : i # k => use'[i] = use[i] /\ view[i] # view[k]
  BY <1>2 DEF ViewIInv, ViewTypes, ViewsDiffer
<1>5. ViewsDiffer' /\ SnapFits' /\ UpdateFits' /\ ClearedLedgered'
  BY <1>1 DEF ViewIInv, ViewsDiffer, SnapFits, UpdateFits, ClearedLedgered
<1>6. NewIsNew'
  <2>1. Met(view[k])
    BY MetView DEF ViewIInv
  <2> QED BY <1>1, <1>2, <2>1 DEF ViewIInv, NewIsNew, Met
<1>7. OursIsKnown' /\ IdsFit'
  <2>1. use'[k] # "ours" /\ use[k] # "ours"
    BY <1>2 DEF ViewIInv, ViewTypes
  <2> QED BY <1>1, <1>2, <1>4, <2>1 DEF ViewIInv, OursIsKnown, IdsFit, ViewTypes
<1>8. Pool!OnReleasedViews'
  BY <1>1, <1>2, <1>4 DEF ViewIInv, Pool!OnReleasedViews, ViewTypes, Pool!releasing
<1>9. RetiredRemembered'
  BY <1>1, <1>2 DEF ViewIInv, RetiredRemembered, OursIsKnown
<1> QED BY <1>3, <1>5, <1>6, <1>7, <1>8, <1>9 DEF ViewIInv

(* The steps of an update that leave renderer, entries and cleared bits    *)
(* alone.                                                                  *)
LEMMA RendererStays == ASSUME ViewIInv, UNCHANGED <<Pool!renderer, Pool!history, ids, pool>>,
  ViewTypes', SnapFits', UpdateFits', cleared' = cleared,
     RetiredRemembered'
  PROVE ViewIInv'
<1> USE DEF Pool!renderer, Pool!history
<1>1. ViewsDiffer' /\ NewIsNew' /\ OursIsKnown'
  BY DEF ViewIInv, ViewsDiffer, NewIsNew, Met, OursIsKnown
<1>2. Pool!OnReleasedViews' /\ ClearedLedgered' /\ IdsFit'
  BY DEF ViewIInv, Pool!OnReleasedViews, Pool!releasing, ClearedLedgered, IdsFit
<1> QED BY <1>1, <1>2 DEF ViewIInv

(* An update begins.                                                       *)
LEMMA UpdateStartKeeps == ASSUME ViewIInv, Pool!starts PROVE ViewIInv'
<1> USE DEF Pool!starts, Pool!renderer, Pool!bridge, Pool!history
<1>1. ViewTypes'
  BY DEF ViewIInv, ViewTypes, UpdateSteps
<1>2. SnapFits' /\ UpdateFits' /\ RetiredRemembered'
  BY DEF ViewIInv, SnapFits, UpdateFits, RetiredRemembered, ViewTypes
<1> QED BY <1>1, <1>2, RendererStays

(* A part of the pool is read.                                             *)
LEMMA PoolReadKeeps == ASSUME ViewIInv, Pool!capture PROVE ViewIInv'
<1> USE DEF Pool!capture, Pool!renderer, Pool!bridge, Pool!history
<1>1. ViewTypes'
  BY DEF ViewIInv, ViewTypes, UpdateSteps
<1>2. SnapFits' /\ UpdateFits' /\ RetiredRemembered'
  BY DEF ViewIInv, SnapFits, UpdateFits, RetiredRemembered, ViewTypes, Pool!free, Pool!releasing
<1> QED BY <1>1, <1>2, RendererStays

(* The pool is not ready, or the creation fails.                           *)
LEMMA RefusesKeep == ASSUME ViewIInv, Pool!refuses PROVE ViewIInv'
<1> USE DEF Pool!refuses, Pool!renderer, Pool!bridge, Pool!history
<1>1. ViewTypes'
  BY DEF ViewIInv, ViewTypes, UpdateSteps
<1>2. SnapFits' /\ UpdateFits' /\ RetiredRemembered'
  BY DEF ViewIInv, SnapFits, UpdateFits, RetiredRemembered, ViewTypes, Pool!free, Pool!releasing
<1> QED BY <1>1, <1>2, RendererStays

(* The pool was read: what left it is no longer retired, and the snapshot  *)
(* is what the renderer shows.                                             *)
LEMMA CreationPoolKeeps == ASSUME ViewIInv, Pool!creation_pool PROVE ViewIInv'
<1> USE DEF Pool!renderer, Pool!bridge, Pool!history
<1>1. /\ UNCHANGED <<Pool!renderer, ids, pool, cleared, creations, made, faults, Pool!history>>
      /\ Pool!Capturing
  BY DEF Pool!creation_pool
<1>2. CASE UNCHANGED retired /\ pc' = "idle"
  <2>1. ViewTypes'
    BY <1>1, <1>2 DEF ViewIInv, ViewTypes, UpdateSteps
  <2>2. SnapFits' /\ UpdateFits' /\ RetiredRemembered'
    BY <1>1, <1>2, ViewBounds DEF ViewIInv, SnapFits, UpdateFits, RetiredRemembered, ViewTypes,
          Pool!Capturing
  <2> QED BY <1>1, <2>1, <2>2, RendererStays
<1>3. CASE ~(UNCHANGED retired /\ pc' = "idle")
  <2> DEFINE s == [view |-> trace[1].view, free |-> trace[1].free, marked |-> trace[1].marked,
                   queue |-> trace[2]]
  <2>1. trace = Pool!Observe /\ retired' = Pool!observe(s)
        /\ pc' \in {"idle", "restore", "capacity"} /\ (pc' # "idle" => snap' = s)
    BY <1>3 DEF Pool!creation_pool, Pool!recheck
  <2>2. s = [view |-> view, free |-> {i \in Pool!Slots : Pool!free(i)},
             marked |-> marked \intersect Pool!Range0(view), queue |-> queue]
    BY <2>1, SMT DEF Pool!Observe
  <2>3. s \in PoolSnaps
    BY <2>2, <1>1 DEF PoolSnaps, ViewIInv, ViewTypes
  <2>4. \A v \in retired : (v \in queue \/ (v \in marked /\ \E i \in Pool!Slots : view[i] = v))
        => v \in retired'
    <3>1. \A v : v \in Pool!Range0(view) <=> \E i \in Pool!Slots : v = view[i]
      BY ViewsInPool DEF ViewIInv, ViewTypes
    <3> HIDE DEF s
    <3> QED BY <2>1, <2>2, <3>1 DEF Pool!observe
  <2>5. retired' \subseteq retired
    BY <2>1 DEF Pool!observe
  <2>6. ViewTypes'
    BY <1>1, <2>1, <2>3, <2>5 DEF ViewIInv, ViewTypes, UpdateSteps
  <2>7. Cardinality(retired') <= LedgerSize
    BY <2>5, FewerFit, ViewBounds DEF ViewIInv, UpdateFits, ViewTypes
  <2>8. UpdateFits'
    BY <1>1, <2>1, <2>7, ViewBounds DEF ViewIInv, UpdateFits, ViewTypes, Pool!Capturing
  <2>9. SnapFits'
    <3>1. \A i \in Pool!Slots : view[i] \in Pool!Range0(view)
      BY ViewsInPool DEF ViewIInv, ViewTypes
    <3> HIDE DEF s
    <3> QED BY <1>1, <2>1, <2>2, <3>1 DEF SnapFits, Pool!free
  <2>10. RetiredRemembered'
    BY <1>1, <2>4 DEF ViewIInv, RetiredRemembered
  <2> QED BY <1>1, <2>6, <2>8, <2>9, <2>10, RendererStays
<1> QED BY <1>2, <1>3

(* Cleared bits are given back; what is forgotten has left the pool.       *)
LEMMA RestoreAaKeeps == ASSUME ViewIInv, Pool!restore_cleared_aa PROVE ViewIInv'
<1> DEFINE gone == {v \in cleared : \A i \in Pool!Slots : snap.view[i] # v}
<1>1. /\ UNCHANGED <<view, use, queue, marked, visits, ids, pool, retired, snap, creations, made,
                     Pool!history>>
      /\ pc = "restore" /\ pc' = "capture_again"
  BY DEF Pool!restore_cleared_aa
<1>2. PICK done, written \in SUBSET cleared :
         /\ done \subseteq written /\ bit' = [v \in Pool!Views |-> bit[v] \/ v \in written]
               /\ cleared' = cleared \ (gone \union done)
         /\ faults' \in {faults, faults + 1} /\ (faults' # faults => faults < MaxFaults)
  <2> DEFINE ready == {v \in cleared : \E i \in snap.free : snap.view[i] = v
        /\ ~Pool!Unusable(snap, i)}
  <2>1. PICK done, written \in {ready, {}} :
         /\ done \subseteq written /\ bit' = [v \in Pool!Views |-> bit[v] \/ v \in written]
               /\ cleared' = cleared \ (gone \union done)
         /\ (done # ready => faults < MaxFaults) /\ faults' = IF done # ready THEN faults + 1
               ELSE faults
    BY Zenon DEF Pool!restore_cleared_aa
  <2>2. ready \subseteq cleared
    OBVIOUS
  <2> HIDE DEF ready, gone
  <2> QED BY <2>1, <2>2
<1>3. ViewTypes'
  <2>1. faults' \in 0..MaxFaults
    BY <1>2, ViewBounds DEF ViewIInv, ViewTypes
  <2> QED BY <1>1, <1>2, <2>1 DEF ViewIInv, ViewTypes, UpdateSteps, Pool!history
<1>4. ViewsDiffer' /\ SnapFits' /\ OursIsKnown' /\ Pool!OnReleasedViews' /\ RetiredRemembered'
      /\ IdsFit'
  BY <1>1 DEF ViewIInv, IdsFit, ViewsDiffer, SnapFits, OursIsKnown, Pool!OnReleasedViews,
        RetiredRemembered, Pool!releasing, Pool!history
<1>5. \A v \in Pool!Views : bit[v] => bit'[v]
  BY <1>2
<1>6. NewIsNew'
  BY <1>1, <1>2, <1>5 DEF ViewIInv, NewIsNew, Met, Pool!history
<1>7. UpdateFits'
  <2>1. Cardinality(cleared') <= AaCapacity
    BY <1>2, FewerFit, ViewBounds DEF ViewIInv, UpdateFits, ViewTypes
  <2> QED BY <1>1, <2>1, ViewBounds DEF ViewIInv, UpdateFits, ViewTypes
<1>8. ClearedLedgered'
  <2> SUFFICES ASSUME NEW i \in Pool!Slots, ~bit'[view[i]], view[i] \notin unnoted
        PROVE view[i] \in cleared'
    BY <1>1 DEF ClearedLedgered, Pool!history
  <2>1. ~bit[view[i]] /\ view[i] \in cleared /\ view[i] \notin written
    BY <1>2, <1>5 DEF ViewIInv, ClearedLedgered, ViewTypes
  <2>2. view[i] = snap.view[i]
    BY <1>1, <2>1 DEF ViewIInv, SnapFits
  <2>3. view[i] \notin gone
    BY <2>2
  <2> QED BY <1>2, <2>1, <2>3
<1> QED BY <1>3, <1>4, <1>6, <1>7, <1>8 DEF ViewIInv

(* An entry is created on the first free slot, which is the one that was   *)
(* checked or has a new view.                                              *)
LEMMA ViewCreateKeeps == ASSUME ViewIInv, Pool!create PROVE ViewIInv'
<1> DEFINE c == creations + 1
<1>1. /\ UNCHANGED <<view, queue, marked, bit, visits, retired, cleared, unnoted>>
      /\ pc = "capacity" /\ Pool!creation_available(snap, Pool!required) /\ creations' = c
      /\ made' = (IF creations = 0 THEN made + 1 ELSE made) /\ made' <= MaxPairs
  BY DEF Pool!create
<1>2. PICK i \in Pool!Slots :
       /\ Pool!free(i) /\ \A j \in Pool!Slots : j < i => ~Pool!free(j)
       /\ use' = [use EXCEPT ![i] = "ours"] /\ ids' = Append(ids, i)
             /\ touched' = touched \union {view[i]}
       /\ \/ /\ pc' = "aa" /\ pool' = [pool EXCEPT ![c] = view[i]]
             /\ unseen' = (unseen \union {pool[c]}) \ {0, view[i]} /\ UNCHANGED faults
          \/ /\ pc' = "idle" /\ unseen' = unseen \union {view[i]} /\ UNCHANGED pool
             /\ faults < MaxFaults /\ faults' = faults + 1
  BY <1>1 DEF Pool!create, Pool!Fault
<1>3. creations \in 0..1 /\ c \in 1..2
  BY <1>1 DEF ViewIInv, UpdateFits, ViewTypes
<1> HIDE DEF c
<1>4. ViewTypes'
  <2>1. made' \in 0..MaxPairs /\ faults' \in 0..MaxFaults
    BY <1>1, <1>2, ViewBounds DEF ViewIInv, ViewTypes
  <2>2. view[i] \in Pool!Views /\ ids' \in Seq(Pool!Slots) /\ pool[c] \in Pool!Views \union {0}
    BY <1>2, <1>3 DEF ViewIInv, ViewTypes
  <2>3. unseen' \in SUBSET Pool!Views /\ touched' \in SUBSET Pool!Views /\ pool' \in
        [1..2 -> Pool!Views \union {0}]
    BY <1>2, <2>2, ViewBounds DEF ViewIInv, ViewTypes
  <2>4. use' \in [Pool!Slots -> SlotUses]
    BY <1>2 DEF ViewIInv, ViewTypes, SlotUses
  <2> QED BY <1>1, <1>2, <1>3, <2>1, <2>2, <2>3, <2>4 DEF ViewIInv, ViewTypes, UpdateSteps
<1>5. ~Pool!releasing(view[i])
  <2>1. i \in Pool!First(Pool!required, snap)
    <3>1. snap.free = {j \in Pool!Slots : Pool!free(j)}
      BY <1>1 DEF ViewIInv, SnapFits
    <3>2. {j \in snap.free : j < i} = {}
      BY <1>2, <3>1
    <3>3. Cardinality({j \in snap.free : j < i}) = 0 /\ Pool!required \in {1, 2}
      BY <3>2, FS_EmptySet DEF Pool!required
    <3> QED BY <1>2, <3>1, <3>3, SameSize DEF Pool!First
  <2>2. ~Pool!Unusable(snap, i)
    BY <1>1, <2>1 DEF Pool!creation_available
  <2> QED BY <1>1, <2>2 DEF ViewIInv, SnapFits, Pool!Unusable, Pool!releasing
<1>6. \A j \in Pool!Slots : j # i => use'[j] = use[j] /\ view[j] # view[i]
  BY <1>2 DEF ViewIInv, ViewTypes, ViewsDiffer
<1>7. use[i] = "free" /\ use'[i] = "ours"
  BY <1>2 DEF ViewIInv, ViewTypes, Pool!free
<1>8. ViewsDiffer' /\ ClearedLedgered' /\ SnapFits'
  BY <1>1, <1>2 DEF ViewIInv, ViewsDiffer, ClearedLedgered, SnapFits
<1>9. NewIsNew'
  <2>1. Met(view[i])
    BY MetView DEF ViewIInv
  <2> QED BY <1>1, <1>2, <2>1 DEF ViewIInv, NewIsNew, Met
<1>10. UpdateFits'
  <2>1. Len(ids') = Len(ids) + 1 /\ Len(ids) \in Nat
    BY <1>2 DEF ViewIInv, ViewTypes
  <2> QED BY <1>1, <1>2, <1>3, <2>1 DEF ViewIInv, UpdateFits, c
<1>11. OursIsKnown'
  <2>1. view[i] \in unseen' \/ view[i] = pool'[1] \/ view[i] = pool'[2]
    BY <1>2, <1>3 DEF ViewIInv, ViewTypes
  <2>2. ASSUME NEW j \in Pool!Slots, j # i, use[j] = "ours"
        PROVE view[j] \in unseen' \/ view[j] = pool'[1] \/ view[j] = pool'[2]
    <3>1. view[j] # view[i] /\ view[j] # 0
      BY <1>6, <2>2, ViewBounds DEF ViewIInv, ViewTypes
    <3>2. view[j] \in unseen \/ view[j] = pool[1] \/ view[j] = pool[2]
      BY <2>2 DEF ViewIInv, OursIsKnown
    <3> QED BY <3>1, <3>2, <1>2, <1>3 DEF ViewIInv, ViewTypes
  <2> QED BY <1>1, <1>2, <1>6, <1>7, <2>1, <2>2 DEF ViewIInv, OursIsKnown
<1>12. Pool!OnReleasedViews'
  BY <1>1, <1>5, <1>6 DEF ViewIInv, Pool!OnReleasedViews, Pool!releasing
<1>13. RetiredRemembered'
  <2> SUFFICES ASSUME NEW v \in touched' \ unseen', v \in queue \/ (v \in marked
        /\ \E j \in Pool!Slots : v = view[j])
               PROVE v \in retired \/ v = pool'[1] \/ v = pool'[2]
    BY <1>1 DEF RetiredRemembered
  <2>1. v # view[i] /\ v \in touched /\ v # 0
    BY <1>2, <1>5, ViewBounds DEF Pool!releasing, ViewIInv, ViewTypes
  <2>2. v \notin unseen
    BY <1>2, <2>1
  <2>3. v \in retired \/ v = pool[1] \/ v = pool[2]
    BY <2>1, <2>2 DEF ViewIInv, RetiredRemembered
  <2> QED BY <1>2, <1>3, <2>1, <2>2, <2>3 DEF ViewIInv, ViewTypes
<1>14. IdsFit'
  <2>1. DOMAIN ids' = 1..Len(ids) + 1 /\ DOMAIN ids = 1..Len(ids) /\ Len(ids) \in Nat
    BY <1>2 DEF ViewIInv, ViewTypes
  <2>2. ids'[Len(ids) + 1] = i /\ \A n \in DOMAIN ids : ids'[n] = ids[n] /\ n \in DOMAIN ids'
    BY <1>2, <2>1 DEF ViewIInv, ViewTypes
  <2>3. \A n \in DOMAIN ids : ids[n] # i /\ use'[ids[n]] = "ours" /\ ids[n] \in Pool!Slots
    BY <1>6, <1>7 DEF ViewIInv, IdsFit, ViewTypes
  <2>4. \A n \in DOMAIN ids' : n \in DOMAIN ids \/ n = Len(ids) + 1
    BY <2>1
  <2>5. \A n \in DOMAIN ids' : use'[ids'[n]] = "ours"
    BY <2>2, <2>3, <2>4, <1>7
  <2>6. \A j, n \in DOMAIN ids' : ids'[j] = ids'[n] => j = n
    BY <2>2, <2>3, <2>4 DEF ViewIInv, IdsFit
  <2>7. ASSUME NEW j \in Pool!Slots, use'[j] = "ours" PROVE \E n \in DOMAIN ids' : ids'[n] = j
    <3>1. CASE j = i
      BY <3>1, <2>1, <2>2
    <3>2. CASE j # i
      BY <3>2, <2>2, <2>7, <1>6 DEF ViewIInv, IdsFit
    <3> QED BY <3>1, <3>2
  <2> QED BY <2>5, <2>6, <2>7 DEF IdsFit
<1> QED BY <1>4, <1>8, <1>9, <1>10, <1>11, <1>12, <1>13, <1>14 DEF ViewIInv

(* The bit of the new view is cleared and noted, or that is not known.     *)
LEMMA PrepareAaKeeps == ASSUME ViewIInv, Pool!prepare_owned_view_aa PROVE ViewIInv'
<1> DEFINE v == view[ids[Len(ids)]]
<1>1. /\ UNCHANGED <<view, use, queue, marked, visits, ids, pool, retired, snap, creations, made,
                     touched, unseen>> /\ pc = "aa"
      /\ pc' = "idle" \/ (pc' = "capture" /\ creations = 1)
  BY DEF Pool!prepare_owned_view_aa
<1>2. ids[Len(ids)] \in Pool!Slots /\ v \in Pool!Views /\ Met(v) /\ bit[v] \in BOOLEAN
  <2>1. ids \in Seq(Pool!Slots) /\ Len(ids) \in 1..2
    BY <1>1 DEF ViewIInv, ViewTypes, UpdateFits
  <2>2. ids[Len(ids)] \in Pool!Slots
    BY <2>1
  <2> QED BY <2>2, MetView DEF ViewIInv, ViewTypes
<1>3. /\ bit' \in {bit, [bit EXCEPT ![v] = FALSE]} /\ cleared' \in {cleared, Pool!note(v)}
      /\ faults' \in {faults, faults + 1} /\ (faults' # faults => faults < MaxFaults)
      /\ unnoted \subseteq unnoted' /\ unnoted' \subseteq unnoted \union {v}
      /\ bit' # bit /\ bit[v] => v \in unnoted' \union cleared'
  <2>1. \/ /\ bit' = [bit EXCEPT ![v] = FALSE]
           /\ cleared' = (IF bit[v] THEN Pool!note(v) ELSE cleared)
           /\ unnoted' = (IF bit[v] THEN unnoted \union ({v} \ cleared') ELSE unnoted)
           /\ UNCHANGED faults
        \/ faults < MaxFaults /\ faults' = faults + 1 /\ UNCHANGED <<bit, cleared, unnoted>>
        \/ faults < MaxFaults /\ faults' = faults + 1 /\ bit' = [bit EXCEPT ![v] = FALSE]
             /\ unnoted' = unnoted \union {v} /\ UNCHANGED cleared
    BY Zenon DEF Pool!prepare_owned_view_aa, Pool!Fault
  <2> HIDE DEF v
  <2>2. ASSUME ~bit[v] PROVE [bit EXCEPT ![v] = FALSE] = bit
    BY <2>2, <1>2 DEF ViewIInv, ViewTypes
  <2> QED BY <2>1, <2>2, <1>2
<1> HIDE DEF v
<1>4. /\ cleared' \in SUBSET Pool!Views /\ Cardinality(cleared') <= AaCapacity
      /\ cleared \subseteq cleared' /\ cleared' \subseteq cleared \union {v}
  BY <1>2, <1>3, NoteEffect DEF ViewIInv, UpdateFits, ViewTypes
<1>5. ViewTypes'
  <2>1. faults' \in 0..MaxFaults
    BY <1>3, ViewBounds DEF ViewIInv, ViewTypes
  <2>0. ViewTypes
    BY DEF ViewIInv
  <2>2. bit' \in [Pool!Views -> BOOLEAN] /\ unnoted' \in SUBSET Pool!Views
    <3>1. bit \in [Pool!Views -> BOOLEAN] /\ unnoted \in SUBSET Pool!Views
      BY <2>0 DEF ViewTypes
    <3>2. bit' \in [Pool!Views -> BOOLEAN]
      BY <3>1, <1>2, <1>3
    <3>3. unnoted' \in SUBSET Pool!Views
      BY <3>1, <1>2, <1>3
    <3> QED BY <3>2, <3>3
  <2>3. pc' \in UpdateSteps /\ pc' \notin {"restore", "capacity"}
    BY <1>1 DEF UpdateSteps
  <2>4. UNCHANGED <<view, use, queue, marked, visits, ids, pool, retired, creations, made, touched, unseen>>
        /\ cleared' \in SUBSET Pool!Views
    BY <1>1, <1>4
  <2> QED BY <2>0, <2>1, <2>2, <2>3, <2>4 DEF ViewTypes
<1>6. ViewsDiffer' /\ OursIsKnown' /\ Pool!OnReleasedViews' /\ RetiredRemembered' /\ IdsFit'
  BY <1>1 DEF ViewIInv, IdsFit, ViewsDiffer, OursIsKnown, Pool!OnReleasedViews, RetiredRemembered,
        Pool!releasing
<1>7. SnapFits' /\ UpdateFits'
  BY <1>1, <1>4 DEF ViewIInv, SnapFits, UpdateFits, ViewTypes
<1>8. \A w \in Pool!Views : w # v => bit'[w] = bit[w]
  BY <1>2, <1>3 DEF ViewIInv, ViewTypes
<1>9. NewIsNew'
  BY <1>1, <1>2, <1>4, <1>8 DEF ViewIInv, NewIsNew, Met
<1>10. ClearedLedgered'
  <2> SUFFICES ASSUME NEW i \in Pool!Slots, ~bit'[view[i]], view[i] \notin unnoted'
        PROVE view[i] \in cleared'
    BY <1>1 DEF ClearedLedgered
  <2>1. CASE ~bit[view[i]]
    BY <2>1, <1>3, <1>4 DEF ViewIInv, ClearedLedgered
  <2>2. CASE bit[view[i]]
    BY <2>2, <1>3, <1>8 DEF ViewIInv, ViewTypes
  <2> QED BY <2>1, <2>2
<1> QED BY <1>5, <1>6, <1>7, <1>9, <1>10 DEF ViewIInv

(* An entry ends: its view goes into the release queue.                    *)
LEMMA EndedKeeps == ASSUME ViewIInv, NEW k \in DOMAIN ids, pc = "idle", NEW i \in Pool!Slots,
  i = ids[k],
     use' = [use EXCEPT ![i] = "free"], queue' = queue \union {view[i]},
     marked' = marked \union {view[i]},
     ids' = [j \in 1..Len(ids) - 1 |-> IF j < k THEN ids[j] ELSE ids[j + 1]],
     UNCHANGED <<view, visits, pool, pc, snap, creations, made, Pool!history>>,
     retired' \in SUBSET Pool!Views, retired \subseteq retired',
     Cardinality(retired') <= LedgerSize,
     view[i] \in touched \ unseen =>
       view[i] \in retired' \/ view[i] = pool[1] \/ view[i] = pool[2],
     cleared' \in {cleared, cleared \ {view[i]}}, bit' \in {bit, [bit EXCEPT ![view[i]] = TRUE]},
     cleared' # cleared => bit' = [bit EXCEPT ![view[i]] = TRUE], faults' \in 0..MaxFaults
  PROVE ViewIInv'
<1> DEFINE v == view[i]
<1>1. v \in Pool!Views /\ Met(v) /\ ids \in Seq(Pool!Slots) /\ Len(ids) \in Nat /\ k \in 1..Len(ids)
  BY MetView DEF ViewIInv, ViewTypes
<1>2. ids' \in Seq(Pool!Slots) /\ Len(ids') = Len(ids) - 1
  <2>1. \A j \in 1..Len(ids) - 1 : (IF j < k THEN ids[j] ELSE ids[j + 1]) \in Pool!Slots
    BY <1>1
  <2>2. Len(ids) - 1 \in Nat
    BY <1>1
  <2> QED BY <2>1, <2>2
<1> HIDE DEF v
<1>3. ViewTypes'
  BY <1>1, <1>2 DEF ViewIInv, ViewTypes, SlotUses, Pool!history, v
<1>4. \A w \in Pool!Views : bit[w] => bit'[w]
  BY <1>1 DEF ViewIInv, ViewTypes, v
<1>5. ViewsDiffer' /\ SnapFits'
  BY DEF ViewIInv, ViewsDiffer, SnapFits
<1>6. NewIsNew'
  BY <1>1, <1>4 DEF ViewIInv, NewIsNew, Met, v, Pool!history
<1>7. UpdateFits'
  <2>1. Cardinality(cleared') <= AaCapacity
    BY <1>1, FewerFit, ViewBounds DEF ViewIInv, UpdateFits, ViewTypes
  <2> QED BY <1>1, <1>2, <2>1 DEF ViewIInv, UpdateFits
<1>8. \A j \in Pool!Slots : j # i => use'[j] = use[j] /\ view[j] # v
  BY DEF ViewIInv, ViewTypes, ViewsDiffer, v
<1>9. use'[i] = "free"
  BY DEF ViewIInv, ViewTypes
<1>10. OursIsKnown' /\ Pool!OnReleasedViews'
  BY <1>8, <1>9 DEF ViewIInv, OursIsKnown, Pool!OnReleasedViews, Pool!releasing, Pool!history, v
<1>11. RetiredRemembered'
  <2> SUFFICES ASSUME NEW w \in touched \ unseen, w \in queue' \/ (w \in marked'
        /\ \E j \in Pool!Slots : w = view[j])
               PROVE w \in retired' \/ w = pool[1] \/ w = pool[2]
    BY DEF RetiredRemembered, Pool!history
  <2>1. CASE w = v
    BY <2>1 DEF v
  <2>2. CASE w # v
    BY <2>2 DEF ViewIInv, RetiredRemembered, v
  <2> QED BY <2>1, <2>2
<1>12. ClearedLedgered'
  <2> SUFFICES ASSUME NEW j \in Pool!Slots, ~bit'[view[j]], view[j] \notin unnoted
        PROVE view[j] \in cleared'
    BY DEF ClearedLedgered, Pool!history
  <2>1. view[j] \in cleared
    BY <1>4 DEF ViewIInv, ClearedLedgered, ViewTypes
  <2>2. cleared' # cleared => bit'[v]
    BY <1>1 DEF ViewIInv, ViewTypes, v
  <2> QED BY <2>1, <2>2 DEF v
<1>13. IdsFit'
  <2>1. DOMAIN ids' = 1..Len(ids) - 1 /\ DOMAIN ids = 1..Len(ids)
    BY <1>1, <1>2
  <2>2. \A n \in DOMAIN ids' : ids'[n] = IF n < k THEN ids[n] ELSE ids[n + 1]
    BY <2>1
  <2>3. \A n \in DOMAIN ids : n # k => ids[n] # i /\ ids[n] \in Pool!Slots /\ use'[ids[n]] = "ours"
    BY <1>8 DEF ViewIInv, IdsFit, ViewTypes
  <2>4. \A n \in DOMAIN ids' : use'[ids'[n]] = "ours"
    BY <1>1, <2>1, <2>2, <2>3
  <2>5. \A j, n \in DOMAIN ids' : ids'[j] = ids'[n] => j = n
    <3> SUFFICES ASSUME NEW j \in DOMAIN ids', NEW n \in DOMAIN ids', ids'[j] = ids'[n] PROVE j = n
      OBVIOUS
    <3> DEFINE p == IF j < k THEN j ELSE j + 1
               q == IF n < k THEN n ELSE n + 1
    <3>1. p \in DOMAIN ids /\ q \in DOMAIN ids /\ ids'[j] = ids[p] /\ ids'[n] = ids[q]
      BY <1>1, <2>1, <2>2
    <3>2. p = q
      BY <3>1 DEF ViewIInv, IdsFit
    <3> QED BY <3>2, <1>1, <2>1
  <2>6. ASSUME NEW j \in Pool!Slots, use'[j] = "ours" PROVE \E n \in DOMAIN ids' : ids'[n] = j
    <3>1. j # i /\ use[j] = "ours"
      BY <2>6, <1>8, <1>9
    <3>2. PICK n \in DOMAIN ids : ids[n] = j
      BY <3>1 DEF ViewIInv, IdsFit
    <3>3. n # k
      BY <3>1, <3>2
    <3>4. CASE n < k
      BY <3>2, <3>4, <2>1, <2>2, <1>1
    <3>5. CASE n > k
      <4>1. n - 1 \in DOMAIN ids' /\ ids'[n - 1] = ids[n]
        BY <3>5, <2>1, <2>2, <1>1
      <4> QED BY <4>1, <3>2
    <3> QED BY <3>3, <3>4, <3>5, <2>1, <1>1
  <2> QED BY <2>4, <2>5, <2>6 DEF IdsFit
<1> QED BY <1>3, <1>5, <1>6, <1>7, <1>10, <1>11, <1>12, <1>13 DEF ViewIInv

(* The bridge erases an entry.                                             *)
LEMMA EraseKeeps == ASSUME ViewIInv, NEW k \in 1..2, Pool!erase(k) PROVE ViewIInv'
<1> DEFINE i == ids[k]
           v == view[i]
<1>1. /\ k \in DOMAIN ids /\ pc = "idle" /\ v \in Pool!retain(retired, v)
      /\ retired' = Pool!retain(retired, v)
      /\ use' = [use EXCEPT ![i] = "free"] /\ queue' = queue \union {v}
            /\ marked' = marked \union {v}
      /\ ids' = [j \in 1..Len(ids) - 1 |-> IF j < k THEN ids[j] ELSE ids[j + 1]]
      /\ UNCHANGED <<view, visits, pool, pc, snap, creations, made, Pool!history>>
  BY DEF Pool!erase
<1>2. \/ /\ v \in cleared /\ cleared' = cleared \ {v} /\ bit' = [bit EXCEPT ![v] = TRUE]
         /\ UNCHANGED faults
      \/ faults < MaxFaults /\ faults' = faults + 1 /\ bit' \in {bit, [bit EXCEPT ![v] = TRUE]}
            /\ UNCHANGED cleared
      \/ UNCHANGED <<cleared, bit, faults>>
  BY DEF Pool!erase, Pool!Fault
<1>3. i \in Pool!Slots /\ v \in Pool!Views
  BY <1>1 DEF ViewIInv, ViewTypes
<1>4. faults' \in 0..MaxFaults
  BY <1>2, ViewBounds DEF ViewIInv, ViewTypes
<1> HIDE DEF v, i
<1>5. /\ retired' \in SUBSET Pool!Views /\ retired \subseteq retired' /\ v \in retired'
      /\ Cardinality(retired') <= LedgerSize
  BY <1>1, <1>3, RetainEffect DEF ViewIInv, ViewTypes, UpdateFits
<1>6. /\ cleared' \in {cleared, cleared \ {v}} /\ bit' \in {bit, [bit EXCEPT ![v] = TRUE]}
      /\ cleared' # cleared => bit' = [bit EXCEPT ![v] = TRUE]
  BY <1>2
<1> QED BY <1>1, <1>3, <1>4, <1>5, <1>6, EndedKeeps DEF i, v

(* The simulator erases an entry of the bridge.                            *)
LEMMA TeardownKeeps == ASSUME ViewIInv, NEW k \in 1..2, Pool!teardown(k) PROVE ViewIInv'
<1> DEFINE i == ids[k]
<1>1. /\ k \in DOMAIN ids /\ pc = "idle"
      /\ use' = [use EXCEPT ![i] = "free"] /\ queue' = queue \union {view[i]}
            /\ marked' = marked \union {view[i]}
      /\ ids' = [j \in 1..Len(ids) - 1 |-> IF j < k THEN ids[j] ELSE ids[j + 1]]
      /\ UNCHANGED <<view, bit, visits, pool, retired, cleared, pc, snap, creations, made,
                     faults, Pool!history>>
  BY DEF Pool!teardown, Pool!Released
<1>2. i \in Pool!Slots
  BY <1>1 DEF ViewIInv, ViewTypes
<1>3. /\ retired' \in SUBSET Pool!Views /\ Cardinality(retired') <= LedgerSize
      /\ faults' \in 0..MaxFaults
  BY <1>1 DEF ViewIInv, ViewTypes, UpdateFits
<1> HIDE DEF i
<1>4. view[i] \in touched \ unseen =>
        view[i] \in retired' \/ view[i] = pool[1] \/ view[i] = pool[2]
  BY <1>1, <1>2 DEF ViewIInv, OursIsKnown, IdsFit, i
<1> QED BY <1>1, <1>2, <1>3, <1>4, EndedKeeps DEF i

(* What remains of the pair that is gone moves to the ledger.              *)
LEMMA ClearPairKeeps == ASSUME ViewIInv, Pool!clear_retired_pair PROVE ViewIInv'
<1>1. /\ UNCHANGED <<view, use, queue, marked, bit, visits, ids, cleared, pc, snap, creations,
                     made, faults, touched, unseen, unnoted>>
      /\ retired' = Pool!retain(Pool!retain(retired, pool[1]), pool[2])
      /\ pool' = [j \in 1..2 |-> IF pool[j] \in retired' THEN 0 ELSE pool[j]]
      /\ ids = <<>> /\ pc = "idle"
  BY DEF Pool!clear_retired_pair, Pool!renderer, Pool!history
<1> DEFINE first == Pool!retain(retired, pool[1])
<1>2. first \in SUBSET Pool!Views /\ Cardinality(first) <= LedgerSize /\ retired \subseteq first
  BY RetainEffect DEF ViewIInv, ViewTypes, UpdateFits
<1>3. retired' \in SUBSET Pool!Views /\ Cardinality(retired') <= LedgerSize
      /\ first \subseteq retired'
  <2> HIDE DEF first
  <2>1. retired' = Pool!retain(first, pool[2])
    BY <1>1 DEF first
  <2> QED BY <1>2, <2>1, RetainEffect DEF ViewIInv, ViewTypes
<1> HIDE DEF first
<1>4. \A v : v = pool[1] \/ v = pool[2] => v \in retired' \/ v = pool'[1] \/ v = pool'[2]
  BY <1>1
<1>5. ViewTypes'
  BY <1>1, <1>3 DEF ViewIInv, ViewTypes
<1>6. ViewsDiffer' /\ NewIsNew' /\ SnapFits' /\ Pool!OnReleasedViews' /\ ClearedLedgered' /\ IdsFit'
  BY <1>1 DEF ViewIInv, ViewsDiffer, NewIsNew, Met, SnapFits, Pool!OnReleasedViews, Pool!releasing,
        ClearedLedgered, IdsFit
<1>9. UpdateFits'
  BY <1>1, <1>3 DEF ViewIInv, UpdateFits
<1>7. RetiredRemembered'
  BY <1>1, <1>2, <1>3, <1>4 DEF ViewIInv, RetiredRemembered
<1>8. OursIsKnown'
  BY <1>1 DEF ViewIInv, OursIsKnown, IdsFit
<1> QED BY <1>5, <1>6, <1>7, <1>8, <1>9 DEF ViewIInv

(* The invariant gives the safety.                                         *)
LEMMA ViewConsequences == ViewIInv => Pool!ViewPoolSafety
<1> SUFFICES ASSUME ViewIInv PROVE Pool!ViewPoolSafety
  OBVIOUS
<1>1. \A v : v \in Pool!Range0(view) <=> \E i \in Pool!Slots : v = view[i]
  BY ViewsInPool DEF ViewIInv, ViewTypes
<1>2. \A v \in Pool!Views : v \in Pool!Range0(pool) <=> v = pool[1] \/ v = pool[2]
  BY OwnedPoolViews DEF ViewIInv, ViewTypes
<1>3. Pool!TypeOK
  BY ViewBounds, SameSize DEF Pool!TypeOK, ViewIInv, ViewTypes, UpdateFits, SlotUses
<1>4. Pool!RetiredIsRemembered
  BY <1>1, <1>2 DEF ViewIInv, ViewTypes, Pool!RetiredIsRemembered, RetiredRemembered, Pool!releasing
<1>5. \A v \in Pool!Range0(view) \ unnoted : ~bit[v] => v \in cleared
  BY <1>1 DEF ViewIInv, ClearedLedgered
<1> QED BY <1>3, <1>4, <1>5 DEF Pool!ViewPoolSafety, ViewIInv

(* Every step keeps the invariant.                                         *)
LEMMA ViewStepKeeps == ViewIInv /\ [Pool!Next]_(Pool!vars) => ViewIInv'
<1> SUFFICES ASSUME ViewIInv, [Pool!Next]_(Pool!vars) PROVE ViewIInv'
  OBVIOUS
<1>1. CASE UNCHANGED Pool!vars
  <2>1. ViewTypes' /\ SnapFits' /\ UpdateFits' /\ RetiredRemembered' /\ cleared' = cleared
        /\ UNCHANGED <<Pool!renderer, Pool!history, ids, pool>>
    BY <1>1 DEF Pool!vars, Pool!renderer, Pool!history, ViewIInv, ViewTypes, SnapFits, UpdateFits,
          RetiredRemembered, Pool!free, Pool!releasing
  <2> QED BY <2>1, RendererStays
<1>2. CASE Pool!Next
  BY <1>2, DrainKeeps, UpdateStartKeeps, PoolReadKeeps, CreationPoolKeeps, RestoreAaKeeps,
        RefusesKeep, ViewCreateKeeps,
     PrepareAaKeeps, ClearPairKeeps, OthersKeep, EraseKeeps, TeardownKeeps, ReplaceKeeps
           DEF Pool!Next
<1> QED BY <1>1, <1>2

(* A camera is created on a view the renderer has let go of only, a view   *)
(* on its way out is remembered, and a cleared bit is in the ledger that   *)
(* gives it back; for any pool, ledgers and number of pairs.               *)
THEOREM ViewPoolSafe == Pool!Spec => []ViewPoolSafety
<1>1. ViewIInv => ViewPoolSafety
  BY ViewConsequences DEF ViewPoolSafety
<1> QED BY <1>1, ViewInitFits, ViewStepKeeps, PTL DEF Pool!Spec
=============================================================================
