------------------------- MODULE FrameServiceProofs -------------------------
(***************************************************************************)
(* Proofs about FrameService, for any number of packets, formats, profiles,*)
(* captures and changes: a lease is held in one place until it is given    *)
(* back, nothing the GPU reads is captured into again, what is offered is  *)
(* what was committed, and no composition shows an old frame.  And about   *)
(* MemoryProof, for any size of memory, number of proofs and of changes.   *)
(***************************************************************************)
EXTENDS MCMemory, Sequences, FiniteSetTheorems, WellFoundedInduction, TLAPS

States  == {"free", "recorded", "ready", "leased", "consuming", "quarantined"}
Frame   == [state : States, feed : Feeds, order : Nat, epoch : Nat, session : Nat, until : Nat]
Owner   == [active : BOOLEAN, session_active : BOOLEAN, generation : Nat, failed : BOOLEAN]
Match   == [order : Nat, epoch : Nat, session : Nat]
Shown   == [Feeds -> Nat]

(* Every variable a proof looks into, with its type.  Of the device, the   *)
(* configuration and the snapshot only the fields that are compared.       *)
Types ==
  /\ scene \in Nat /\ packet \in [Packets -> Frame] /\ last_signal \in Nat /\ owner \in Owner
  /\ pc \in {"idle", "admit", "queue", "compose"} /\ incoming \subseteq Packets /\ (pc # "admit" => incoming = {})
  /\ pending \in [Feeds -> SUBSET Packets] /\ newest \in Shown /\ composed \in Shown
  /\ committed \in [Feeds -> Match] /\ patches \in [Keys -> SUBSET Shown]
  /\ reading \subseteq Packets /\ changes \in 0..MaxChanges
  /\ owner.generation <= changes + 1
  /\ queue_config.camera => queue_config.format \in Formats

(* The device of the runtime.                                              *)
Device == [initialized : BOOLEAN, session_active : BOOLEAN, generation : Nat, failed : BOOLEAN, output : BOOLEAN,
           busy : Nat, calibrated : BOOLEAN, patch_profile : Profiles]

DeviceFits ==
  item \in Device /\ item.busy <= last_signal /\ item.generation <= changes + 1

(* The timeline orders the frames: no two have the same value.             *)
OrdersAreOwn ==
  /\ \A p \in Packets : packet[p].order <= last_signal
  /\ \A p, q \in Packets :
       packet[p].state # "free" /\ packet[q].state # "free" /\ packet[p].order = packet[q].order => p = q

(* A pending frame is of its feed and of the session, is the newest one of *)
(* that feed and, while the device works, newer than all that was composed.*)
PendingIsNewest ==
  /\ \A f \in Feeds : composed[f] <= newest[f]
  /\ \A f \in Feeds : \A p \in pending[f] :
       /\ packet[p].feed = f /\ packet[p].order = newest[f]
       /\ packet[p].session = item.generation
       /\ ~item.failed => composed[f] < packet[p].order
  /\ pc = "compose" => ~item.failed

(* Until the GPU is done, what it reads is leased or waits for it; what it *)
(* was given without a fence stays out of use.                             *)
ReadingIsCovered ==
  \A p \in reading :
    \/ packet[p].state = "quarantined"
    \/ item.busy # 0 /\ packet[p].state \in {"leased", "consuming"}

(* A buffer is empty, not yet drawn, or shows the committed composition.   *)
PatchesAreCommitted ==
  /\ \A f \in Feeds : committed[f].epoch # 0 => committed[f].session = item.generation
  /\ (\A f \in Feeds : committed[f].epoch # 0) =>
       \A k \in Keys : patches[k] \in {{}, {NoPair}, {[f \in Feeds |-> committed[f].order]}}

(* The snapshot goes with every change of what it was made from.           *)
SnapshotIsCurrent ==
  /\ queue_snapshot.generation # 0 => /\ queue_snapshot.generation = queue_config.generation
                                      /\ queue_snapshot.profile = item.patch_profile
  /\ queue_snapshot.camera =>
       /\ \A f \in Feeds : queue_snapshot.shows[f] = committed[f].order /\ committed[f].session = item.generation
       /\ committed[0].epoch = committed[1].epoch

(* The parts about packets, and all of it.                                 *)
PacketsFit == OrdersAreOwn /\ LeasesAreHeld /\ PendingIsNewest /\ ReadingIsCovered

IInv == Types /\ DeviceFits /\ PacketsFit /\ PatchesAreCommitted /\ SnapshotIsCurrent
-----------------------------------------------------------------------------
(* What may become of the table of packets: a packet that is not free      *)
(* afterwards still holds the frame it held.                               *)
Follows(table, new) ==
  /\ new \in [Packets -> Frame]
  /\ \A p \in Packets :
       /\ new[p].order <= table[p].order
       /\ new[p].state # "free" =>
            /\ table[p].state # "free"
            /\ new[p].feed = table[p].feed /\ new[p].order = table[p].order
            /\ new[p].epoch = table[p].epoch /\ new[p].session = table[p].session

LEMMA FollowsOn ==
  ASSUME NEW a \in [Packets -> Frame], NEW b, NEW c, Follows(a, b), Follows(b, c)
  PROVE  Follows(a, c)
BY DEF Follows, Frame

LEMMA FollowsItself ==
  ASSUME NEW a \in [Packets -> Frame]
  PROVE  Follows(a, a)
BY DEF Follows, Frame

LEMMA EmptyFrame == Empty \in Frame /\ Empty.state = "free" /\ Empty.order = 0
BY DEF Empty, Frame, States, Feeds

(* A lease that is given back is free when the timeline has passed, and    *)
(* waits for it otherwise; nothing else changes.                           *)
LEMMA ConsumeEffect ==
  ASSUME NEW table \in [Packets -> Frame], NEW set, NEW v \in Nat
  PROVE  /\ Follows(table, Consume(table, set, v))
         /\ \A p \in Packets :
              LET n == Consume(table, set, v)[p].state
              IN  /\ p \notin set \/ table[p].state # "leased" => Consume(table, set, v)[p] = table[p]
                  /\ p \in set /\ table[p].state = "leased" => n \in {"free", "consuming"} /\ (~(v <= done) => n = "consuming")
<1> DEFINE new == Consume(table, set, v)
<1>1. ASSUME NEW p \in Packets
      PROVE  /\ new[p] \in Frame
             /\ p \notin set \/ table[p].state # "leased" => new[p] = table[p]
             /\ p \in set /\ table[p].state = "leased" => \/ new[p] = Empty /\ v <= done
                                                          \/ ~(v <= done) /\ new[p] = [table[p] EXCEPT !.state = "consuming", !.until = v]
  <2>1. table[p] \in Frame /\ [table[p] EXCEPT !.state = "consuming", !.until = v] \in Frame
    <3>1. ASSUME NEW r \in Frame PROVE [r EXCEPT !.state = "consuming", !.until = v] \in Frame
      BY DEF Frame, States
    <3> QED BY <3>1
  <2>2. new[p] = IF p \in set /\ table[p].state = "leased"
                   THEN IF v <= done THEN Empty ELSE [table[p] EXCEPT !.state = "consuming", !.until = v]
                   ELSE table[p]
    BY Zenon DEF Consume
  <2> QED BY <2>1, <2>2, EmptyFrame, Zenon
<1>2. ASSUME NEW r \in Frame
      PROVE  LET n == [r EXCEPT !.state = "consuming", !.until = v]
             IN  n.state = "consuming" /\ n.feed = r.feed /\ n.order = r.order /\ n.epoch = r.epoch /\ n.session = r.session
  BY DEF Frame
<1>3. \A r \in Frame : r.order \in Nat
  BY DEF Frame
<1>4. new \in [Packets -> Frame]
  BY <1>1 DEF Consume
<1> HIDE DEF new
<1>5. ASSUME NEW p \in Packets
      PROVE  /\ new[p].order <= table[p].order
             /\ new[p].state # "free" =>
                  /\ table[p].state # "free"
                  /\ new[p].feed = table[p].feed /\ new[p].order = table[p].order
                  /\ new[p].epoch = table[p].epoch /\ new[p].session = table[p].session
             /\ p \in set /\ table[p].state = "leased" =>
                  new[p].state \in {"free", "consuming"} /\ (~(v <= done) => new[p].state = "consuming")
  <2>1. table[p] \in Frame
    OBVIOUS
  <2>2. CASE new[p] = table[p] /\ (p \notin set \/ table[p].state # "leased")
    BY <2>1, <2>2, <1>3
  <2>3. CASE new[p] = Empty /\ v <= done
    BY <2>1, <2>3, <1>3, EmptyFrame
  <2>4. CASE /\ new[p] = [table[p] EXCEPT !.state = "consuming", !.until = v]
             /\ p \in set /\ table[p].state = "leased"
    BY <2>1, <2>4, <1>2, <1>3
  <2> QED BY <1>1, <2>2, <2>3, <2>4
<1> QED BY <1>1, <1>4, <1>5 DEF new, Follows

LEMMA QuarantinedEffect ==
  ASSUME NEW table \in [Packets -> Frame]
  PROVE  /\ Follows(table, Quarantined(table))
         /\ \A p \in Packets : Quarantined(table)[p].state = IF table[p].state = "free" THEN "free" ELSE "quarantined"
<1>1. ASSUME NEW r \in Frame
      PROVE  LET n == [r EXCEPT !.state = "quarantined"]
             IN  /\ n \in Frame /\ n.state = "quarantined" /\ n.feed = r.feed /\ n.order = r.order
                 /\ n.epoch = r.epoch /\ n.session = r.session
  BY DEF Frame, States
<1>2. \A r \in Frame : r.order \in Nat
  BY DEF Frame
<1>3. \A p \in Packets : table[p] \in Frame
  OBVIOUS
<1>4. Quarantined(table) \in [Packets -> Frame]
  BY <1>1, <1>3 DEF Quarantined
<1>5. \A p \in Packets :
        Quarantined(table)[p] = IF table[p].state = "free" THEN table[p] ELSE [table[p] EXCEPT !.state = "quarantined"]
  BY DEF Quarantined
<1>6. ASSUME NEW p \in Packets
      PROVE  LET n == Quarantined(table)[p]
             IN  /\ n.order <= table[p].order /\ n.feed = table[p].feed /\ n.order = table[p].order
                 /\ n.epoch = table[p].epoch /\ n.session = table[p].session
                 /\ n.state = IF table[p].state = "free" THEN "free" ELSE "quarantined"
  <2>0. table[p] \in Frame /\ table[p].order \in Nat /\ table[p].order <= table[p].order
    BY <1>2
  <2>1. CASE table[p].state = "free"
    <3>1. Quarantined(table)[p] = table[p]
      BY <1>5, <2>1
    <3> QED BY <2>0, <2>1, <3>1, Zenon
  <2>2. CASE table[p].state # "free"
    <3>1. Quarantined(table)[p] = [table[p] EXCEPT !.state = "quarantined"]
      BY <1>5, <2>2
    <3> QED BY <1>1, <2>0, <2>2, <3>1, Zenon
  <2> QED BY <2>1, <2>2
<1> QED BY <1>4, <1>6 DEF Follows

(* A table that follows keeps the orders apart.                            *)
LEMMA OrdersKept ==
  ASSUME Types, OrdersAreOwn, Follows(packet, packet'), last_signal' \in {last_signal, last_signal + 1}
  PROVE  OrdersAreOwn'
<1>1. last_signal \in Nat /\ \A p \in Packets : packet[p].order \in Nat /\ packet'[p].order \in Nat
  BY DEF Types, Frame, Follows
<1> QED BY <1>1 DEF OrdersAreOwn, Follows

(* A step that leaves packets, frames and readings alone.                  *)
LEMMA AfterStill ==
  ASSUME PacketsFit, UNCHANGED <<packet, pending, newest, composed, reading, last_signal, incoming>>,
         item'.generation = item.generation, item'.busy = item.busy, item.failed => item'.failed,
         pc' = "compose" => ~item'.failed
  PROVE  PacketsFit'
<1>1. Held' = Held
  BY DEF Held
<1> QED BY <1>1 DEF PacketsFit, OrdersAreOwn, LeasesAreHeld, PendingIsNewest, ReadingIsCovered

(* A step that gives some of the held frames back.                         *)
LEMMA AfterDrop ==
  ASSUME Types, DeviceFits, PacketsFit, incoming = {}, incoming' = {},
         pending' \in [Feeds -> SUBSET Packets], \A f \in Feeds : pending'[f] \subseteq pending[f],
         packet' = discard_frame(Held \ (pending'[0] \cup pending'[1])),
         UNCHANGED <<newest, composed, reading, last_signal>>,
         item'.generation = item.generation \/ pending' = NoFrames,
         item'.busy = item.busy, item.failed => item'.failed, pc' # "compose"
  PROVE  packet' \in [Packets -> Frame] /\ PacketsFit'
<1> DEFINE gone == Held \ (pending'[0] \cup pending'[1])
<1>0. packet \in [Packets -> Frame] /\ last_signal \in Nat
  BY DEF Types
<1>1. packet' = Consume(packet, gone, last_signal)
  BY DEF discard_frame
<1>2. /\ Follows(packet, packet')
      /\ \A p \in Packets :
           /\ p \notin gone \/ packet[p].state # "leased" => packet'[p] = packet[p]
           /\ p \in gone /\ packet[p].state = "leased" =>
                packet'[p].state \in {"free", "consuming"} /\ (~(last_signal <= done) => packet'[p].state = "consuming")
  <2> HIDE DEF gone
  <2>1. Follows(packet, Consume(packet, gone, last_signal))
    BY <1>0, ConsumeEffect
  <2>2. ASSUME NEW p \in Packets
        PROVE  LET n == Consume(packet, gone, last_signal)[p]
               IN  /\ p \notin gone \/ packet[p].state # "leased" => n = packet[p]
                   /\ p \in gone /\ packet[p].state = "leased" =>
                        n.state \in {"free", "consuming"} /\ (~(last_signal <= done) => n.state = "consuming")
    BY <1>0, ConsumeEffect
  <2> QED BY <1>1, <2>1, <2>2
<1>3. OrdersAreOwn'
  BY <1>2, OrdersKept DEF PacketsFit
<1>4. /\ pending'[0] \subseteq pending[0] /\ pending'[1] \subseteq pending[1]
      /\ Held \subseteq Packets /\ Held' \subseteq Packets /\ Held' = Held \ gone
  <2>1. 0 \in Feeds /\ 1 \in Feeds
    BY DEF Feeds
  <2>2. pending[0] \subseteq Packets /\ pending[1] \subseteq Packets
    BY <2>1 DEF Types
  <2>3. pending'[0] \subseteq pending[0] /\ pending'[1] \subseteq pending[1]
    BY <2>1
  <2> QED BY <2>2, <2>3 DEF Held
<1>5. LeasesAreHeld'
  <2>1. \A p \in Packets : packet'[p].state = "leased" => p \in Held'
    BY <1>2, <1>4 DEF PacketsFit, LeasesAreHeld
  <2>2. \A p \in Held' : packet'[p].state \in {"leased", "quarantined"}
    BY <1>2, <1>4 DEF PacketsFit, LeasesAreHeld
  <2> HIDE DEF gone
  <2> QED BY <1>4, <2>1, <2>2 DEF PacketsFit, LeasesAreHeld
<1>6. PendingIsNewest'
  <2>1. ASSUME NEW f \in Feeds, NEW p \in pending'[f]
        PROVE  p \in Packets /\ p \in pending[f] /\ packet'[p] = packet[p] /\ item'.generation = item.generation
    <3>1. p \in pending[f] /\ p \in Packets
      BY <2>1 DEF Types
    <3>2. p \notin gone
      BY <2>1 DEF Feeds
    <3>3. pending' # NoFrames
      BY <2>1 DEF NoFrames
    <3> HIDE DEF gone
    <3>4. packet'[p] = packet[p]
      BY <1>2, <3>1, <3>2
    <3> QED BY <3>1, <3>3, <3>4
  <2> HIDE DEF gone
  <2>2. /\ \A f \in Feeds : composed[f] <= newest[f]
        /\ \A f \in Feeds : \A p \in pending[f] :
             /\ packet[p].feed = f /\ packet[p].order = newest[f] /\ packet[p].session = item.generation
             /\ ~item.failed => composed[f] < packet[p].order
    BY DEF PacketsFit, PendingIsNewest
  <2>3. ASSUME NEW f \in Feeds, NEW p \in pending'[f]
        PROVE  /\ packet'[p].feed = f /\ packet'[p].order = newest'[f] /\ packet'[p].session = item'.generation
               /\ ~item'.failed => composed'[f] < packet'[p].order
    <3>1. p \in pending[f] /\ packet'[p] = packet[p] /\ item'.generation = item.generation
      BY <2>1, <2>3
    <3>2. newest'[f] = newest[f] /\ composed'[f] = composed[f] /\ (~item'.failed => ~item.failed)
      OBVIOUS
    <3>3. /\ packet[p].feed = f /\ packet[p].order = newest[f] /\ packet[p].session = item.generation
          /\ ~item.failed => composed[f] < packet[p].order
      BY <2>2, <2>3, <3>1
    <3>4. packet'[p].feed = f /\ packet'[p].order = newest'[f] /\ packet'[p].session = item'.generation
      BY <3>1, <3>2, <3>3
    <3>5. ~item'.failed => composed'[f] < packet'[p].order
      BY <3>1, <3>2, <3>3
    <3> QED BY <3>4, <3>5
  <2>4. /\ \A f \in Feeds : composed'[f] <= newest'[f]
        /\ pc' = "compose" => ~item'.failed
    BY <2>2 DEF PacketsFit, PendingIsNewest
  <2> QED BY <2>3, <2>4 DEF PendingIsNewest
<1>7. ReadingIsCovered'
  <2>1. item.busy # 0 => ~(last_signal <= done)
    BY <1>0 DEF DeviceFits, Device, done
  <2>2. \A p \in reading : p \in Packets
    BY DEF Types
  <2> HIDE DEF gone
  <2> QED BY <1>2, <2>1, <2>2 DEF PacketsFit, ReadingIsCovered
<1> QED BY <1>2, <1>3, <1>5, <1>6, <1>7 DEF PacketsFit, Follows

(* A step that takes every packet that is out of use for good.             *)
LEMMA AfterQuarantine ==
  ASSUME Types, PacketsFit, packet' = Quarantined(packet),
         UNCHANGED <<pending, newest, composed, reading, last_signal, incoming>>,
         item'.generation = item.generation, item'.busy = item.busy, item.failed => item'.failed,
         pc' = "compose" => ~item'.failed
  PROVE  packet' \in [Packets -> Frame] /\ PacketsFit'
<1>0. packet \in [Packets -> Frame]
  BY DEF Types
<1>1. /\ Follows(packet, packet')
      /\ \A p \in Packets : packet'[p].state = IF packet[p].state = "free" THEN "free" ELSE "quarantined"
  BY <1>0, QuarantinedEffect
<1>2. OrdersAreOwn'
  BY <1>1, OrdersKept DEF PacketsFit
<1>3. Held' = Held /\ Held \subseteq Packets /\ incoming \subseteq Packets /\ reading \subseteq Packets
      /\ \A f \in Feeds : pending[f] \subseteq Held
  BY DEF Held, Types, Feeds
<1>4. \A p \in incoming \cup Held : packet[p].state # "free" /\ packet'[p].state = "quarantined"
  BY <1>1, <1>3 DEF PacketsFit, LeasesAreHeld
<1>5. LeasesAreHeld'
  BY <1>1, <1>3, <1>4 DEF PacketsFit, LeasesAreHeld
<1>6. PendingIsNewest'
  BY <1>1, <1>3, <1>4 DEF Follows, PacketsFit, PendingIsNewest
<1>7. ReadingIsCovered'
  BY <1>1, <1>3 DEF PacketsFit, ReadingIsCovered
<1> QED BY <1>1, <1>2, <1>5, <1>6, <1>7 DEF PacketsFit, Follows
-----------------------------------------------------------------------------
(* What publish_queue_patches publishes is of the configuration, of the    *)
(* profile and, with a camera, of the composition it was given.            *)
Publishable(it, shown, buffers) ==
  /\ it.patch_profile \in Profiles /\ (queue_config.camera => queue_config.format \in Formats)
  /\ \A f \in Feeds : shown[f].epoch # 0 => shown[f].session = it.generation
  /\ (\A f \in Feeds : shown[f].epoch # 0) =>
       \A k \in Keys : buffers[k] \in {{}, {NoPair}, {[f \in Feeds |-> shown[f].order]}}

Current(s, it, shown) ==
  /\ s.generation # 0 => s.generation = queue_config.generation /\ s.profile = it.patch_profile
  /\ s.camera => /\ \A f \in Feeds : s.shows[f] = shown[f].order /\ shown[f].session = it.generation
                 /\ shown[0].epoch = shown[1].epoch

LEMMA PublishedFits ==
  ASSUME NEW it, NEW shown, NEW buffers, Publishable(it, shown, buffers)
  PROVE  Current(Published(it, shown, buffers), it, shown)
<1> USE DEF Publishable, Current
<1> DEFINE c   == queue_config
           buf == buffers[<<it.patch_profile, c.format>>]
           cam == c.camera /\ it.output /\ (\A f \in Feeds : is_current(shown[f].epoch)) /\ buf \notin {{}, {NoPair}}
           sh  == IF c.camera /\ Cardinality(buf) = 1 THEN CHOOSE b \in buf : TRUE ELSE NoPair
           s   == Published(it, shown, buffers)
<1>0. NoPatches.generation = 0 /\ ~NoPatches.camera
  BY DEF NoPatches
<1>1. \/ s = NoPatches
      \/ /\ c.profile = it.patch_profile
         /\ s = [generation |-> c.generation, profile |-> c.profile, camera |-> cam, shows |-> sh,
                 calibration |-> ~c.camera /\ it.calibrated]
  BY DEF Published
<1>2. ASSUME cam
      PROVE  /\ \A f \in Feeds : sh[f] = shown[f].order /\ shown[f].session = it.generation
             /\ shown[0].epoch = shown[1].epoch
  <2>1. /\ c.camera /\ \A f \in Feeds : shown[f].epoch # 0 /\ shown[f].epoch = scene
    BY <1>2 DEF is_current
  <2>2. <<it.patch_profile, c.format>> \in Keys
    BY <2>1 DEF Keys
  <2>3. buf = {[f \in Feeds |-> shown[f].order]}
    BY <1>2, <2>1, <2>2
  <2>4. Cardinality({[f \in Feeds |-> shown[f].order]}) = 1
    BY FS_Singleton
  <2>5. sh = [f \in Feeds |-> shown[f].order]
    BY <2>1, <2>3, <2>4
  <2>6. 0 \in Feeds /\ 1 \in Feeds
    BY DEF Feeds
  <2> QED BY <2>1, <2>5, <2>6
<1> HIDE DEF cam, sh, s, buf
<1>3. CASE s = NoPatches
  BY <1>0, <1>3 DEF s
<1>4. CASE /\ c.profile = it.patch_profile
           /\ s = [generation |-> c.generation, profile |-> c.profile, camera |-> cam, shows |-> sh,
                   calibration |-> ~c.camera /\ it.calibrated]
  <2>1. s.generation = c.generation /\ s.profile = c.profile /\ s.shows = sh /\ (s.camera => cam)
    BY <1>4
  <2> QED BY <1>2, <1>4, <2>1 DEF s
<1> QED BY <1>1, <1>3, <1>4
-----------------------------------------------------------------------------
(* The records a step writes, field by field.                              *)
LEMMA DeviceSet ==
  ASSUME NEW r \in Device
  PROVE  /\ LET d == [r EXCEPT !.failed = TRUE]
            IN  d \in Device /\ d.failed /\ d.generation = r.generation /\ d.busy = r.busy /\ d.patch_profile = r.patch_profile
         /\ \A x \in BOOLEAN : LET d == [r EXCEPT !.output = x]
            IN  /\ d \in Device /\ d.failed = r.failed /\ d.generation = r.generation /\ d.busy = r.busy
                /\ d.patch_profile = r.patch_profile /\ d.output = x
         /\ LET d == [r EXCEPT !.calibrated = TRUE]
            IN  /\ d \in Device /\ d.failed = r.failed /\ d.generation = r.generation /\ d.busy = r.busy
                /\ d.patch_profile = r.patch_profile
         /\ LET d == [r EXCEPT !.session_active = TRUE]
            IN  /\ d \in Device /\ d.failed = r.failed /\ d.generation = r.generation /\ d.busy = r.busy
                /\ d.patch_profile = r.patch_profile
         /\ LET d == [r EXCEPT !.failed = TRUE, !.session_active = FALSE, !.output = FALSE]
            IN  d \in Device /\ d.failed /\ d.generation = r.generation /\ d.busy = r.busy /\ d.patch_profile = r.patch_profile
         /\ \A n \in Nat :
              /\ LET d == [r EXCEPT !.busy = n]
                 IN  /\ d \in Device /\ d.failed = r.failed /\ d.generation = r.generation /\ d.busy = n
                     /\ d.patch_profile = r.patch_profile
              /\ LET d == [r EXCEPT !.session_active = FALSE, !.output = FALSE, !.generation = n]
                 IN  d \in Device /\ d.failed = r.failed /\ d.generation = n /\ d.busy = r.busy
              /\ LET d == [r EXCEPT !.failed = TRUE, !.busy = n]
                 IN  d \in Device /\ d.failed /\ d.generation = r.generation /\ d.busy = n /\ d.patch_profile = r.patch_profile
              /\ LET d == [r EXCEPT !.output = TRUE, !.busy = n]
                 IN  /\ d \in Device /\ d.failed = r.failed /\ d.generation = r.generation /\ d.busy = n
                     /\ d.patch_profile = r.patch_profile /\ d.output
BY Zenon DEF Device

LEMMA DevicePrepared ==
  ASSUME NEW r \in Device, NEW x \in BOOLEAN
  PROVE  LET d == [r EXCEPT !.initialized = x, !.failed = ~x]
         IN  /\ d \in Device /\ d.generation = r.generation /\ d.busy = r.busy
             /\ d.patch_profile = r.patch_profile
<1>1. (~x) \in BOOLEAN
  BY Zenon
<1> QED BY <1>1, Zenon DEF Device

LEMMA DeviceShows ==
  ASSUME NEW r \in Device, NEW x \in BOOLEAN
  PROVE  LET d == [r EXCEPT !.output = x]
         IN  /\ d \in Device /\ d.generation = r.generation /\ d.busy = r.busy
             /\ d.patch_profile = r.patch_profile
BY Zenon DEF Device

LEMMA DeviceRetargeted ==
  ASSUME NEW r \in Device, NEW x \in BOOLEAN, NEW who \in Profiles
  PROVE  LET d == [r EXCEPT !.patch_profile = who, !.output = x]
         IN  d \in Device /\ d.failed = r.failed /\ d.generation = r.generation /\ d.busy = r.busy
BY Zenon DEF Device

LEMMA OwnerSet ==
  ASSUME NEW r \in Owner
  PROVE  /\ \A x \in BOOLEAN : LET o == [r EXCEPT !.failed = x] IN o \in Owner /\ o.generation = r.generation
         /\ LET o == [r EXCEPT !.session_active = TRUE] IN o \in Owner /\ o.generation = r.generation
         /\ \A n \in Nat : LET o == [r EXCEPT !.session_active = FALSE, !.generation = n] IN o \in Owner /\ o.generation = n
         /\ LET o == [r EXCEPT !.active = FALSE, !.failed = TRUE] IN o \in Owner /\ o.generation = r.generation
BY Zenon DEF Owner

LEMMA InitIInv ==
  ASSUME FrameServiceAssumption, Init
  PROVE  IInv
<1>1. Types
  <2>1. Empty \in Frame /\ owner \in Owner
    BY EmptyFrame DEF Init, Owner
  <2>2. pending \in [Feeds -> SUBSET Packets] /\ newest \in Shown /\ composed \in Shown /\ committed \in [Feeds -> Match]
        /\ patches \in [Keys -> SUBSET Shown]
    BY DEF Init, NoFrames, NoPair, NoMatch, Shown, Match
  <2> QED BY <2>1, <2>2 DEF Init, Types, NoConfig, FrameServiceAssumption
<1>2. DeviceFits
  BY DEF Init, DeviceFits, Device, FrameServiceAssumption
<1>3. PacketsFit
  BY EmptyFrame DEF Init, PacketsFit, OrdersAreOwn, LeasesAreHeld, PendingIsNewest, ReadingIsCovered, Held, NoFrames, NoPair,
     Empty, Feeds
<1>4. PatchesAreCommitted
  BY DEF Init, PatchesAreCommitted, NoMatch
<1>5. SnapshotIsCurrent
  BY DEF Init, SnapshotIsCurrent, NoPatches
<1> QED BY <1>1, <1>2, <1>3, <1>4, <1>5 DEF IInv

LEMMA RestStays ==
  ASSUME PatchesAreCommitted, SnapshotIsCurrent, UNCHANGED committed, item'.generation = item.generation,
         UNCHANGED patches,
         \/ queue_snapshot' = NoPatches
         \/ UNCHANGED <<queue_snapshot, queue_config>> /\ item'.patch_profile = item.patch_profile
  PROVE  PatchesAreCommitted' /\ SnapshotIsCurrent'
<1>1. PatchesAreCommitted'
  BY DEF PatchesAreCommitted
<1>2. CASE queue_snapshot' = NoPatches
  BY <1>1, <1>2 DEF SnapshotIsCurrent, NoPatches
<1>3. CASE UNCHANGED <<queue_snapshot, queue_config>> /\ item'.patch_profile = item.patch_profile
  BY <1>1, <1>3 DEF SnapshotIsCurrent
<1> QED BY <1>2, <1>3

(* Steps that move no frame.                                               *)
LEMMA QuietStep ==
  ASSUME FrameServiceAssumption, IInv,
         \/ first_scene \/ scene_changes \/ compose_deferred \/ compose_refused(FALSE) \/ prepare
         \/ configure_queue_patches \/ resume_session
         \/ \E profile \in Profiles : set_patch_profile(profile)
  PROVE  IInv'
<1> USE DEF runtime, bounds, Between, Changing
<1>0. Types /\ DeviceFits /\ PacketsFit /\ PatchesAreCommitted /\ SnapshotIsCurrent /\ MaxChanges \in Nat
  BY DEF IInv, FrameServiceAssumption
<1>i. item \in Device /\ owner \in Owner
  BY <1>0 DEF DeviceFits, Types
<1>1. CASE first_scene \/ scene_changes \/ compose_deferred
  <2>1. /\ UNCHANGED <<packet, last_signal, owner, incoming, runtime, reading, composed>>
        /\ scene' \in Nat /\ changes' \in {changes, changes + 1} /\ changes' \in 0..MaxChanges
        /\ pc' = pc \/ (pc = "compose" /\ pc' = "idle")
    <3>0. changes \in 0..MaxChanges /\ scene \in Nat
      BY <1>0 DEF Types
    <3>1. CASE first_scene
      BY <1>0, <3>0, <3>1 DEF first_scene
    <3>2. CASE scene_changes
      BY <1>0, <3>0, <3>2 DEF scene_changes
    <3>3. CASE compose_deferred
      BY <1>0, <3>0, <3>3 DEF compose_deferred, Composable
    <3> QED BY <1>1, <3>1, <3>2, <3>3
  <2>2. Types'
    BY <1>0, <2>1 DEF Types, Owner
  <2>3. DeviceFits'
    BY <1>0, <2>1 DEF DeviceFits, Device, Types
  <2>4. pc' = "compose" => ~item'.failed
    BY <1>0, <2>1 DEF PacketsFit, PendingIsNewest
  <2>5. PacketsFit'
    BY <1>0, <2>1, <2>4, AfterStill
  <2> QED BY <1>0, <2>1, <2>2, <2>3, <2>5, RestStays DEF IInv
<1>2. CASE compose_refused(FALSE) \/ prepare \/ resume_session
  <2>1. /\ item' \in Device /\ item'.generation = item.generation /\ item'.busy = item.busy
        /\ item'.patch_profile = item.patch_profile /\ (item.failed => item'.failed)
    <3>1. CASE compose_refused(FALSE)
      BY <1>i, <3>1, DeviceSet DEF compose_refused
    <3>2. CASE prepare
      <4>1. PICK ok \in BOOLEAN : ~item.failed /\ item' = [item EXCEPT !.initialized = ok, !.failed = ~ok]
        BY <3>2 DEF prepare
      <4> QED BY <1>i, <4>1, DevicePrepared
    <3>3. CASE resume_session
      BY <1>i, <3>3, DeviceSet DEF resume_session
    <3> QED BY <1>2, <3>1, <3>2, <3>3
  <2>2. owner' \in Owner /\ owner'.generation = owner.generation
    BY <1>i, <1>2, OwnerSet DEF compose_refused, prepare, resume_session
  <2>3. /\ UNCHANGED <<packet, pending, scene, last_signal, incoming, newest, committed, queue_config, queue_snapshot,
                       patches, reading, composed, changes>>
        /\ pc' = "idle" /\ (pc # "admit" \/ incoming = {})
    BY <1>0, <1>2 DEF compose_refused, prepare, resume_session, Composable, Types
  <2>4. incoming' = {}
    BY <1>0, <1>2 DEF compose_refused, prepare, resume_session, Composable, Types
  <2>5. Types'
    BY <1>0, <2>2, <2>3, <2>4 DEF Types
  <2>6. DeviceFits'
    BY <1>0, <2>1, <2>3 DEF DeviceFits
  <2>7. PacketsFit'
    BY <1>0, <2>1, <2>3, AfterStill
  <2> QED BY <1>0, <2>1, <2>3, <2>5, <2>6, <2>7, RestStays DEF IInv
<1>3. CASE configure_queue_patches
  <2>1. /\ UNCHANGED <<pc, scene, last_signal, incoming, reading, composed, captures, packet, owner, item, pending, newest,
                       committed, patches>>
        /\ queue_snapshot' = NoPatches /\ pc = "idle"
        /\ changes' \in 0..MaxChanges /\ changes' = changes + 1 /\ (queue_config'.camera => queue_config'.format \in Formats)
    BY <1>0, <1>3 DEF configure_queue_patches, Types
  <2>2. Types'
    BY <1>0, <2>1 DEF Types, Owner
  <2>3. DeviceFits'
    BY <1>0, <2>1 DEF DeviceFits, Device, Types
  <2>4. PacketsFit'
    BY <1>0, <2>1, AfterStill
  <2> QED BY <1>0, <2>1, <2>2, <2>3, <2>4, RestStays DEF IInv
<1>4. ASSUME NEW profile \in Profiles, set_patch_profile(profile) PROVE IInv'
  <2>1. /\ UNCHANGED <<pc, scene, last_signal, incoming, reading, composed, captures, packet, owner, pending, newest,
                       committed, patches>>
        /\ queue_snapshot' = NoPatches /\ pc = "idle" /\ queue_config' = NoConfig
        /\ changes' \in 0..MaxChanges /\ changes' = changes + 1
    <3>1. changes \in 0..MaxChanges
      BY <1>0 DEF Types
    <3>2. /\ UNCHANGED <<pc, scene, last_signal, incoming, reading, composed, captures, packet, owner, pending, newest,
                         committed, patches>>
          /\ queue_snapshot' = NoPatches /\ pc = "idle" /\ queue_config' = NoConfig
          /\ changes < MaxChanges /\ changes' = changes + 1
      BY <1>4, Zenon DEF set_patch_profile
    <3> QED BY <1>0, <3>1, <3>2
  <2>2. item' \in Device /\ item'.generation = item.generation /\ item'.busy = item.busy /\ item'.failed = item.failed
    <3> DEFINE x == (item.output /\ profile = item.patch_profile)
    <3>1. x \in BOOLEAN
      BY Zenon
    <3>2. item' = [item EXCEPT !.patch_profile = profile, !.output = x]
      BY <1>4, Zenon DEF set_patch_profile
    <3> DEFINE d == [item EXCEPT !.patch_profile = profile, !.output = x]
    <3> HIDE DEF x
    <3>3. d \in Device /\ d.failed = item.failed /\ d.generation = item.generation /\ d.busy = item.busy
      BY <1>i, <3>1, DeviceRetargeted, Zenon
    <3>4. item' = d
      BY <3>2
    <3> HIDE DEF d
    <3> QED BY <3>3, <3>4
  <2>3. Types'
    BY <1>0, <2>1 DEF Types, Owner, NoConfig
  <2>4. DeviceFits'
    BY <1>0, <2>1, <2>2 DEF DeviceFits, Device, Types
  <2>5. PacketsFit'
    BY <1>0, <2>1, <2>2, AfterStill
  <2> QED BY <1>0, <2>1, <2>2, <2>3, <2>4, <2>5, RestStays DEF IInv
<1> QED BY <1>1, <1>2, <1>3, <1>4

(* A buffer that is asked for is not drawn yet.                            *)
LEMMA BufferAskedFor ==
  ASSUME Types, PatchesAreCommitted, UNCHANGED committed, item'.generation = item.generation,
         NEW key, patches' = [patches EXCEPT ![key] = {NoPair}] \/ patches' = patches
  PROVE  patches' \in [Keys -> SUBSET Shown] /\ PatchesAreCommitted'
<1>1. NoPair \in Shown
  BY DEF NoPair, Shown
<1>2. patches' \in [Keys -> SUBSET Shown] /\ \A k \in Keys : patches'[k] = patches[k] \/ patches'[k] = {NoPair}
  BY <1>1 DEF Types
<1> QED BY <1>2 DEF PatchesAreCommitted

(* The queue's patches: calibration and what is published.                 *)
LEMMA QueueStep ==
  ASSUME FrameServiceAssumption, IInv,
         \/ \E calibration \in {"none", "drawn", "failed"} : service_queue(calibration)
         \/ \E format \in Formats : copy_patch(format)
  PROVE  IInv'
<1>0. Types /\ DeviceFits /\ PacketsFit /\ PatchesAreCommitted /\ SnapshotIsCurrent
  BY DEF IInv
<1>i. item \in Device /\ Device # {}
  BY <1>0 DEF DeviceFits
<1>1. ASSUME NEW calibration \in {"none", "drawn", "failed"}, service_queue(calibration) PROVE IInv'
  <2>1. /\ UNCHANGED <<scene, packet, last_signal, owner, incoming, pending, newest, committed, queue_config, reading,
                       composed, captures, changes>>
        /\ pc = "queue" /\ incoming = {} /\ pc' \in {"idle", "compose"}
    BY <1>0, <1>1, Zenon DEF service_queue, Types, bounds
  <2>2. /\ item' \in Device /\ item'.generation = item.generation /\ item'.busy = item.busy
        /\ item'.patch_profile = item.patch_profile /\ (item.failed => item'.failed)
        /\ pc' = "compose" => ~item'.failed
    <3>1. CASE ~item.session_active \/ item.failed
      BY <1>i, <1>1, <3>1 DEF service_queue
    <3>2. CASE ~(~item.session_active \/ item.failed)
      <4> DEFINE out == current_output
                 seen == [item EXCEPT !.output = out]
      <4>1. out \in BOOLEAN
        BY DEF current_output
      <4>2. /\ seen \in Device /\ seen.generation = item.generation /\ seen.busy = item.busy
            /\ seen.patch_profile = item.patch_profile
        <5> HIDE DEF out
        <5> QED BY <1>i, <4>1, DeviceShows
      <4>3. /\ item' = seen \/ item' = [seen EXCEPT !.calibrated = TRUE] \/ item' = [seen EXCEPT !.failed = TRUE]
            /\ pc' = IF item'.failed THEN "idle" ELSE "compose"
        BY <1>1, <3>2 DEF service_queue
      <4> HIDE DEF seen
      <4>4. /\ item' \in Device /\ item'.generation = seen.generation /\ item'.busy = seen.busy
            /\ item'.patch_profile = seen.patch_profile
        <5>1. CASE item' = seen
          BY <4>2, <5>1
        <5>2. CASE item' = [seen EXCEPT !.calibrated = TRUE]
          BY <4>2, <5>2, DeviceSet
        <5>3. CASE item' = [seen EXCEPT !.failed = TRUE]
          BY <4>2, <5>3, DeviceSet
        <5> QED BY <4>3, <5>1, <5>2, <5>3
      <4>5. (item.failed => item'.failed) /\ (pc' = "compose" => ~item'.failed)
        BY <3>2, <4>3
      <4> QED BY <4>2, <4>4, <4>5
    <3> QED BY <3>1, <3>2
  <2>3. /\ patches' \in [Keys -> SUBSET Shown] /\ PatchesAreCommitted'
    <3>1. \/ patches' = patches
          \/ patches' = [patches EXCEPT ![<<item.patch_profile, queue_config.format>>] =
                            IF patches[<<item.patch_profile, queue_config.format>>] = {} THEN {NoPair}
                            ELSE patches[<<item.patch_profile, queue_config.format>>]]
      BY <1>1, Zenon DEF service_queue, Requested
    <3>2. \/ patches' = patches
          \/ patches' = [patches EXCEPT ![<<item.patch_profile, queue_config.format>>] = {NoPair}]
      BY <1>0, <3>1 DEF Types
    <3> QED BY <1>0, <2>1, <2>2, <3>2, BufferAskedFor
  <2>4. SnapshotIsCurrent'
    <3>1. queue_snapshot' = NoPatches \/ queue_snapshot' = Published(item', committed, patches')
      BY <1>1, Zenon DEF service_queue
    <3>2. CASE queue_snapshot' = NoPatches
      BY <3>2 DEF SnapshotIsCurrent, NoPatches
    <3>3. CASE queue_snapshot' = Published(item', committed, patches')
      <4>1. item'.patch_profile \in Profiles /\ (queue_config.camera => queue_config.format \in Formats)
        BY <1>0, <2>2 DEF Device, Types
      <4>2. Publishable(item', committed, patches')
        BY <2>1, <2>3, <4>1 DEF PatchesAreCommitted, Publishable
      <4>3. Current(queue_snapshot', item', committed)
        BY <3>3, <4>2, PublishedFits
      <4> QED BY <2>1, <4>3 DEF SnapshotIsCurrent, Current
    <3> QED BY <3>1, <3>2, <3>3
  <2>5. Types'
    BY <1>0, <2>1, <2>3 DEF Types
  <2>6. DeviceFits'
    BY <1>0, <2>1, <2>2 DEF DeviceFits
  <2>7. PacketsFit'
    BY <1>0, <2>1, <2>2, AfterStill
  <2> QED BY <2>3, <2>4, <2>5, <2>6, <2>7 DEF IInv
<1>2. ASSUME NEW format \in Formats, copy_patch(format) PROVE IInv'
  <2>1. /\ UNCHANGED <<pc, scene, last_signal, incoming, reading, composed, captures, packet, owner, item, pending, newest,
                       committed, queue_config, queue_snapshot, changes>>
        /\ pc = "idle"
        /\ patches' = [patches EXCEPT ![<<item.patch_profile, format>>] = {NoPair}]
    BY <1>2 DEF copy_patch, Between
  <2>2. patches' \in [Keys -> SUBSET Shown] /\ PatchesAreCommitted'
    BY <1>0, <2>1, BufferAskedFor
  <2>3. Types'
    BY <1>0, <2>1, <2>2 DEF Types
  <2>4. DeviceFits'
    BY <1>0, <2>1 DEF DeviceFits
  <2>5. PacketsFit'
    BY <1>0, <2>1, AfterStill
  <2>6. SnapshotIsCurrent'
    BY <1>0, <2>1 DEF SnapshotIsCurrent
  <2> QED BY <2>2, <2>3, <2>4, <2>5, <2>6 DEF IInv
<1> QED BY <1>1, <1>2
-----------------------------------------------------------------------------
(* Steps of the manager and of the GPU do not touch what was handed out.   *)
LEMMA HeldUntouched ==
  ASSUME Types, PacketsFit, packet' \in [Packets -> Frame],
         \A q \in Packets : /\ packet[q].state \in {"leased", "quarantined"} => packet'[q] = packet[q]
                            /\ packet'[q].state = "leased" => packet[q].state = "leased",
         UNCHANGED <<pending, newest, composed, incoming>>, item'.generation = item.generation,
         item.failed => item'.failed, pc' = "compose" => ~item'.failed
  PROVE  LeasesAreHeld' /\ PendingIsNewest'
<1>1. Held' = Held /\ Held \subseteq Packets /\ incoming \subseteq Packets /\ \A f \in Feeds : pending[f] \subseteq Held
  BY DEF Held, Types, Feeds
<1>2. \A q \in incoming \cup Held : packet'[q] = packet[q]
  BY <1>1 DEF PacketsFit, LeasesAreHeld
<1>3. LeasesAreHeld'
  BY <1>1, <1>2 DEF PacketsFit, LeasesAreHeld
<1>4. PendingIsNewest'
  BY <1>1, <1>2 DEF PacketsFit, PendingIsNewest
<1> QED BY <1>3, <1>4

(* A packet that nobody holds and nothing on the GPU reads is changed.     *)
LEMMA OnePacket ==
  ASSUME Types, PacketsFit, NEW p \in Packets, NEW r \in Frame,
         packet[p].state \in {"free", "recorded"}, r.state \in {"recorded", "ready"},
         packet' = [packet EXCEPT ![p] = r],
         \/ last_signal' = last_signal + 1 /\ r.order = last_signal'
         \/ last_signal' = last_signal /\ packet[p].state # "free" /\ r.order = packet[p].order,
         UNCHANGED <<item, pending, newest, composed, incoming, reading, pc>>
  PROVE  packet' \in [Packets -> Frame] /\ PacketsFit'
<1>0. /\ packet \in [Packets -> Frame] /\ last_signal \in Nat
      /\ \A q \in Packets : packet[q].order \in Nat /\ packet[q].order <= last_signal
  BY DEF Types, Frame, PacketsFit, OrdersAreOwn
<1>1. packet' \in [Packets -> Frame] /\ packet'[p] = r /\ \A q \in Packets \ {p} : packet'[q] = packet[q]
  BY <1>0
<1>2. LeasesAreHeld' /\ PendingIsNewest'
  <2>1. \A q \in Packets : /\ packet[q].state \in {"leased", "quarantined"} => packet'[q] = packet[q]
                           /\ packet'[q].state = "leased" => packet[q].state = "leased"
    BY <1>1
  <2>2. pc = "compose" => ~item.failed
    BY DEF PacketsFit, PendingIsNewest
  <2> QED BY <1>1, <2>1, <2>2, HeldUntouched
<1>3. OrdersAreOwn'
  <2>1. \A q, s \in Packets :
          packet[q].state # "free" /\ packet[s].state # "free" /\ packet[q].order = packet[s].order => q = s
    BY DEF PacketsFit, OrdersAreOwn
  <2>2. \A q \in Packets : packet'[q].order <= last_signal'
    BY <1>0, <1>1
  <2>3. ASSUME NEW q \in Packets, q # p, packet[q].state # "free" PROVE packet[q].order # r.order
    BY <1>0, <2>1, <2>3
  <2> QED BY <1>1, <2>1, <2>2, <2>3 DEF OrdersAreOwn
<1>4. ReadingIsCovered'
  <2>1. p \notin reading /\ reading \subseteq Packets
    BY DEF PacketsFit, ReadingIsCovered, Types
  <2> QED BY <1>1, <2>1 DEF PacketsFit, ReadingIsCovered
<1> QED BY <1>1, <1>2, <1>3, <1>4 DEF PacketsFit

LEMMA ManagerStep ==
  ASSUME FrameServiceAssumption, IInv,
         \/ \E p \in Packets, f \in Feeds : capture(p, f)
         \/ \E p \in Packets : retire(p)
         \/ finish_composition \/ fail_device
  PROVE  IInv'
<1> USE DEF runtime, bounds
<1>0. Types /\ DeviceFits /\ PacketsFit /\ PatchesAreCommitted /\ SnapshotIsCurrent
  BY DEF IInv
<1>t. /\ packet \in [Packets -> Frame] /\ last_signal \in Nat /\ scene \in Nat /\ owner \in Owner /\ item \in Device
      /\ item.busy \in Nat /\ item.busy <= last_signal
  BY <1>0 DEF Types, DeviceFits, Device
<1>1. ASSUME NEW p \in Packets, NEW f \in Feeds, capture(p, f) PROVE IInv'
  <2> DEFINE r == [state |-> "recorded", feed |-> f, order |-> last_signal', epoch |-> scene,
                   session |-> owner.generation, until |-> 0]
  <2>1. /\ UNCHANGED <<scene, owner, pc, incoming, runtime, reading, composed, changes>>
        /\ packet[p].state = "free" /\ last_signal' = last_signal + 1 /\ packet' = [packet EXCEPT ![p] = r]
    BY <1>1 DEF capture
  <2>2. r \in Frame /\ r.state = "recorded" /\ r.order = last_signal'
    BY <1>t, <2>1 DEF Frame, States, Owner
  <2> HIDE DEF r
  <2>3. packet' \in [Packets -> Frame] /\ PacketsFit'
    BY <1>0, <2>1, <2>2, OnePacket
  <2>4. Types'
    BY <1>0, <2>1, <2>3 DEF Types
  <2>5. DeviceFits'
    BY <1>0, <1>t, <2>1 DEF DeviceFits
  <2> QED BY <1>0, <2>1, <2>3, <2>4, <2>5, RestStays DEF IInv
<1>2. ASSUME NEW p \in Packets, retire(p) PROVE IInv'
  <2> DEFINE r == [packet[p] EXCEPT !.state = "ready"]
  <2>1. /\ UNCHANGED <<scene, last_signal, owner, pc, incoming, runtime, reading, composed, changes>>
        /\ packet[p].state = "recorded" /\ packet' = [packet EXCEPT ![p] = r]
    BY <1>2, <1>t DEF retire
  <2>2. r \in Frame /\ r.state = "ready" /\ r.order = packet[p].order
    <3>1. \A s \in Frame : LET n == [s EXCEPT !.state = "ready"] IN n \in Frame /\ n.state = "ready" /\ n.order = s.order
      BY DEF Frame, States
    <3> QED BY <1>t, <3>1
  <2> HIDE DEF r
  <2>3. packet' \in [Packets -> Frame] /\ PacketsFit'
    BY <1>0, <2>1, <2>2, OnePacket
  <2>4. Types'
    BY <1>0, <2>1, <2>3 DEF Types
  <2>5. DeviceFits'
    BY <1>0, <2>1 DEF DeviceFits
  <2> QED BY <1>0, <2>1, <2>3, <2>4, <2>5, RestStays DEF IInv
<1>3. CASE finish_composition
  <2>1. /\ UNCHANGED <<scene, last_signal, owner, pc, incoming, pending, newest, committed, queue_config, queue_snapshot,
                       patches, composed, changes>>
        /\ reading' = {} /\ item' = [item EXCEPT !.busy = 0]
        /\ packet' = [p \in Packets |->
                        IF packet[p].state = "consuming" /\ packet[p].until <= last_signal THEN Empty ELSE packet[p]]
    BY <1>3 DEF finish_composition
  <2>2. /\ item' \in Device /\ item'.generation = item.generation /\ item'.busy = 0 /\ item'.failed = item.failed
        /\ item'.patch_profile = item.patch_profile
    BY <1>t, <2>1 DEF Device
  <2>3. packet' \in [Packets -> Frame] /\ \A p \in Packets : packet'[p] = packet[p] \/ (packet[p].state = "consuming" /\ packet'[p] = Empty)
    BY <1>t, <2>1, EmptyFrame
  <2>4. Follows(packet, packet')
    <3>1. \A p \in Packets : packet[p].order \in Nat
      BY <1>t DEF Frame
    <3> QED BY <2>3, <3>1, EmptyFrame DEF Follows
  <2>5. OrdersAreOwn'
    BY <1>0, <2>1, <2>4, OrdersKept DEF PacketsFit
  <2>6. LeasesAreHeld' /\ PendingIsNewest'
    <3>1. \A q \in Packets : /\ packet[q].state \in {"leased", "quarantined"} => packet'[q] = packet[q]
                             /\ packet'[q].state = "leased" => packet[q].state = "leased"
      BY <2>3, EmptyFrame
    <3>2. pc = "compose" => ~item.failed
      BY <1>0 DEF PacketsFit, PendingIsNewest
    <3> QED BY <1>0, <2>1, <2>2, <2>3, <3>1, <3>2, HeldUntouched
  <2>7. PacketsFit'
    BY <2>1, <2>5, <2>6 DEF PacketsFit, ReadingIsCovered
  <2>8. Types'
    BY <1>0, <2>1, <2>3 DEF Types
  <2>9. DeviceFits'
    BY <1>0, <1>t, <2>1, <2>2 DEF DeviceFits
  <2> QED BY <1>0, <2>1, <2>2, <2>7, <2>8, <2>9, RestStays DEF IInv
<1>4. CASE fail_device
  <2>1. /\ UNCHANGED <<scene, last_signal, pc, incoming, runtime, reading, composed>>
        /\ packet' = Quarantined(packet) /\ owner' = [owner EXCEPT !.failed = TRUE]
        /\ changes' = changes + 1 /\ changes < MaxChanges
    BY <1>4 DEF fail_device, Changing
  <2>2. owner' \in Owner /\ owner'.generation = owner.generation
    BY <1>t, <2>1, OwnerSet
  <2>3. pc = "compose" => ~item.failed
    BY <1>0 DEF PacketsFit, PendingIsNewest
  <2>4. packet' \in [Packets -> Frame] /\ PacketsFit'
    BY <1>0, <2>1, <2>3, AfterQuarantine
  <2>5. changes' \in 0..MaxChanges /\ owner.generation <= changes' + 1 /\ item.generation <= changes' + 1
    <3>1. changes \in 0..MaxChanges /\ MaxChanges \in Nat /\ owner.generation <= changes + 1 /\ item.generation <= changes + 1
      BY <1>0 DEF Types, DeviceFits, FrameServiceAssumption
    <3>2. owner.generation \in Nat /\ item.generation \in Nat
      BY <1>t DEF Owner, Device
    <3> QED BY <2>1, <3>1, <3>2
  <2>6. Types'
    BY <1>0, <2>1, <2>2, <2>4, <2>5 DEF Types
  <2>7. DeviceFits'
    BY <1>0, <2>1, <2>5 DEF DeviceFits
  <2> QED BY <1>0, <2>1, <2>4, <2>6, <2>7, RestStays DEF IInv
<1> QED BY <1>1, <1>2, <1>3, <1>4
-----------------------------------------------------------------------------
(* What the manager has ready is handed out, or is free again in its turn. *)
LEMMA PollStep ==
  ASSUME IInv, service_poll
  PROVE  IInv'
<1> USE DEF runtime, bounds
<1>0. Types /\ DeviceFits /\ PacketsFit /\ PatchesAreCommitted /\ SnapshotIsCurrent
  BY DEF IInv
<1> DEFINE ready == {p \in Packets : packet[p].state = "ready" /\ packet[p].order <= done}
           live  == {p \in ready : /\ owner.session_active /\ packet[p].session = owner.generation
                                   /\ is_current(packet[p].epoch)}
           polled(p) == IF p \notin ready THEN packet[p]
                        ELSE IF p \in live THEN [packet[p] EXCEPT !.state = "leased"]
                        ELSE IF last_signal <= done THEN Empty
                        ELSE [packet[p] EXCEPT !.state = "consuming", !.until = last_signal]
<1>1. /\ UNCHANGED <<scene, last_signal, owner, runtime, reading, composed, bounds>>
      /\ pc = "idle" /\ pc' = "admit" /\ incoming' = live /\ packet' = [p \in Packets |-> polled(p)]
  BY DEF service_poll
<1>t. packet \in [Packets -> Frame] /\ last_signal \in Nat /\ incoming = {}
  BY <1>0, <1>1 DEF Types
<1>2. ASSUME NEW r \in Frame
      PROVE  /\ r.order \in Nat
             /\ LET n == [r EXCEPT !.state = "leased"]
                IN  /\ n \in Frame /\ n.state = "leased"
                    /\ n.feed = r.feed /\ n.order = r.order /\ n.epoch = r.epoch /\ n.session = r.session
             /\ LET n == [r EXCEPT !.state = "consuming", !.until = last_signal]
                IN  /\ n \in Frame /\ n.state = "consuming"
                    /\ n.feed = r.feed /\ n.order = r.order /\ n.epoch = r.epoch /\ n.session = r.session
  <2>1. {"leased", "consuming"} \subseteq States
    BY DEF States
  <2> QED BY <1>t, <2>1 DEF Frame
<1>3. ASSUME NEW p \in Packets
      PROVE  /\ polled(p) \in Frame /\ polled(p).order <= packet[p].order
             /\ polled(p).state # "free" =>
                  /\ packet[p].state # "free"
                  /\ polled(p).feed = packet[p].feed /\ polled(p).order = packet[p].order
                  /\ polled(p).epoch = packet[p].epoch /\ polled(p).session = packet[p].session
             /\ packet[p].state # "ready" => polled(p) = packet[p]
             /\ polled(p).state = "leased" => packet[p].state = "leased" \/ p \in live
             /\ p \in live => polled(p).state = "leased" /\ packet[p].state = "ready"
  <2>1. packet[p] \in Frame /\ packet[p].order \in Nat
    BY <1>t, <1>2
  <2>2. CASE p \notin ready
    BY <2>1, <2>2
  <2>3. CASE p \in live
    <3>1. polled(p) = [packet[p] EXCEPT !.state = "leased"] /\ packet[p].state = "ready"
      BY <2>3
    <3> HIDE DEF live, ready, polled
    <3>2. packet[p].order <= packet[p].order
      BY <2>1
    <3>3. /\ polled(p) \in Frame /\ polled(p).state = "leased"
          /\ polled(p).feed = packet[p].feed /\ polled(p).order = packet[p].order
          /\ polled(p).epoch = packet[p].epoch /\ polled(p).session = packet[p].session
      <4> DEFINE n == [packet[p] EXCEPT !.state = "leased"]
      <4>1. /\ n \in Frame /\ n.state = "leased"
            /\ n.feed = packet[p].feed /\ n.order = packet[p].order /\ n.epoch = packet[p].epoch /\ n.session = packet[p].session
        BY <1>2, <2>1
      <4> HIDE DEF n
      <4>2. polled(p) = n
        BY <3>1 DEF n
      <4> QED BY <4>1, <4>2
    <3> QED BY <2>1, <2>3, <3>1, <3>2, <3>3
  <2>4. CASE p \in ready /\ p \notin live /\ last_signal <= done
    <3>1. polled(p) = Empty /\ packet[p].state = "ready"
      BY <2>4
    <3> HIDE DEF live, ready, polled
    <3>2. 0 <= packet[p].order
      BY <2>1
    <3> QED BY <2>4, <3>1, <3>2, EmptyFrame
  <2>5. CASE p \in ready /\ p \notin live /\ ~(last_signal <= done)
    <3>1. polled(p) = [packet[p] EXCEPT !.state = "consuming", !.until = last_signal] /\ packet[p].state = "ready"
      BY <2>5, Zenon
    <3> HIDE DEF live, ready, polled
    <3>2. packet[p].order <= packet[p].order
      BY <2>1
    <3>3. /\ polled(p) \in Frame /\ polled(p).state = "consuming"
          /\ polled(p).feed = packet[p].feed /\ polled(p).order = packet[p].order
          /\ polled(p).epoch = packet[p].epoch /\ polled(p).session = packet[p].session
      <4> DEFINE n == [packet[p] EXCEPT !.state = "consuming", !.until = last_signal]
      <4>1. /\ n \in Frame /\ n.state = "consuming"
            /\ n.feed = packet[p].feed /\ n.order = packet[p].order /\ n.epoch = packet[p].epoch /\ n.session = packet[p].session
        BY <1>2, <2>1
      <4> HIDE DEF n
      <4>2. polled(p) = n
        BY <3>1 DEF n
      <4> QED BY <4>1, <4>2
    <3> QED BY <2>1, <2>5, <3>1, <3>2, <3>3
  <2>6. p \in live => p \in ready
    OBVIOUS
  <2> HIDE DEF live, ready, polled
  <2> QED BY <2>2, <2>3, <2>4, <2>5, <2>6
<1>l. live \subseteq Packets
  OBVIOUS
<1> HIDE DEF ready, live, polled
<1>4. packet' \in [Packets -> Frame] /\ \A p \in Packets : packet'[p] = polled(p)
  BY <1>1, <1>3
<1>5. Follows(packet, packet')
  BY <1>3, <1>4 DEF Follows
<1>6. OrdersAreOwn'
  BY <1>0, <1>1, <1>5, OrdersKept DEF PacketsFit
<1>7. Held' = Held /\ Held \subseteq Packets /\ reading \subseteq Packets /\ \A f \in Feeds : pending[f] \subseteq Held
  BY <1>0, <1>1 DEF Held, Types, Feeds
<1>8. \A p \in Held : packet[p].state \in {"leased", "quarantined"} /\ packet'[p] = packet[p]
  BY <1>0, <1>3, <1>4, <1>7 DEF PacketsFit, LeasesAreHeld
<1>9. LeasesAreHeld'
  <2>1. \A p \in Packets : packet'[p].state = "leased" => p \in live \cup Held
    BY <1>0, <1>t, <1>3, <1>4 DEF PacketsFit, LeasesAreHeld
  <2>2. \A p \in live \cup Held : packet'[p].state \in {"leased", "quarantined"}
    BY <1>l, <1>3, <1>4, <1>8
  <2>3. live \cap Held = {}
    BY <1>l, <1>3, <1>8
  <2> QED BY <1>0, <1>1, <1>7, <2>1, <2>2, <2>3 DEF PacketsFit, LeasesAreHeld
<1>10. PendingIsNewest'
  BY <1>0, <1>1, <1>7, <1>8 DEF PacketsFit, PendingIsNewest
<1>11. ReadingIsCovered'
  BY <1>0, <1>1, <1>3, <1>4, <1>7 DEF PacketsFit, ReadingIsCovered
<1>12. Types'
  BY <1>0, <1>1, <1>l, <1>4 DEF Types
<1>13. DeviceFits'
  BY <1>0, <1>1 DEF DeviceFits
<1> QED BY <1>0, <1>1, <1>6, <1>9, <1>10, <1>11, <1>12, <1>13, RestStays DEF IInv, PacketsFit

(* Of what came in, the newest frame of each feed is kept and takes the    *)
(* place of the one pending; the rest is given back.                       *)
LEMMA AdmitStep ==
  ASSUME IInv, service_admit
  PROVE  IInv'
<1>0. Types /\ DeviceFits /\ PacketsFit /\ PatchesAreCommitted /\ SnapshotIsCurrent
  BY DEF IInv
<1> DEFINE kept(f) == Last(Admitted(f))
           back    == (incoming \cup Held) \ (pending'[0] \cup pending'[1])
<1>1. /\ UNCHANGED <<scene, last_signal, owner, item, committed, queue_config, queue_snapshot, patches, reading, composed,
                     captures, changes>>
      /\ pc = "admit" /\ pc' = "queue" /\ incoming' = {}
      /\ pending' = [f \in Feeds |-> IF kept(f) # {} THEN kept(f) ELSE pending[f]]
      /\ newest' = [f \in Feeds |-> IF kept(f) # {} THEN packet[CHOOSE p \in kept(f) : TRUE].order ELSE newest[f]]
      /\ packet' = Consume(packet, back, last_signal)
  BY DEF service_admit, bounds, discard_frame
<1>t. /\ packet \in [Packets -> Frame] /\ last_signal \in Nat /\ incoming \subseteq Packets /\ reading \subseteq Packets
      /\ pending \in [Feeds -> SUBSET Packets] /\ newest \in Shown /\ composed \in Shown
  BY <1>0 DEF Types
<1>o. \A p \in Packets : packet[p].order \in Nat
  BY <1>t DEF Frame
<1>2. ASSUME NEW f \in Feeds
      PROVE  /\ \A p \in kept(f) : /\ p \in incoming /\ packet[p].feed = f /\ packet[p].session = item.generation
                                   /\ newest[f] < packet[p].order
             /\ \A p, q \in kept(f) : p = q
  <2>1. \A p \in kept(f) : /\ p \in incoming /\ packet[p].feed = f /\ packet[p].session = item.generation
                           /\ packet[p].order > newest[f]
    BY DEF Last, Admitted
  <2>2. \A p, q \in kept(f) : packet[p].order <= packet[q].order /\ packet[q].order <= packet[p].order
    BY DEF Last
  <2>3. \A p \in kept(f) : p \in Packets /\ packet[p].state # "free"
    BY <1>0, <1>t, <2>1 DEF PacketsFit, LeasesAreHeld
  <2> HIDE DEF kept
  <2>4. \A p, q \in kept(f) : packet[p].order = packet[q].order
    BY <1>o, <2>2, <2>3
  <2>5. \A p, q \in kept(f) : p = q
    BY <1>0, <2>3, <2>4 DEF PacketsFit, OrdersAreOwn
  <2>6. newest[f] \in Nat
    BY <1>t DEF Shown
  <2> QED BY <1>o, <2>1, <2>3, <2>5, <2>6
<1> HIDE DEF kept
<1>3. ASSUME NEW f \in Feeds
      PROVE  /\ pending'[f] = IF kept(f) # {} THEN kept(f) ELSE pending[f]
             /\ kept(f) = {} => newest'[f] = newest[f]
             /\ \A p \in kept(f) : newest'[f] = packet[p].order
             /\ newest[f] <= newest'[f] /\ newest'[f] \in Nat
             /\ pending'[f] \subseteq Packets
  <2>1. pending'[f] = IF kept(f) # {} THEN kept(f) ELSE pending[f]
    BY <1>1
  <2>2. kept(f) = {} => newest'[f] = newest[f]
    BY <1>1
  <2>3. \A p \in kept(f) : newest'[f] = packet[p].order
    <3>1. ASSUME NEW p \in kept(f) PROVE newest'[f] = packet[p].order
      <4>1. newest'[f] = packet[CHOOSE q \in kept(f) : TRUE].order
        BY <1>1, <3>1
      <4>2. (CHOOSE q \in kept(f) : TRUE) \in kept(f)
        BY <3>1
      <4>3. (CHOOSE q \in kept(f) : TRUE) = p
        BY <1>2, <3>1, <4>2
      <4> QED BY <4>1, <4>3
    <3> QED BY <3>1
  <2>4. newest[f] \in Nat /\ kept(f) \subseteq Packets
    BY <1>t, <1>2 DEF Shown
  <2> QED BY <1>t, <1>o, <1>2, <2>1, <2>2, <2>3, <2>4
<1>4. /\ pending' \in [Feeds -> SUBSET Packets] /\ newest' \in Shown
  BY <1>1, <1>3 DEF Shown
<1>5. 0 \in Feeds /\ 1 \in Feeds /\ Feeds = {0, 1}
  BY DEF Feeds
<1>6. /\ Held \subseteq Packets /\ Held' = pending'[0] \cup pending'[1] /\ Held' \subseteq incoming \cup Held
      /\ back = (incoming \cup Held) \ Held' /\ \A f \in Feeds : pending[f] \subseteq Held /\ pending'[f] \subseteq Held'
  <2>1. \A f \in Feeds : pending'[f] \subseteq incoming \cup pending[f]
    BY <1>2, <1>3
  <2>2. \A f \in Feeds : pending[f] \subseteq Packets
    BY <1>t
  <2> QED BY <1>5, <2>1, <2>2 DEF Held
<1> HIDE DEF back
<1>7. /\ Follows(packet, packet')
      /\ \A p \in Packets :
           /\ p \notin back \/ packet[p].state # "leased" => packet'[p] = packet[p]
           /\ p \in back /\ packet[p].state = "leased" =>
                packet'[p].state \in {"free", "consuming"} /\ (~(last_signal <= done) => packet'[p].state = "consuming")
  <2>1. Follows(packet, Consume(packet, back, last_signal))
    BY <1>t, ConsumeEffect
  <2>2. ASSUME NEW p \in Packets
        PROVE  LET n == Consume(packet, back, last_signal)[p]
               IN  /\ p \notin back \/ packet[p].state # "leased" => n = packet[p]
                   /\ p \in back /\ packet[p].state = "leased" =>
                        n.state \in {"free", "consuming"} /\ (~(last_signal <= done) => n.state = "consuming")
    BY <1>t, ConsumeEffect
  <2> QED BY <1>1, <2>1, <2>2
<1>8. OrdersAreOwn'
  BY <1>0, <1>1, <1>7, OrdersKept DEF PacketsFit
<1>9. \A p \in Held' : p \in Packets /\ packet'[p] = packet[p] /\ packet[p].state \in {"leased", "quarantined"}
  BY <1>0, <1>t, <1>6, <1>7 DEF PacketsFit, LeasesAreHeld
<1>10. LeasesAreHeld'
  <2>1. \A p \in Packets : packet'[p].state = "leased" => p \in Held'
    BY <1>0, <1>6, <1>7 DEF PacketsFit, LeasesAreHeld
  <2>2. pending'[0] \cap pending'[1] = {}
    <3>1. ASSUME NEW p, p \in pending'[0], p \in pending'[1] PROVE FALSE
      <4>1. \A f \in Feeds : p \in pending'[f] => packet[p].feed = f
        BY <1>0, <1>2, <1>3 DEF PacketsFit, PendingIsNewest
      <4> QED BY <1>5, <3>1, <4>1
    <3> QED BY <3>1
  <2> QED BY <1>1, <1>9, <2>1, <2>2 DEF LeasesAreHeld
<1>11. PendingIsNewest'
  <2>1. \A f \in Feeds : composed'[f] <= newest'[f]
    <3>1. \A f \in Feeds : composed[f] <= newest[f] /\ composed[f] \in Nat /\ newest[f] \in Nat
      BY <1>0, <1>t DEF PacketsFit, PendingIsNewest, Shown
    <3> QED BY <1>1, <1>3, <3>1
  <2>2. ASSUME NEW f \in Feeds, NEW p \in pending'[f]
        PROVE  /\ packet'[p].feed = f /\ packet'[p].order = newest'[f] /\ packet'[p].session = item'.generation
               /\ ~item'.failed => composed'[f] < packet'[p].order
    <3>1. packet'[p] = packet[p] /\ item' = item /\ composed' = composed /\ p \in Packets
      BY <1>1, <1>6, <1>9, <2>2
    <3>2. composed[f] <= newest[f] /\ composed[f] \in Nat /\ newest[f] \in Nat
      BY <1>0, <1>t DEF PacketsFit, PendingIsNewest, Shown
    <3>3. CASE kept(f) # {}
      <4>1. p \in kept(f)
        BY <1>3, <2>2, <3>3
      <4>2. packet[p].feed = f /\ packet[p].order = newest'[f] /\ packet[p].session = item.generation /\ newest[f] < packet[p].order
        BY <1>2, <1>3, <4>1
      <4>3. composed[f] < packet[p].order
        BY <1>o, <3>1, <3>2, <4>2
      <4> QED BY <3>1, <4>2, <4>3
    <3>4. CASE kept(f) = {}
      <4>1. p \in pending[f] /\ newest'[f] = newest[f]
        BY <1>3, <2>2, <3>4
      <4> QED BY <1>0, <3>1, <4>1 DEF PacketsFit, PendingIsNewest
    <3> QED BY <3>3, <3>4
  <2>3. pc' # "compose"
    BY <1>1
  <2> QED BY <2>1, <2>2, <2>3, Zenon DEF PendingIsNewest
<1>12. ReadingIsCovered'
  <2>1. item.busy # 0 => ~(last_signal <= done)
    BY <1>0, <1>t DEF DeviceFits, Device, done
  <2> QED BY <1>0, <1>t, <1>1, <1>7, <2>1 DEF PacketsFit, ReadingIsCovered
<1>13. Types'
  BY <1>0, <1>1, <1>4, <1>7 DEF Types, Follows
<1>14. DeviceFits'
  BY <1>0, <1>1 DEF DeviceFits
<1> QED BY <1>0, <1>1, <1>8, <1>10, <1>11, <1>12, <1>13, <1>14, RestStays DEF IInv, PacketsFit
-----------------------------------------------------------------------------
(* Steps that only give frames back.                                       *)
LEMMA DropStep ==
  ASSUME FrameServiceAssumption, IInv,
         compose_waits \/ compose_refused(TRUE) \/ reset_feed \/ reset_session
  PROVE  IInv'
<1> USE DEF Between, Changing
<1>0. Types /\ DeviceFits /\ PacketsFit /\ PatchesAreCommitted /\ SnapshotIsCurrent
  BY DEF IInv
<1>t. /\ packet \in [Packets -> Frame] /\ last_signal \in Nat /\ pending \in [Feeds -> SUBSET Packets] /\ owner \in Owner
      /\ item \in Device /\ changes \in 0..MaxChanges /\ MaxChanges \in Nat
      /\ item.generation \in Nat /\ owner.generation \in Nat
      /\ item.generation <= changes + 1 /\ owner.generation <= changes + 1
  BY <1>0 DEF Types, DeviceFits, Device, Owner, FrameServiceAssumption
<1>n. /\ NoFrames \in [Feeds -> SUBSET Packets] /\ \A f \in Feeds : NoFrames[f] \subseteq pending[f]
      /\ Held \ (NoFrames[0] \cup NoFrames[1]) = Held
  BY DEF NoFrames, Feeds
<1>1. CASE compose_waits
  <2>1. /\ UNCHANGED <<scene, last_signal, owner, incoming, item, newest, committed, queue_config, queue_snapshot, patches,
                       reading, composed, captures, changes>>
        /\ pc = "compose" /\ pc' = "idle"
    BY <1>1 DEF compose_waits, bounds
  <2>2. /\ pending' \in [Feeds -> SUBSET Packets] /\ \A f \in Feeds : pending'[f] \subseteq pending[f]
        /\ packet' = discard_frame(Held \ (pending'[0] \cup pending'[1]))
    <3>1. PICK gone \in SUBSET Packets : /\ pending' = [f \in Feeds |-> pending[f] \ gone]
                                         /\ packet' = discard_frame(Held \ (pending'[0] \cup pending'[1]))
      <4>1. Stale \subseteq Packets
        BY <1>t DEF Stale, Held, Feeds
      <4> QED BY <1>1, <4>1 DEF compose_waits
    <3> QED BY <1>t, <3>1
  <2>3. incoming = {} /\ incoming' = {}
    BY <1>0, <2>1 DEF Types
  <2>4. packet' \in [Packets -> Frame] /\ PacketsFit'
    BY <1>0, <2>1, <2>2, <2>3, AfterDrop
  <2>5. Types'
    BY <1>0, <2>1, <2>2, <2>3, <2>4 DEF Types
  <2>6. DeviceFits'
    BY <1>0, <2>1 DEF DeviceFits
  <2> QED BY <1>0, <2>1, <2>4, <2>5, <2>6, RestStays DEF IInv
<1>2. CASE compose_refused(TRUE)
  <2>1. /\ UNCHANGED <<scene, last_signal, owner, incoming, newest, committed, queue_config, queue_snapshot, patches,
                       reading, composed, captures, changes>>
        /\ pc = "compose" /\ pc' = "idle" /\ pending' = NoFrames /\ packet' = discard_frame(Held)
        /\ item' = [item EXCEPT !.failed = TRUE]
    BY <1>2 DEF compose_refused, Composable, bounds
  <2>2. /\ item' \in Device /\ item'.failed /\ item'.generation = item.generation /\ item'.busy = item.busy
        /\ item'.patch_profile = item.patch_profile
    BY <1>t, <2>1 DEF Device
  <2>3. incoming = {} /\ incoming' = {}
    BY <1>0, <2>1 DEF Types
  <2>4. packet' \in [Packets -> Frame] /\ PacketsFit'
    BY <1>0, <1>n, <2>1, <2>2, <2>3, AfterDrop
  <2>5. Types'
    BY <1>0, <1>n, <2>1, <2>3, <2>4 DEF Types
  <2>6. DeviceFits'
    BY <1>0, <2>1, <2>2 DEF DeviceFits
  <2> QED BY <1>0, <2>1, <2>2, <2>4, <2>5, <2>6, RestStays DEF IInv
<1>3. CASE reset_feed
  <2>1. /\ UNCHANGED <<pc, scene, last_signal, incoming, reading, composed, captures, owner, newest, queue_config, patches>>
        /\ pc = "idle" /\ pending' = NoFrames /\ packet' = discard_frame(Held)
        /\ item' = [item EXCEPT !.output = FALSE] /\ changes' = changes + 1 /\ changes < MaxChanges
        /\ queue_snapshot' = NoPatches /\ committed' = NoMatch
    BY <1>3 DEF reset_feed
  <2>2. /\ item' \in Device /\ item'.failed = item.failed /\ item'.generation = item.generation /\ item'.busy = item.busy
    BY <1>t, <2>1 DEF Device
  <2>3. incoming = {} /\ incoming' = {}
    BY <1>0, <2>1 DEF Types
  <2>4. packet' \in [Packets -> Frame] /\ PacketsFit'
    BY <1>0, <1>n, <2>1, <2>2, <2>3, AfterDrop
  <2>5. Types'
    BY <1>0, <1>t, <1>n, <2>1, <2>3, <2>4 DEF Types, NoMatch, Match
  <2>6. DeviceFits'
    BY <1>0, <1>t, <2>1, <2>2 DEF DeviceFits
  <2>7. PatchesAreCommitted' /\ SnapshotIsCurrent'
    BY <2>1 DEF PatchesAreCommitted, SnapshotIsCurrent, NoMatch, NoPatches, Feeds
  <2> QED BY <2>4, <2>5, <2>6, <2>7 DEF IInv
<1>4. CASE reset_session
  <2> DEFINE g == IF owner.active THEN item.generation + 1 ELSE item.generation
             o == [owner EXCEPT !.session_active = FALSE, !.generation = owner.generation + 1]
  <2>1. /\ UNCHANGED <<pc, scene, last_signal, incoming, reading, composed, captures, newest, patches>>
        /\ pc = "idle" /\ changes' = changes + 1 /\ changes < MaxChanges /\ ~item.failed
        /\ queue_config' = NoConfig /\ queue_snapshot' = NoPatches /\ committed' = NoMatch
        /\ item' = [item EXCEPT !.session_active = FALSE, !.output = FALSE, !.generation = g]
        /\ owner' = IF owner.active THEN o ELSE owner
        /\ IF owner.active THEN packet' = discard_frame(Held) /\ pending' = NoFrames ELSE UNCHANGED <<packet, pending>>
    BY <1>4, Zenon DEF reset_session
  <2>g. g \in Nat /\ g <= changes' + 1 /\ (~owner.active => g = item.generation)
    BY <1>t, <2>1
  <2> HIDE DEF g
  <2>2. /\ item' \in Device /\ item'.failed = item.failed /\ item'.generation = g /\ item'.busy = item.busy
    BY <1>t, <2>1, <2>g, Zenon DEF Device
  <2>o. owner' \in Owner /\ owner'.generation <= changes' + 1
    <3>1. owner.generation + 1 \in Nat
      BY <1>t
    <3>2. o \in Owner /\ o.generation = owner.generation + 1
      BY <1>t, <3>1, Zenon DEF Owner
    <3> HIDE DEF o
    <3> QED BY <1>t, <2>1, <3>2
  <2>3. incoming = {} /\ incoming' = {} /\ pc' # "compose"
    BY <1>0, <2>1 DEF Types
  <2>4. packet' \in [Packets -> Frame] /\ PacketsFit' /\ pending' \in [Feeds -> SUBSET Packets]
    <3>1. CASE owner.active
      BY <1>0, <1>n, <2>1, <2>2, <2>3, <3>1, AfterDrop
    <3>2. CASE ~owner.active
      BY <1>0, <1>t, <2>1, <2>2, <2>3, <2>g, <3>2, AfterStill
    <3> QED BY <3>1, <3>2
  <2>5. Types'
    BY <1>0, <1>t, <2>1, <2>o, <2>3, <2>4 DEF Types, NoMatch, Match, NoConfig
  <2>6. DeviceFits'
    BY <1>0, <1>t, <2>1, <2>2, <2>g DEF DeviceFits
  <2>7. PatchesAreCommitted' /\ SnapshotIsCurrent'
    BY <2>1 DEF PatchesAreCommitted, SnapshotIsCurrent, NoMatch, NoPatches, Feeds
  <2> QED BY <2>4, <2>5, <2>6, <2>7 DEF IInv
<1> QED BY <1>1, <1>2, <1>3, <1>4

(* A device that is destroyed gives its frames back to a manager that will *)
(* use none of its packets again.                                          *)
LEMMA DestroyStep ==
  ASSUME IInv, destroy_device
  PROVE  IInv'
<1>0. Types /\ DeviceFits /\ PacketsFit /\ PatchesAreCommitted /\ SnapshotIsCurrent
  BY DEF IInv
<1>t. /\ packet \in [Packets -> Frame] /\ last_signal \in Nat /\ pending \in [Feeds -> SUBSET Packets] /\ owner \in Owner
      /\ item \in Device /\ reading \subseteq Packets
  BY <1>0 DEF Types, DeviceFits
<1> DEFINE mid == Consume(packet, Held, last_signal)
<1>1. /\ UNCHANGED <<pc, scene, last_signal, incoming, reading, composed, captures, changes, newest, committed, queue_config,
                     patches>>
      /\ pc = "idle" /\ pending' = NoFrames /\ packet' = Quarantined(mid) /\ queue_snapshot' = NoPatches
      /\ item' = [item EXCEPT !.failed = TRUE, !.session_active = FALSE, !.output = FALSE]
      /\ owner' = [owner EXCEPT !.active = FALSE, !.failed = TRUE]
  BY Zenon DEF destroy_device, Between, discard_frame
<1>2. /\ Follows(packet, mid)
      /\ \A p \in Packets :
           /\ p \notin Held \/ packet[p].state # "leased" => mid[p] = packet[p]
           /\ p \in Held /\ packet[p].state = "leased" =>
                mid[p].state \in {"free", "consuming"} /\ (~(last_signal <= done) => mid[p].state = "consuming")
  <2>1. Follows(packet, mid)
    BY <1>t, ConsumeEffect
  <2>2. ASSUME NEW p \in Packets
        PROVE  LET n == mid[p]
               IN  /\ p \notin Held \/ packet[p].state # "leased" => n = packet[p]
                   /\ p \in Held /\ packet[p].state = "leased" =>
                        n.state \in {"free", "consuming"} /\ (~(last_signal <= done) => n.state = "consuming")
    BY <1>t, ConsumeEffect
  <2> QED BY <2>1, <2>2
<1> HIDE DEF mid
<1>3. mid \in [Packets -> Frame]
  BY <1>2 DEF Follows
<1>4. /\ Follows(mid, packet')
      /\ \A p \in Packets : packet'[p].state = IF mid[p].state = "free" THEN "free" ELSE "quarantined"
  BY <1>1, <1>3, QuarantinedEffect
<1>5. Follows(packet, packet') /\ packet' \in [Packets -> Frame]
  BY <1>t, <1>2, <1>4, FollowsOn DEF Follows
<1>6. OrdersAreOwn'
  BY <1>0, <1>1, <1>5, OrdersKept DEF PacketsFit
<1>7. Held' = {} /\ incoming' = {}
  BY <1>0, <1>1 DEF Held, NoFrames, Feeds, Types
<1>8. LeasesAreHeld'
  BY <1>1, <1>4, <1>7 DEF LeasesAreHeld, NoFrames, Feeds
<1>9. PendingIsNewest'
  BY <1>0, <1>1 DEF PacketsFit, PendingIsNewest, NoFrames
<1>10. ReadingIsCovered'
  <2>1. item.busy # 0 => ~(last_signal <= done)
    BY <1>0, <1>t DEF DeviceFits, Device, done
  <2>2. \A p \in reading : mid[p].state # "free"
    BY <1>0, <1>t, <1>2, <2>1 DEF PacketsFit, ReadingIsCovered
  <2> QED BY <1>t, <1>1, <1>4, <2>2 DEF ReadingIsCovered
<1>11. item' \in Device /\ item'.generation = item.generation /\ item'.busy = item.busy /\ item'.patch_profile = item.patch_profile
  BY <1>t, <1>1, DeviceSet, Zenon
<1>12. owner' \in Owner /\ owner'.generation = owner.generation
  BY <1>t, <1>1, OwnerSet, Zenon
<1>13. Types'
  BY <1>0, <1>1, <1>5, <1>7, <1>12 DEF Types, NoFrames
<1>14. DeviceFits'
  BY <1>0, <1>1, <1>11 DEF DeviceFits
<1> QED BY <1>0, <1>1, <1>6, <1>8, <1>9, <1>10, <1>11, <1>13, <1>14, RestStays DEF IInv, PacketsFit
-----------------------------------------------------------------------------
(* The pair a composition shows: the newest frame of each feed, each newer *)
(* than the one composed before it.                                        *)
LEMMA PairIsNewest ==
  ASSUME IInv, Composable
  PROVE  /\ incoming = {} /\ ~item.failed /\ Held \subseteq Packets
         /\ \A p \in Held : packet[p].state \in {"leased", "quarantined"}
         /\ \A f \in Feeds : LET p == CHOOSE q \in pending[f] : TRUE
                             IN  p \in pending[f] /\ p \in Packets
         /\ Pair \in Shown
         /\ \A f \in Feeds : Pair[f] = newest[f] /\ Pair[f] <= last_signal /\ composed[f] < Pair[f]
<1>0. Types /\ PacketsFit
  BY DEF IInv
<1>1. incoming = {} /\ pc = "compose" /\ ~item.failed
  BY <1>0 DEF Composable, Types, PacketsFit, PendingIsNewest
<1>2. Held \subseteq Packets /\ \A p \in Held : packet[p].state \in {"leased", "quarantined"}
  BY <1>0 DEF Held, Types, Feeds, PacketsFit, LeasesAreHeld
<1>3. ASSUME NEW f \in Feeds
      PROVE  LET p == CHOOSE q \in pending[f] : TRUE
             IN  p \in pending[f] /\ p \in Packets
  <2>1. pending[f] # {}
    BY DEF Composable
  <2>2. (CHOOSE q \in pending[f] : TRUE) \in pending[f]
    BY <2>1
  <2>3. pending[f] \subseteq Packets
    BY <1>0 DEF Types
  <2> QED BY <2>2, <2>3
<1>4. ASSUME NEW f \in Feeds
      PROVE  Pair[f] = newest[f] /\ Pair[f] <= last_signal /\ composed[f] < Pair[f] /\ Pair[f] \in Nat
  <2> DEFINE p == CHOOSE q \in pending[f] : TRUE
  <2>1. p \in pending[f] /\ p \in Packets
    BY <1>3
  <2>2. Pair[f] = packet[p].order
    BY DEF Pair
  <2> HIDE DEF p
  <2>3. packet[p].order = newest[f] /\ packet[p].order <= last_signal /\ composed[f] < packet[p].order
    BY <1>0, <1>1, <2>1 DEF PacketsFit, OrdersAreOwn, PendingIsNewest
  <2>4. newest[f] \in Nat
    BY <1>0 DEF Types, Shown
  <2> QED BY <2>2, <2>3, <2>4
<1>5. Pair \in Shown
  <2>1. Pair = [f \in Feeds |-> Pair[f]]
    BY DEF Pair
  <2> QED BY <1>4, <2>1 DEF Shown
<1> QED BY <1>1, <1>2, <1>3, <1>4, <1>5

(* Executed without one of its fences: with the timeline, what was read is *)
(* leased until the GPU is done; without it, nothing comes back.           *)
LEMMA ComposeFailsStep ==
  ASSUME IInv, NEW ordered \in BOOLEAN, compose_fails(ordered)
  PROVE  IInv'
<1>0. Types /\ DeviceFits /\ PacketsFit /\ PatchesAreCommitted /\ SnapshotIsCurrent
  BY DEF IInv
<1>t. /\ packet \in [Packets -> Frame] /\ last_signal \in Nat /\ item \in Device /\ owner \in Owner
      /\ newest \in Shown /\ composed \in Shown
  BY <1>0 DEF Types, DeviceFits
<1> DEFINE n == IF ordered THEN last_signal + 1 ELSE 0
<1>1. /\ Composable
      /\ UNCHANGED <<scene, incoming, pending, newest, committed, queue_config, queue_snapshot, patches, changes>>
      /\ last_signal' = IF ordered THEN last_signal + 1 ELSE last_signal
      /\ reading' = Held /\ composed' = Pair /\ pc' = "idle"
      /\ owner' = [owner EXCEPT !.failed = ~ordered]
      /\ packet' = IF ordered THEN packet ELSE Quarantined(packet)
  BY DEF compose_fails, Composable, bounds
<1>2. item' = [item EXCEPT !.failed = TRUE, !.busy = n]
  <2>1. CASE ordered
    BY <1>1, <2>1 DEF compose_fails
  <2>2. CASE ~ordered
    BY <1>1, <2>2 DEF compose_fails
  <2> QED BY <2>1, <2>2
<1>3. n \in Nat /\ n <= last_signal' /\ last_signal' \in {last_signal, last_signal + 1} /\ last_signal' \in Nat
      /\ (ordered => n # 0)
  BY <1>t, <1>1
<1> HIDE DEF n
<1>4. /\ item' \in Device /\ item'.failed /\ item'.generation = item.generation /\ item'.busy = n
      /\ item'.patch_profile = item.patch_profile
  <2>1. item \in Device /\ n \in Nat /\ item' = [item EXCEPT !.failed = TRUE, !.busy = n]
    BY <1>t, <1>2, <1>3
  <2>2. \A r \in Device, m \in Nat : LET d == [r EXCEPT !.failed = TRUE, !.busy = m]
          IN d \in Device /\ d.failed /\ d.generation = r.generation /\ d.busy = m /\ d.patch_profile = r.patch_profile
    BY Zenon DEF Device
  <2> QED BY <2>1, <2>2, Zenon
<1>5. owner' \in Owner /\ owner'.generation = owner.generation
  <2>1. (~ordered) \in BOOLEAN
    BY Zenon
  <2> QED BY <1>t, <1>1, <2>1, OwnerSet, Zenon
<1>6. /\ incoming = {} /\ Held \subseteq Packets
      /\ \A p \in Held : packet[p].state \in {"leased", "quarantined"}
      /\ Pair \in Shown /\ \A f \in Feeds : Pair[f] = newest[f]
  BY <1>1, PairIsNewest
<1>7. /\ Follows(packet, packet')
      /\ \A p \in Packets : IF ordered THEN packet'[p] = packet[p]
                            ELSE packet'[p].state = IF packet[p].state = "free" THEN "free" ELSE "quarantined"
  <2>1. CASE ordered
    BY <1>t, <1>1, <2>1, FollowsItself
  <2>2. CASE ~ordered
    BY <1>t, <1>1, <2>2, QuarantinedEffect
  <2> QED BY <2>1, <2>2
<1>8. OrdersAreOwn'
  BY <1>0, <1>3, <1>7, OrdersKept DEF PacketsFit
<1>9. Held' = Held /\ incoming' = {} /\ \A f \in Feeds : pending[f] \subseteq Held
  BY <1>1, <1>6 DEF Held, Feeds
<1>10. \A p \in Packets : /\ packet'[p].state = "leased" => packet[p].state = "leased"
                          /\ packet[p].state \in {"leased", "quarantined"} => packet'[p].state \in {"leased", "quarantined"}
                          /\ packet[p].state \in {"leased", "quarantined"} /\ ~ordered => packet'[p].state = "quarantined"
  BY <1>7
<1>11. LeasesAreHeld'
  BY <1>0, <1>1, <1>6, <1>9, <1>10 DEF PacketsFit, LeasesAreHeld
<1>12. PendingIsNewest'
  <2>1. \A f \in Feeds : composed'[f] <= newest'[f]
    BY <1>t, <1>1, <1>6 DEF Shown
  <2>2. ASSUME NEW f \in Feeds, NEW p \in pending'[f]
        PROVE  packet'[p].feed = f /\ packet'[p].order = newest'[f] /\ packet'[p].session = item'.generation
    <3>1. p \in pending[f] /\ p \in Packets /\ packet'[p].state # "free" /\ newest'[f] = newest[f]
      BY <1>1, <1>6, <1>9, <1>10, <2>2
    <3>2. packet[p].feed = f /\ packet[p].order = newest[f] /\ packet[p].session = item.generation
      BY <1>0, <3>1 DEF PacketsFit, PendingIsNewest
    <3>3. packet'[p].feed = packet[p].feed /\ packet'[p].order = packet[p].order /\ packet'[p].session = packet[p].session
      BY <1>7, <3>1 DEF Follows
    <3> QED BY <1>4, <3>1, <3>2, <3>3
  <2> QED BY <1>1, <1>4, <2>1, <2>2 DEF PendingIsNewest
<1>13. ReadingIsCovered'
  <2>1. ASSUME NEW p \in reading'
        PROVE  packet'[p].state = "quarantined" \/ (item'.busy # 0 /\ packet'[p].state \in {"leased", "consuming"})
    <3>1. p \in Packets /\ packet[p].state \in {"leased", "quarantined"}
      BY <1>1, <1>6, <2>1
    <3> QED BY <1>3, <1>4, <1>10, <3>1
  <2> QED BY <2>1 DEF ReadingIsCovered
<1>14. Types'
  BY <1>0, <1>1, <1>3, <1>5, <1>6, <1>7 DEF Types, Follows
<1>15. DeviceFits'
  BY <1>0, <1>1, <1>3, <1>4 DEF DeviceFits
<1> QED BY <1>0, <1>1, <1>4, <1>8, <1>11, <1>12, <1>13, <1>14, <1>15, RestStays DEF IInv, PacketsFit

(* A composition is submitted: its frames wait for it, every buffer that   *)
(* was asked for shows it, and it is what the snapshot offers.             *)
LEMMA ComposeStep ==
  ASSUME IInv, compose
  PROVE  IInv'
<1>0. Types /\ DeviceFits /\ PacketsFit /\ PatchesAreCommitted /\ SnapshotIsCurrent
  BY DEF IInv
<1>t. /\ packet \in [Packets -> Frame] /\ last_signal \in Nat /\ item \in Device /\ owner \in Owner
      /\ newest \in Shown /\ composed \in Shown
  BY <1>0 DEF Types, DeviceFits
<1> DEFINE n == last_signal + 1
<1>1. /\ Composable /\ n \in Nat
      /\ UNCHANGED <<scene, owner, incoming, newest, queue_config, changes>>
      /\ last_signal' = n /\ pc' = "idle"
      /\ reading' = Held /\ composed' = Pair /\ pending' = NoFrames
      /\ item' = [item EXCEPT !.output = TRUE, !.busy = n]
      /\ packet' = Consume(packet, Held, n)
      /\ patches' = Drawn(patches, Pair)
      /\ queue_snapshot' = Published(item', committed', patches')
  BY <1>t DEF compose, Composable, bounds, Consumed
<1>2. committed' = [f \in Feeds |-> LET p == CHOOSE q \in pending[f] : TRUE IN
                      [order |-> packet[p].order, epoch |-> packet[p].epoch, session |-> packet[p].session]]
  BY DEF compose
<1>3. ~(n <= done) /\ n # 0
  BY <1>t, <1>1 DEF Composable, done
<1> HIDE DEF n
<1>4. /\ item' \in Device /\ item'.failed = item.failed /\ item'.generation = item.generation /\ item'.busy = n
      /\ item'.patch_profile = item.patch_profile
  <2>1. item \in Device /\ n \in Nat /\ item' = [item EXCEPT !.output = TRUE, !.busy = n]
    BY <1>t, <1>1
  <2>2. \A r \in Device, m \in Nat : LET d == [r EXCEPT !.output = TRUE, !.busy = m]
          IN  /\ d \in Device /\ d.failed = r.failed /\ d.generation = r.generation /\ d.busy = m
              /\ d.patch_profile = r.patch_profile
    BY Zenon DEF Device
  <2> QED BY <2>1, <2>2, Zenon
<1>6. /\ incoming = {} /\ Held \subseteq Packets
      /\ \A p \in Held : packet[p].state \in {"leased", "quarantined"}
      /\ Pair \in Shown /\ \A f \in Feeds : Pair[f] = newest[f]
  BY <1>1, PairIsNewest
<1>7. /\ Follows(packet, packet')
      /\ \A p \in Packets :
           /\ p \notin Held \/ packet[p].state # "leased" => packet'[p] = packet[p]
           /\ p \in Held /\ packet[p].state = "leased" => packet'[p].state = "consuming"
  <2>1. Follows(packet, Consume(packet, Held, n))
    BY <1>t, <1>1, ConsumeEffect
  <2>2. ASSUME NEW p \in Packets
        PROVE  LET c == Consume(packet, Held, n)[p]
               IN  /\ p \notin Held \/ packet[p].state # "leased" => c = packet[p]
                   /\ p \in Held /\ packet[p].state = "leased" => c.state = "consuming"
    BY <1>t, <1>1, <1>3, ConsumeEffect
  <2> QED BY <1>1, <2>1, <2>2
<1>8. OrdersAreOwn'
  BY <1>0, <1>1, <1>7, OrdersKept DEF PacketsFit, n
<1>9. Held' = {} /\ incoming' = {}
  BY <1>1, <1>6 DEF Held, NoFrames, Feeds
<1>10. LeasesAreHeld'
  <2>1. \A p \in Packets : packet[p].state = "leased" => p \in Held
    BY <1>0, <1>6 DEF PacketsFit, LeasesAreHeld
  <2>2. \A p \in Packets : packet'[p].state # "leased"
    BY <1>7, <2>1
  <2> QED BY <1>1, <1>9, <2>2 DEF LeasesAreHeld, NoFrames, Feeds
<1>11. PendingIsNewest'
  <2>1. \A f \in Feeds : composed'[f] <= newest'[f]
    BY <1>t, <1>1, <1>6 DEF Shown
  <2> QED BY <1>1, <2>1 DEF PendingIsNewest, NoFrames
<1>12. ReadingIsCovered'
  <2>1. ASSUME NEW p \in reading'
        PROVE  packet'[p].state = "quarantined" \/ (item'.busy # 0 /\ packet'[p].state \in {"leased", "consuming"})
    <3>1. p \in Held /\ p \in Packets /\ packet[p].state \in {"leased", "quarantined"}
      BY <1>1, <1>6, <2>1
    <3> QED BY <1>3, <1>4, <1>7, <3>1
  <2> QED BY <2>1 DEF ReadingIsCovered
<1>13. ASSUME NEW f \in Feeds
       PROVE  /\ committed'[f] \in Match /\ committed'[f].order = Pair[f] /\ committed'[f].session = item.generation
  <2> DEFINE p == CHOOSE q \in pending[f] : TRUE
  <2>1. p \in pending[f] /\ p \in Packets
    BY <1>1, PairIsNewest
  <2>2. committed'[f] = [order |-> packet[p].order, epoch |-> packet[p].epoch, session |-> packet[p].session]
    BY <1>2
  <2>3. Pair[f] = packet[p].order
    BY DEF Pair
  <2> HIDE DEF p
  <2>4. packet[p].order \in Nat /\ packet[p].epoch \in Nat /\ packet[p].session \in Nat
    BY <1>t, <2>1 DEF Frame
  <2>5. packet[p].session = item.generation
    BY <1>0, <2>1 DEF PacketsFit, PendingIsNewest
  <2> QED BY <2>2, <2>3, <2>4, <2>5 DEF Match
<1>14. committed' \in [Feeds -> Match]
  BY <1>2, <1>13
<1>15. Pair = [f \in Feeds |-> committed'[f].order]
  <2>1. Pair = [f \in Feeds |-> Pair[f]]
    BY DEF Pair
  <2> QED BY <1>13, <2>1, Zenon
<1>16. \A k \in Keys : patches'[k] \in {{}, {Pair}}
  BY <1>1 DEF Drawn
<1>17. patches' \in [Keys -> SUBSET Shown]
  BY <1>1, <1>6 DEF Drawn
<1>18. PatchesAreCommitted'
  BY <1>4, <1>13, <1>15, <1>16 DEF PatchesAreCommitted
<1>19. SnapshotIsCurrent'
  <2>1. item'.patch_profile \in Profiles /\ (queue_config.camera => queue_config.format \in Formats)
    BY <1>0, <1>4 DEF Types, Device
  <2>2. Publishable(item', committed', patches')
    BY <1>4, <1>13, <1>15, <1>16, <2>1 DEF Publishable
  <2>3. Current(queue_snapshot', item', committed')
    BY <1>1, <2>2, PublishedFits
  <2> QED BY <1>1, <2>3 DEF Current, SnapshotIsCurrent
<1>20. Types'
  <2>1. pending' \in [Feeds -> SUBSET Packets]
    BY <1>1 DEF NoFrames
  <2> QED BY <1>0, <1>1, <1>6, <1>7, <1>9, <1>14, <1>17, <2>1 DEF Types, Follows
<1>21. DeviceFits'
  BY <1>0, <1>1, <1>4 DEF DeviceFits
<1> QED BY <1>8, <1>10, <1>11, <1>12, <1>18, <1>19, <1>20, <1>21 DEF IInv, PacketsFit
-----------------------------------------------------------------------------
(* Every step keeps the invariant.                                         *)
LEMMA NextIInv ==
  ASSUME FrameServiceAssumption, IInv, [Next]_vars
  PROVE  IInv'
<1>1. ASSUME NEW p \in Packets, NEW f \in Feeds, capture(p, f) PROVE IInv'
  BY <1>1, ManagerStep
<1>2. ASSUME NEW p \in Packets, retire(p) PROVE IInv'
  BY <1>2, ManagerStep
<1>3. CASE finish_composition
  BY <1>3, ManagerStep
<1>4. CASE first_scene \/ scene_changes
  BY <1>4, QuietStep
<1>5. CASE fail_device
  BY <1>5, ManagerStep
<1>6. CASE service_poll
  BY <1>6, PollStep
<1>7. CASE service_admit
  BY <1>7, AdmitStep
<1>8. ASSUME NEW calibration \in {"none", "drawn", "failed"}, service_queue(calibration) PROVE IInv'
  BY <1>8, QueueStep
<1>9. CASE compose_waits
  BY <1>9, DropStep
<1>10. CASE compose_deferred
  BY <1>10, QuietStep
<1>11. CASE compose
  BY <1>11, ComposeStep
<1>12. ASSUME NEW b \in BOOLEAN, compose_refused(b) PROVE IInv'
  <2>1. CASE b = TRUE
    BY <1>12, <2>1, DropStep
  <2>2. CASE b = FALSE
    BY <1>12, <2>2, QuietStep
  <2> QED BY <2>1, <2>2
<1>13. ASSUME NEW b \in BOOLEAN, compose_fails(b) PROVE IInv'
  BY <1>13, ComposeFailsStep
<1>14. CASE prepare \/ configure_queue_patches \/ resume_session
  BY <1>14, QuietStep
<1>15. CASE reset_feed \/ reset_session
  BY <1>15, DropStep
<1>16. CASE destroy_device
  BY <1>16, DestroyStep
<1>17. ASSUME NEW p \in Profiles, set_patch_profile(p) PROVE IInv'
  BY <1>17, QuietStep
<1>18. ASSUME NEW f \in Formats, copy_patch(f) PROVE IInv'
  BY <1>18, QueueStep
<1>19. CASE UNCHANGED vars
  <2>1. UNCHANGED <<scene, packet, last_signal, owner, pc, incoming, item, pending, newest, committed, queue_config,
                    queue_snapshot, patches, reading, composed, changes>>
    BY <1>19 DEF vars, runtime, bounds
  <2>2. Types /\ DeviceFits /\ PacketsFit /\ PatchesAreCommitted /\ SnapshotIsCurrent
    BY DEF IInv
  <2>3. Types'
    BY <2>1, <2>2 DEF Types
  <2>4. DeviceFits'
    BY <2>1, <2>2 DEF DeviceFits
  <2>5. PacketsFit'
    <3>1. pc' = "compose" => ~item'.failed
      BY <2>1, <2>2 DEF PacketsFit, PendingIsNewest
    <3> QED BY <2>1, <2>2, <3>1, AfterStill
  <2> QED BY <2>1, <2>2, <2>3, <2>4, <2>5, RestStays DEF IInv
<1> QED BY <1>1, <1>2, <1>3, <1>4, <1>5, <1>6, <1>7, <1>8, <1>9, <1>10, <1>11, <1>12, <1>13, <1>14, <1>15, <1>16, <1>17,
        <1>18, <1>19 DEF Next

(* The invariant holds of every behaviour of scene_runtime.                *)
LEMMA Invariance == ASSUME FrameServiceAssumption PROVE Spec => []IInv
<1>1. Init => IInv
  BY InitIInv
<1>2. IInv /\ [Next]_vars => IInv'
  BY NextIInv
<1> QED BY <1>1, <1>2, PTL DEF Spec

(* One pending frame of each feed at most: its order is the newest.        *)
LEMMA OnePending ==
  ASSUME IInv, NEW f \in Feeds
  PROVE  Cardinality(pending[f]) <= 1
<1>0. Types /\ PacketsFit
  BY DEF IInv
<1>1. \A p, q \in pending[f] : p = q
  <2>1. pending[f] \subseteq Packets /\ pending[f] \subseteq Held
    BY <1>0 DEF Types, Held, Feeds
  <2>2. \A p \in pending[f] : p \in Packets /\ packet[p].state # "free" /\ packet[p].order = newest[f]
    BY <1>0, <2>1 DEF PacketsFit, LeasesAreHeld, PendingIsNewest
  <2> QED BY <1>0, <2>2 DEF PacketsFit, OrdersAreOwn
<1>2. CASE pending[f] = {}
  BY <1>2, FS_EmptySet
<1>3. CASE pending[f] # {}
  <2>1. PICK p : p \in pending[f]
    BY <1>3
  <2>2. pending[f] = {p}
    BY <1>1, <2>1
  <2> QED BY <2>2, FS_Singleton
<1> QED BY <1>2, <1>3

(* scene_runtime hands every frame back exactly once, lets nothing be      *)
(* captured into what the GPU reads, and offers only what it committed.    *)
THEOREM FramesSafe ==
  ASSUME FrameServiceAssumption
  PROVE  Spec => []FrameSafety
<1>1. ASSUME IInv PROVE FrameSafety
  <2>0. Types /\ DeviceFits /\ PacketsFit /\ PatchesAreCommitted /\ SnapshotIsCurrent
    BY <1>1 DEF IInv
  <2>1. TypeOK
    <3>1. \A p \in Packets : packet[p].state \in States
      BY <2>0 DEF Types, Frame
    <3>2. owner.generation \in Generations /\ item.generation \in Generations
      <4>1. /\ owner.generation \in Nat /\ item.generation \in Nat /\ MaxChanges \in Nat /\ changes \in 0..MaxChanges
            /\ owner.generation <= changes + 1 /\ item.generation <= changes + 1
        BY <2>0 DEF Types, DeviceFits, Device, Owner, FrameServiceAssumption
      <4> QED BY <4>1 DEF Generations
    <3>3. \A f \in Feeds : Cardinality(pending[f]) <= 1
      BY <1>1, OnePending
    <3> QED BY <2>0, <3>1, <3>2, <3>3 DEF TypeOK, Types, DeviceFits, States
  <2>2. LeasesAreHeld
    BY <2>0 DEF PacketsFit
  <2>3. NotReusedWhileRead
    BY <2>0 DEF PacketsFit, ReadingIsCovered, NotReusedWhileRead
  <2>4. OfferedIsCommitted
    BY <2>0 DEF SnapshotIsCurrent, OfferedIsCommitted, Offered
  <2> QED BY <2>1, <2>2, <2>3, <2>4 DEF FrameSafety
<1> QED BY <1>1, Invariance, PTL

(* Whatever order recordings retire in, a composition never shows a frame  *)
(* of either camera that is not newer than the last one shown.             *)
THEOREM FramesAreNewer ==
  ASSUME FrameServiceAssumption
  PROVE  Spec => NewerEveryTime
<1>1. ASSUME IInv, [Next]_vars, composed' # composed
      PROVE  \A f \in Feeds : composed'[f] > composed[f]
  <2>1. (\E b \in BOOLEAN : compose_fails(b)) \/ compose
    BY <1>1, Zenon DEF Next, vars, Between, capture, retire, finish_composition, first_scene, scene_changes, fail_device, service_poll,
       service_admit, service_queue, compose_waits, compose_deferred, compose_refused, prepare, configure_queue_patches,
       reset_feed, reset_session, resume_session, destroy_device, set_patch_profile, copy_patch
  <2>2. Composable /\ composed' = Pair
    BY <2>1 DEF compose_fails, compose
  <2>3. ASSUME NEW f \in Feeds PROVE composed'[f] > composed[f]
    <3>1. composed[f] < Pair[f]
      BY <1>1, <2>2, PairIsNewest
    <3>2. Pair[f] \in Nat /\ composed[f] \in Nat
      <4>1. Pair \in Shown
        BY <1>1, <2>2, PairIsNewest
      <4> QED BY <1>1, <4>1 DEF Shown, IInv, Types
    <3> QED BY <2>2, <3>1, <3>2
  <2> QED BY <2>3
<1>2. IInv /\ [Next]_vars => [composed' # composed => \A f \in Feeds : composed'[f] > composed[f]]_vars
  BY <1>1
<1> QED BY <1>2, Invariance, PTL DEF Spec, NewerEveryTime
-----------------------------------------------------------------------------
(* The inspection of memory: what the variables are.                       *)
Protections == {"rw", "ro", "none"}
AllKinds    == Memory!Kinds \union {"free"}
PageStates  == [alloc : Memory!Fits \union {Memory!Free}, committed : BOOLEAN, protection : Protections]
Looks       == [owner : 0..PageCount, kind : AllKinds, committed : BOOLEAN, protection : Protections]
Answers     == [base : Memory!Pages, size : Memory!Pages, owner : 0..PageCount, kind : AllKinds,
                committed : BOOLEAN, protection : Protections]
PageProofs  == [base : Memory!Pages, protection : Protections, allocation : Nat]
FieldKinds  == Memory!Kinds \union {"none"}
FieldSteps  == {"idle", "look", "allocation", "page", "region", "exact", "copy"}
FieldStates == [kind : FieldKinds, at : 0..PageCount, last : 0..PageCount, step : FieldSteps,
                copy : 0..PageCount]
MemoryTypes ==
  /\ mem \in [Memory!Pages -> PageStates] /\ mem_changes \in 0..MaxRemaps
  /\ mode \in {"none", "regions", "pages"} /\ failed \in BOOLEAN /\ attempted \in 0..ReadLimit
  /\ field \in FieldStates
  /\ aba \in [Memory!Pages -> BOOLEAN] /\ before \in [Memory!Pages -> SUBSET Looks]
  /\ regions \in Seq(Answers) /\ pages \in Seq(PageProofs) /\ allocations \in Seq(Memory!Fits)

(* Of free pages nothing is committed, and an allocation has all its pages.*)
MemoryFits ==
  \A p \in Memory!Pages :
    /\ mem[p].alloc = Memory!Free => mem[p] = Memory!Blank
    /\ mem[p].alloc # Memory!Free =>
         /\ p \in Memory!Span(mem[p].alloc)
         /\ \A q \in Memory!Span(mem[p].alloc) : mem[q].alloc = mem[p].alloc

(* A page that shows what it showed before has come back.                  *)
ReturnsAreSeen == \A p \in Memory!Pages : Memory!Shows(mem, p) \in before[p] => aba[p]

(* What a proof says of its pages.                                         *)
SaidByRegion(r) ==
  [owner |-> r.owner, kind |-> r.kind, committed |-> r.committed, protection |-> r.protection]
SaidByPage(i) ==
  LET a == allocations[pages[i].allocation]
  IN [owner |-> a.base, kind |-> a.kind, committed |-> TRUE, protection |-> pages[i].protection]
ShowsFree == [owner |-> 0, kind |-> "free", committed |-> FALSE, protection |-> "none"]

(* Of page p, the allocation was replaced: it can return only through free *)
(* memory, which the page then shows once more.                            *)
Lost(a, p) == ShowsFree \in before[p] /\ mem[p].alloc \notin {a, Memory!Free}

(* What a proof says is so, or was so, or the page came back.              *)
AllocationsFit ==
  \A i \in DOMAIN allocations : \A p \in Memory!Span(allocations[i]) :
    aba[p] \/ mem[p].alloc \in {allocations[i], Memory!Free} \/ ShowsFree \in before[p]
RegionsFit ==
  \A i \in DOMAIN regions : \A p \in Memory!Pages : Memory!region_contains(regions[i], p) =>
    \/ aba[p]
    \/ Memory!Shows(mem, p) = SaidByRegion(regions[i])
    \/ SaidByRegion(regions[i]) \in before[p]
PagesFit ==
  \A i \in DOMAIN pages :
    LET p == pages[i].base  a == allocations[pages[i].allocation]
    IN /\ pages[i].allocation \in DOMAIN allocations /\ p \in Memory!Span(a)
       /\ aba[p] \/ Memory!Shows(mem, p) = SaidByPage(i) \/ SaidByPage(i) \in before[p] \/ Lost(a, p)

(* The proofs that allow a read of page p as memory of kind k.             *)
PageCovers(i, p, k) == pages[i].base = p /\ allocations[pages[i].allocation].kind = k
RegionCovers(r, p, k) == Memory!region_contains(r, p) /\ Memory!Readable(r, k)
Covered(p, k) ==
  \/ \E i \in DOMAIN pages : PageCovers(i, p, k)
  \/ \E i \in DOMAIN regions : RegionCovers(regions[i], p, k)

(* What was copied is what its proof says, or the proof cannot be confirmed*)
(* any more.                                                               *)
CopyFits(p) ==
  \/ aba[p]
  \/ \E i \in DOMAIN pages :
       /\ PageCovers(i, p, got[p].is)
       /\ \/ Memory!Shows(mem, p) = SaidByPage(i) /\ got[p].was = SaidByPage(i)
          \/ SaidByPage(i) \in before[p] \/ Lost(allocations[pages[i].allocation], p)
  \/ \E i \in DOMAIN regions :
       /\ RegionCovers(regions[i], p, got[p].is)
       /\ \/ Memory!Shows(mem, p) = SaidByRegion(regions[i]) /\ got[p].was = SaidByRegion(regions[i])
          \/ SaidByRegion(regions[i]) \in before[p]
CopiesFit == mode # "none" => \A p \in Memory!Pages : got[p].is # "none" => CopyFits(p)

(* The read under way: what it is to copy is covered so far.               *)
FieldFits ==
  field.step # "idle" =>
    /\ mode # "none" /\ field.kind \in Memory!Kinds
    /\ 1 <= field.copy /\ field.copy <= field.at /\ field.at <= field.last
    /\ \A p \in field.copy..(IF field.step = "copy" THEN field.at ELSE field.at - 1) :
         Covered(p, field.kind)
    /\ field.step \in {"allocation", "page"} => Len(pages) < PageLimit
    /\ field.step = "allocation" => Memory!Allocation(field.at) = {}
    /\ field.step = "page" =>
         /\ Memory!Allocation(field.at) # {}
         /\ \A i \in Memory!Allocation(field.at) : allocations[i].kind = field.kind
    /\ field.step = "exact" => Len(regions) < RegionLimit
LimitsFit ==
  Len(regions) <= RegionLimit /\ Len(pages) <= PageLimit /\ Len(allocations) <= AllocationLimit
VerdictFits == (mode # "none" => verdict = "open") /\ Memory!AcceptedIsUnchanged

MemoryIInv ==
  /\ MemoryTypes /\ MemoryFits /\ ReturnsAreSeen /\ AllocationsFit /\ RegionsFit /\ PagesFit
  /\ CopiesFit /\ FieldFits /\ LimitsFit /\ VerdictFits

(* The longer list begins with the other.                                  *)
Grows(old, new) == \A i \in DOMAIN old : i \in DOMAIN new /\ new[i] = old[i]

(* The constants.                                                          *)
LEMMA MemoryBounds ==
  /\ PageCount \in Nat \ {0} /\ Window \in Nat \ {0} /\ RegionLimit \in Nat \ {0}
        /\ PageLimit \in Nat \ {0}
  /\ AllocationLimit \in Nat \ {0} /\ ReadLimit \in Nat \ {0} /\ MaxRemaps \in Nat
BY AddedAssumption DEF Memory!MemoryProofAssumption

(* What an allocation is.                                                  *)
LEMMA FitsAre == \A a \in Memory!Fits : a.base \in Memory!Pages /\ a.size \in 1..PageCount
  /\ a.kind \in Memory!Kinds
  /\ a # Memory!Free /\ Memory!Span(a) \subseteq Memory!Pages /\ a.base \in Memory!Span(a)
        /\ Memory!Span(a) = a.base..a.base + a.size - 1
BY MemoryBounds DEF Memory!Fits, Memory!Allocated, Memory!Pages, Memory!Span, Memory!Free,
      Memory!Kinds

(* What a page shows.                                                      *)
LEMMA ShowsAre == ASSUME NEW m \in [Memory!Pages -> PageStates], NEW p \in Memory!Pages
  PROVE /\ Memory!Shows(m, p) \in Looks /\ Memory!Shows(m, p).owner = m[p].alloc.base
            /\ Memory!Shows(m, p).kind = m[p].alloc.kind
        /\ Memory!Shows(m, p).committed = m[p].committed
              /\ Memory!Shows(m, p).protection = m[p].protection
<1>1. m[p].alloc \in Memory!Fits \union {Memory!Free} /\ m[p].committed \in BOOLEAN
      /\ m[p].protection \in Protections
  BY DEF PageStates
<1>2. m[p].alloc.base \in 0..PageCount /\ m[p].alloc.kind \in Memory!Kinds \union {"free"}
  BY <1>1, FitsAre, MemoryBounds DEF Memory!Free, Memory!Pages
<1> QED BY <1>1, <1>2 DEF Memory!Shows, Looks, AllKinds

(* A set of numbers has a least one.                                       *)
LEMMA Smallest ==
  ASSUME NEW T \in SUBSET Nat, T # {}
  PROVE \E k \in T : \A m \in T : k <= m
<1>1. IsWellFoundedOn(OpToRel(<, Nat), Nat)
  BY NatLessThanWellFounded
<1>2. \A x, y \in Nat : (<<y, x>> \in OpToRel(<, Nat)) <=> y < x
  BY DEF OpToRel
<1>3. \E R : IsWellFoundedOn(R, Nat) /\ \A x, y \in Nat : (<<y, x>> \in R) <=> y < x
  BY <1>1, <1>2, Zenon
<1>4. PICK R : IsWellFoundedOn(R, Nat) /\ \A x, y \in Nat : (<<y, x>> \in R) <=> y < x
  BY <1>3
<1>5. \E x \in T : \A y \in T : ~(<<y, x>> \in R)
  BY <1>4, WFMin
<1>6. PICK x \in T : \A y \in T : ~(<<y, x>> \in R)
  BY <1>5
<1>7. ASSUME NEW y \in T PROVE x <= y
  <2>1. x \in Nat /\ y \in Nat
    OBVIOUS
  <2>2. ~(y < x)
    BY <2>1, <1>4, <1>6, Zenon
  <2> QED BY <2>1, <2>2
<1> QED BY <1>7

(* The run of like pages exists.                                           *)
LEMMA RunIs == ASSUME NEW p \in Memory!Pages
  PROVE /\ Memory!Run(p) \in 1..PageCount - p + 1
        /\ \A q \in p..p + Memory!Run(p) - 1 : mem[q] = mem[p]
<1> DEFINE T == {n \in Nat : n >= 1 /\ (p + n > PageCount \/ mem[p + n] # mem[p])}
<1>1. p \in Nat /\ p >= 1 /\ p <= PageCount /\ PageCount \in Nat
  BY MemoryBounds DEF Memory!Pages
<1>2. PageCount - p + 1 \in T
  BY <1>1
<1>3. T \in SUBSET Nat /\ T # {}
  BY <1>2
<1> HIDE DEF T
<1>4. PICK n \in T : \A m \in T : n <= m
  BY <1>3, Smallest
<1> USE DEF T
<1>5. n \in 1..PageCount - p + 1
  BY <1>1, <1>2, <1>4
<1>6. ASSUME NEW q \in p..p + n - 1 PROVE mem[q] = mem[p]
  <2>1. CASE q = p
    BY <2>1
  <2>2. CASE q # p
    <3>1. q - p \in Nat /\ q - p >= 1 /\ q - p < n /\ p + (q - p) = q
      BY <1>1, <1>5, <2>2
    <3>2. q - p \notin T
      BY <3>1, <1>4, <1>5
    <3> QED BY <3>1, <3>2
  <2> QED BY <2>1, <2>2
<1>7. p + n <= PageCount => mem[p + n] # mem[p]
  BY <1>4, <1>5, <1>1
<1>8. \E k \in 1..PageCount - p + 1 :
        /\ \A q \in p..p + k - 1 : mem[q] = mem[p]
        /\ p + k <= PageCount => mem[p + k] # mem[p]
  BY <1>5, <1>6, <1>7
<1> QED BY <1>8 DEF Memory!Run

(* The answer to a query is true of every page in it.                      *)
LEMMA QueryIs == ASSUME MemoryTypes, NEW p \in Memory!Pages
  PROVE LET r == Memory!query_memory_uncached(p) IN
    /\ r \in Answers /\ r.base = p /\ Memory!region_contains(r, p)
          /\ SaidByRegion(r) = Memory!Shows(mem, p)
    /\ r.owner = mem[p].alloc.base /\ r.kind = mem[p].alloc.kind
    /\ r.committed = mem[p].committed /\ r.protection = mem[p].protection
    /\ \A q \in Memory!Pages : Memory!region_contains(r, q)
          => Memory!Shows(mem, q) = SaidByRegion(r)
<1> DEFINE r == Memory!query_memory_uncached(p)
<1>1. mem[p].alloc \in Memory!Fits \union {Memory!Free} /\ mem[p].committed \in BOOLEAN
      /\ mem[p].protection \in Protections
  BY DEF MemoryTypes, PageStates
<1>2. mem[p].alloc.base \in 0..PageCount /\ mem[p].alloc.kind \in Memory!Kinds \union {"free"}
  BY <1>1, FitsAre, MemoryBounds DEF Memory!Free, Memory!Pages
<1>3. Memory!Run(p) \in Memory!Pages /\ p \in Nat
  BY RunIs, MemoryBounds DEF Memory!Pages
<1>4. r \in Answers
  BY <1>1, <1>2, <1>3 DEF Memory!query_memory_uncached, Answers, AllKinds
<1>5. /\ r.base = p /\ r.size = Memory!Run(p) /\ SaidByRegion(r) = Memory!Shows(mem, p)
      /\ r.owner = mem[p].alloc.base /\ r.kind = mem[p].alloc.kind
      /\ r.committed = mem[p].committed /\ r.protection = mem[p].protection
  BY DEF Memory!query_memory_uncached, SaidByRegion, Memory!Shows
<1> HIDE DEF r
<1>6. Memory!region_contains(r, p)
  BY <1>3, <1>5, MemoryBounds DEF Memory!region_contains, Memory!Pages
<1>7. ASSUME NEW q \in Memory!Pages, Memory!region_contains(r, q)
      PROVE Memory!Shows(mem, q) = SaidByRegion(r)
  <2>1. q \in p..p + Memory!Run(p) - 1
    BY <1>3, <1>5, <1>7, MemoryBounds DEF Memory!region_contains, Memory!Pages
  <2>2. mem[q] = mem[p]
    BY <2>1, RunIs
  <2> QED BY <2>2, <1>5 DEF Memory!Shows
<1>8. r = Memory!query_memory_uncached(p)
  BY DEF r
<1> QED BY <1>4, <1>5, <1>6, <1>7, <1>8

(* The invariant holds at first.                                           *)
LEMMA MemoryInitFits == Memory!Init => MemoryIInv
<1> SUFFICES ASSUME Memory!Init PROVE MemoryIInv
  OBVIOUS
<1>1. PICK n \in 1..PageCount - 1 : \E guarded \in {{}, {n}} :
       mem = [p \in Memory!Pages |->
         [alloc |-> IF p <= n THEN [base |-> 1, size |-> n, kind |-> "private"]
                    ELSE [base |-> n + 1, size |-> PageCount - n, kind |-> "image"],
          committed |-> TRUE, protection |-> IF p \in guarded THEN "none" ELSE IF p <= n
                THEN "rw" ELSE "ro"]]
  BY DEF Memory!Init
<1> DEFINE a == [base |-> 1, size |-> n, kind |-> "private"]
           b == [base |-> n + 1, size |-> PageCount - n, kind |-> "image"]
<1>2. a \in Memory!Fits /\ b \in Memory!Fits /\ Memory!Span(a) = 1..n
      /\ Memory!Span(b) = n + 1..PageCount
  <2>1. a.base = 1 /\ a.size = n /\ b.base = n + 1 /\ b.size = PageCount - n /\ n \in Nat \ {0} /\ n < PageCount
        /\ PageCount \in Nat
    BY MemoryBounds
  <2>2. a \in Memory!Allocated /\ b \in Memory!Allocated
    BY <2>1 DEF Memory!Allocated, Memory!Pages, Memory!Kinds
  <2> HIDE DEF a, b
  <2> QED BY <2>1, <2>2 DEF Memory!Fits, Memory!Span
<1>20. PICK guarded \in {{}, {n}} : mem = [p \in Memory!Pages |-> [alloc |-> IF p <= n THEN a
      ELSE b,
          committed |-> TRUE, protection |-> IF p \in guarded THEN "none" ELSE IF p <= n
                THEN "rw" ELSE "ro"]]
  BY <1>1
<1> HIDE DEF a, b
<1>3. \A p \in Memory!Pages : mem[p].alloc = IF p <= n THEN a ELSE b
  BY <1>20
<1>4. mem \in [Memory!Pages -> PageStates]
  BY <1>20, <1>2 DEF PageStates, Protections
<1>5. MemoryFits
  BY <1>2, <1>3, FitsAre, MemoryBounds DEF MemoryFits, Memory!Pages
<1>6. /\ mem_changes = 0 /\ mode = "none" /\ regions = <<>> /\ pages = <<>> /\ allocations = <<>>
      /\ failed = FALSE /\ attempted = 0 /\ field = Memory!NoField /\ verdict = "none"
      /\ before = [p \in Memory!Pages |-> {}] /\ aba = [p \in Memory!Pages |-> FALSE]
  BY DEF Memory!Init
<1>7. MemoryTypes
  <2>1. field \in FieldStates
    BY <1>6, MemoryBounds DEF Memory!NoField, FieldStates, FieldKinds, FieldSteps, Memory!Kinds
  <2>2. aba \in [Memory!Pages -> BOOLEAN] /\ before \in [Memory!Pages -> SUBSET Looks]
    BY <1>6
  <2>3. regions \in Seq(Answers) /\ pages \in Seq(PageProofs) /\ allocations \in Seq(Memory!Fits)
    BY <1>6
  <2>4. mem_changes \in 0..MaxRemaps /\ mode \in {"none", "regions", "pages"}
        /\ failed \in BOOLEAN /\ attempted \in 0..ReadLimit
    <3>1. mem_changes \in 0..MaxRemaps /\ attempted \in 0..ReadLimit
          /\ mode \in {"none", "regions", "pages"}
      BY <1>6, MemoryBounds
    <3>2. failed \in BOOLEAN
      BY <1>6
    <3> QED BY <3>1, <3>2
  <2> QED BY <1>4, <2>1, <2>2, <2>3, <2>4 DEF MemoryTypes
<1>8. ReturnsAreSeen /\ AllocationsFit /\ RegionsFit /\ PagesFit /\ CopiesFit
  BY <1>6 DEF ReturnsAreSeen, AllocationsFit, RegionsFit, PagesFit, CopiesFit
<1>9. FieldFits /\ LimitsFit /\ VerdictFits
  BY <1>6, MemoryBounds DEF FieldFits, LimitsFit, VerdictFits, Memory!NoField,
        Memory!AcceptedIsUnchanged
<1> QED BY <1>5, <1>7, <1>8, <1>9 DEF MemoryIInv

(* A free page shows that it is free.                                      *)
LEMMA BlankShows == ASSUME NEW m, NEW p, m[p] = Memory!Blank PROVE Memory!Shows(m, p) = ShowsFree
<1>1. Memory!Blank.alloc = Memory!Free /\ Memory!Blank.protection = "none"
      /\ Memory!Free.base = 0 /\ Memory!Free.kind = "free"
  BY DEF Memory!Blank, Memory!Free
<1>2. Memory!Blank.committed = FALSE
  BY Zenon DEF Memory!Blank
<1>3. Memory!Shows(m, p) =
      [owner |-> Memory!Blank.alloc.base, kind |-> Memory!Blank.alloc.kind, committed |-> Memory!Blank.committed,
                     protection |-> Memory!Blank.protection]
  BY Zenon DEF Memory!Shows
<1> QED BY <1>1, <1>2, <1>3, Zenon DEF ShowsFree

(* A change of memory that takes or gives back allocations only as a whole,*)
(* and to others only through free memory.                                 *)
LEMMA BecomesKeeps ==
  ASSUME MemoryIInv, NEW f, Memory!Becomes(f), mem' \in [Memory!Pages -> PageStates], MemoryFits',
         \A p \in Memory!Pages : mem'[p].alloc # mem[p].alloc => mem[p].alloc = Memory!Free
               \/ mem'[p].alloc = Memory!Free
  PROVE  MemoryIInv'
<1> USE DEF MemoryIInv
<1> DEFINE IsLost(a, p) == ShowsFree \in before'[p] /\ mem'[p].alloc \notin {a, Memory!Free}
<1>1. /\ mem_changes < MaxRemaps /\ mem_changes' = mem_changes + 1
      /\ UNCHANGED <<mode, Memory!proofs, failed, attempted, field, verdict, got, final>>
  BY DEF Memory!Becomes
<1>2. /\ regions' = regions /\ pages' = pages /\ allocations' = allocations /\ mode' = mode
      /\ got' = got
      /\ field' = field /\ verdict' = verdict /\ final' = final
  BY <1>1 DEF Memory!proofs
<1>3. ASSUME NEW p \in Memory!Pages
      PROVE /\ Memory!Shows(mem, p) \in Looks /\ Memory!Shows(mem', p) \in Looks
            /\ before'[p] = IF Memory!Shows(mem', p) = Memory!Shows(mem, p) THEN before[p]
                  ELSE before[p] \union {Memory!Shows(mem, p)}
            /\ aba'[p] = (aba[p] \/ (Memory!Shows(mem', p) # Memory!Shows(mem, p)
                  /\ Memory!Shows(mem', p) \in before[p]))
  BY ShowsAre DEF Memory!Becomes, MemoryTypes
<1>4. ASSUME NEW p \in Memory!Pages
      PROVE /\ aba[p] => aba'[p]
            /\ before[p] \subseteq before'[p]
            /\ Memory!Shows(mem', p) # Memory!Shows(mem, p) => Memory!Shows(mem, p) \in before'[p]
  BY <1>3
<1>40. ASSUME NEW p \in Memory!Pages, NEW x, x \in before[p] PROVE x \in before'[p]
  BY <1>40, <1>4
<1>41. ASSUME NEW p \in Memory!Pages, NEW x, Memory!Shows(mem, p) = x
      PROVE Memory!Shows(mem', p) = x \/ x \in before'[p]
  BY <1>41, <1>4
<1>5. MemoryTypes'
  <2>1. aba' \in [Memory!Pages -> BOOLEAN]
    BY <1>3 DEF Memory!Becomes, MemoryTypes
  <2>2. before' \in [Memory!Pages -> SUBSET Looks]
    BY <1>3 DEF Memory!Becomes, MemoryTypes
  <2>3. mem_changes' \in 0..MaxRemaps
    BY <1>1, MemoryBounds DEF MemoryTypes
  <2> QED BY <1>1, <1>2, <2>1, <2>2, <2>3 DEF MemoryTypes
<1>6. ReturnsAreSeen'
  BY <1>3 DEF ReturnsAreSeen
<1>7. ASSUME NEW p \in Memory!Pages, mem[p].alloc = Memory!Free
      PROVE Memory!Shows(mem, p) = ShowsFree
  <2>1. mem[p] = Memory!Blank
    BY <1>7 DEF MemoryFits
  <2> QED BY <2>1, BlankShows
<1>8. ASSUME NEW p \in Memory!Pages, mem'[p].alloc = Memory!Free
      PROVE Memory!Shows(mem', p) = ShowsFree
  <2>1. mem'[p] = Memory!Blank
    BY <1>8 DEF MemoryFits
  <2> QED BY <2>1, BlankShows
<1>9. ASSUME NEW p \in Memory!Pages
      PROVE mem[p].alloc \in Memory!Fits \union {Memory!Free}
                /\ mem'[p].alloc \in Memory!Fits \union {Memory!Free}
  BY DEF MemoryTypes, PageStates
<1>10. \A p \in Memory!Pages :
         /\ mem[p].alloc # Memory!Free => Memory!Shows(mem, p) # ShowsFree
         /\ mem'[p].alloc # Memory!Free => Memory!Shows(mem', p) # ShowsFree
  BY <1>9, FitsAre DEF Memory!Shows, ShowsFree, Memory!Kinds
<1>11. ASSUME NEW p \in Memory!Pages, NEW a \in Memory!Fits, Lost(a, p)
      PROVE aba'[p] \/ IsLost(a, p)
  <2>1. ShowsFree \in before[p] /\ mem[p].alloc # a /\ mem[p].alloc # Memory!Free
    BY <1>11 DEF Lost
  <2>2. CASE mem'[p].alloc = Memory!Free
    <3>1. Memory!Shows(mem', p) = ShowsFree /\ Memory!Shows(mem, p) # ShowsFree
      BY <2>1, <2>2, <1>8, <1>10
    <3>2. Memory!Shows(mem', p) \in before'[p]
      BY <2>1, <3>1, <1>4
    <3>3. aba'[p] = (aba[p] \/ (Memory!Shows(mem', p) # Memory!Shows(mem, p)
          /\ Memory!Shows(mem', p) \in before'[p]))
      BY <3>1, <2>1, <1>3
    <3> QED BY <3>1, <3>2, <3>3
  <2>3. CASE mem'[p].alloc # Memory!Free
    <3>1. mem'[p].alloc = mem[p].alloc
      BY <2>1, <2>3
    <3> QED BY <3>1, <2>1, <1>4 DEF Lost
  <2> QED BY <2>2, <2>3
<1>12. AllocationsFit'
  <2> SUFFICES ASSUME NEW i \in DOMAIN allocations, NEW p \in Memory!Span(allocations[i])
               PROVE  aba'[p] \/ mem'[p].alloc \in {allocations[i], Memory!Free}
                         \/ ShowsFree \in before'[p]
    BY <1>2 DEF AllocationsFit
  <2>1. allocations[i] \in Memory!Fits
    BY DEF MemoryTypes
  <2>2. p \in Memory!Pages
    BY <2>1, FitsAre
  <2>3. aba[p] \/ mem[p].alloc \in {allocations[i], Memory!Free} \/ ShowsFree \in before[p]
    BY DEF AllocationsFit
  <2>4. CASE aba[p] \/ ShowsFree \in before[p]
    BY <2>2, <2>4, <1>4
  <2>5. CASE mem[p].alloc = Memory!Free
    <3>1. Memory!Shows(mem, p) = ShowsFree
      BY <2>2, <2>5, <1>7
    <3>2. CASE Memory!Shows(mem', p) = ShowsFree
      <4>1. mem'[p].alloc = Memory!Free
        BY <2>2, <3>2, <1>10
      <4> QED BY <4>1
    <3>3. CASE Memory!Shows(mem', p) # ShowsFree
      <4>1. ShowsFree \in before'[p]
        BY <2>2, <3>1, <3>3, <1>4
      <4> QED BY <4>1
    <3> QED BY <3>2, <3>3
  <2>6. CASE mem[p].alloc = allocations[i]
    BY <2>1, <2>2, <2>6, FitsAre
  <2> QED BY <2>3, <2>4, <2>5, <2>6
<1>13. RegionsFit'
  <2> SUFFICES ASSUME NEW i \in DOMAIN regions, NEW p \in Memory!Pages,
        Memory!region_contains(regions[i], p)
               PROVE  aba'[p] \/ Memory!Shows(mem', p) = SaidByRegion(regions[i])
                         \/ SaidByRegion(regions[i]) \in before'[p]
    BY <1>2 DEF RegionsFit
  <2>1. aba[p] \/ Memory!Shows(mem, p) = SaidByRegion(regions[i])
        \/ SaidByRegion(regions[i]) \in before[p]
    BY DEF RegionsFit
  <2> QED BY <2>1, <1>4
<1>14. ASSUME NEW i \in DOMAIN pages
       PROVE /\ pages[i].allocation \in DOMAIN allocations /\ pages[i].base \in Memory!Pages
             /\ allocations[pages[i].allocation] \in Memory!Fits
                   /\ pages[i].base \in Memory!Span(allocations[pages[i].allocation])
             /\ SaidByPage(i)' = SaidByPage(i)
  <2>1. pages[i] \in PageProofs
    BY DEF MemoryTypes
  <2>2. pages[i].base \in Memory!Pages /\ pages[i].allocation \in DOMAIN allocations
        /\ pages[i].base \in Memory!Span(allocations[pages[i].allocation])
    BY <2>1 DEF PagesFit, PageProofs
  <2>3. allocations[pages[i].allocation] \in Memory!Fits
    BY <2>2 DEF MemoryTypes
  <2>4. SaidByPage(i)' = SaidByPage(i)
    BY <1>2 DEF SaidByPage
  <2> QED BY <2>2, <2>3, <2>4
<1>15. PagesFit'
  <2>0. ASSUME NEW i \in DOMAIN pages, NEW p \in Memory!Pages, NEW a \in Memory!Fits,
        p = pages[i].base, a = allocations[pages[i].allocation]
        PROVE  aba'[p] \/ Memory!Shows(mem', p) = SaidByPage(i) \/ SaidByPage(i) \in before'[p]
                  \/ IsLost(a, p)
    <3>1. aba[p] \/ Memory!Shows(mem, p) = SaidByPage(i) \/ SaidByPage(i) \in before[p]
          \/ Lost(a, p)
      BY <2>0 DEF PagesFit
    <3>2. CASE Lost(a, p)
      BY <3>2, <1>11
    <3>3. CASE SaidByPage(i) \in before[p]
      BY <3>3, <1>40, Zenon
    <3>4. CASE Memory!Shows(mem, p) = SaidByPage(i)
      BY <3>4, <1>41, Zenon
    <3>5. CASE aba[p]
      BY <3>5, <1>4, Zenon
    <3> QED BY <3>1, <3>2, <3>3, <3>4, <3>5
  <2>1. ASSUME NEW i \in DOMAIN pages
        PROVE  LET p == pages[i].base  a == allocations[pages[i].allocation]
               IN /\ pages[i].allocation \in DOMAIN allocations /\ p \in Memory!Span(a)
                  /\ aba'[p] \/ Memory!Shows(mem', p) = SaidByPage(i)'
                        \/ SaidByPage(i)' \in before'[p] \/ IsLost(a, p)
    <3> DEFINE p == pages[i].base  a == allocations[pages[i].allocation]
    <3>1. /\ pages[i].allocation \in DOMAIN allocations /\ p \in Memory!Pages
          /\ a \in Memory!Fits /\ p \in Memory!Span(a)
          /\ SaidByPage(i)' = SaidByPage(i)
      BY <1>14
    <3>2. aba'[p] \/ Memory!Shows(mem', p) = SaidByPage(i) \/ SaidByPage(i) \in before'[p]
          \/ IsLost(a, p)
      BY <3>1, <2>0
    <3> QED BY <3>1, <3>2
  <2> QED BY <2>1, <1>2 DEF PagesFit, Lost
<1>16. CopiesFit'
  <2> SUFFICES ASSUME mode # "none", NEW p \in Memory!Pages, got[p].is # "none" PROVE CopyFits(p)'
    BY <1>2 DEF CopiesFit
  <2>1. CopyFits(p)
    BY DEF CopiesFit
  <2>2. CASE aba[p]
    BY <2>2, <1>4 DEF CopyFits
  <2>3. ASSUME NEW i \in DOMAIN pages, PageCovers(i, p, got[p].is),
               \/ Memory!Shows(mem, p) = SaidByPage(i) /\ got[p].was = SaidByPage(i)
               \/ SaidByPage(i) \in before[p] \/ Lost(allocations[pages[i].allocation], p)
        PROVE  CopyFits(p)'
    <3>1. PageCovers(i, p, got[p].is)'
      BY <2>3, <1>2 DEF PageCovers
    <3>2. SaidByPage(i)' = SaidByPage(i) /\ allocations[pages[i].allocation] \in Memory!Fits
      BY <1>14
    <3>3. \/ aba'[p]
          \/ Memory!Shows(mem', p) = SaidByPage(i) /\ got[p].was = SaidByPage(i)
          \/ SaidByPage(i) \in before'[p]
          \/ IsLost(allocations[pages[i].allocation], p)
      <4>1. CASE Lost(allocations[pages[i].allocation], p)
        BY <4>1, <3>2, <1>11, Zenon
      <4>2. CASE SaidByPage(i) \in before[p]
        BY <4>2, <1>40, Zenon
      <4>3. CASE Memory!Shows(mem, p) = SaidByPage(i) /\ got[p].was = SaidByPage(i)
        <5>1. CASE Memory!Shows(mem', p) = Memory!Shows(mem, p)
          BY <4>3, <5>1
        <5>2. CASE Memory!Shows(mem', p) # Memory!Shows(mem, p)
          BY <4>3, <5>2, <1>4
        <5> QED BY <5>1, <5>2
      <4> QED BY <2>3, <4>1, <4>2, <4>3
    <3> QED BY <3>1, <3>2, <3>3, <1>2 DEF CopyFits, Lost
  <2>4. ASSUME NEW i \in DOMAIN regions, RegionCovers(regions[i], p, got[p].is),
               \/ /\ Memory!Shows(mem, p) = SaidByRegion(regions[i])
                  /\ got[p].was = SaidByRegion(regions[i])
               \/ SaidByRegion(regions[i]) \in before[p]
        PROVE  CopyFits(p)'
    <3>1. \/ /\ Memory!Shows(mem', p) = SaidByRegion(regions[i])
             /\ got[p].was = SaidByRegion(regions[i])
          \/ SaidByRegion(regions[i]) \in before'[p]
      <4>1. CASE SaidByRegion(regions[i]) \in before[p]
        BY <4>1, <1>40, Zenon
      <4>2. CASE Memory!Shows(mem, p) = SaidByRegion(regions[i])
            /\ got[p].was = SaidByRegion(regions[i])
        <5>1. CASE Memory!Shows(mem', p) = Memory!Shows(mem, p)
          BY <4>2, <5>1
        <5>2. CASE Memory!Shows(mem', p) # Memory!Shows(mem, p)
          BY <4>2, <5>2, <1>4
        <5> QED BY <5>1, <5>2
      <4> QED BY <2>4, <4>1, <4>2
    <3> QED BY <2>4, <3>1, <1>2 DEF CopyFits
  <2> QED BY <2>1, <2>2, <2>3, <2>4 DEF CopyFits
<1>17. FieldFits' /\ LimitsFit'
  BY <1>2 DEF FieldFits, LimitsFit, Covered, PageCovers, RegionCovers, Memory!Allocation
<1>18. VerdictFits'
  BY <1>2, <1>4 DEF VerdictFits, Memory!AcceptedIsUnchanged
<1> QED BY <1>5, <1>6, <1>12, <1>13, <1>15, <1>16, <1>17, <1>18

(* An allocation is given back.                                            *)
LEMMA FreesKeeps == ASSUME MemoryIInv, NEW x \in Memory!Pages, Memory!frees(x) PROVE MemoryIInv'
<1> DEFINE a == mem[x].alloc
<1>1. \A p \in Memory!Pages : mem[p].alloc \in Memory!Fits \union {Memory!Free}
      /\ mem[p] \in PageStates
  BY DEF MemoryIInv, MemoryTypes, PageStates
<1>2. a \in Memory!Fits
  BY <1>1, MemoryBounds DEF Memory!frees, Memory!Free, Memory!Pages
<1>3. Memory!Span(a) \subseteq Memory!Pages /\ \A q \in Memory!Span(a) : mem[q].alloc = a
  BY <1>2, FitsAre DEF MemoryIInv, MemoryFits
<1>4. Memory!Becomes([q \in Memory!Span(a) |-> Memory!Blank])
  BY DEF Memory!frees
<1>5. mem' = [p \in Memory!Pages |-> IF p \in Memory!Span(a) THEN Memory!Blank ELSE mem[p]]
  BY <1>4 DEF Memory!Becomes
<1> HIDE DEF a
<1>6. Memory!Blank \in PageStates /\ Memory!Blank.alloc = Memory!Free
  BY DEF Memory!Blank, PageStates, Protections
<1>7. mem' \in [Memory!Pages -> PageStates]
  BY <1>1, <1>5, <1>6
<1>8. \A p \in Memory!Pages : mem'[p] = IF p \in Memory!Span(a) THEN Memory!Blank ELSE mem[p]
  BY <1>5
<1>9. MemoryFits'
  <2> SUFFICES ASSUME NEW p \in Memory!Pages
               PROVE  /\ mem'[p].alloc = Memory!Free => mem'[p] = Memory!Blank
                      /\ mem'[p].alloc # Memory!Free => p \in Memory!Span(mem'[p].alloc)
                            /\ \A q \in Memory!Span(mem'[p].alloc) : mem'[q].alloc = mem'[p].alloc
    BY DEF MemoryFits
  <2>1. CASE p \in Memory!Span(a)
    BY <2>1, <1>8, <1>6
  <2>2. CASE p \notin Memory!Span(a) /\ mem[p].alloc = Memory!Free
    BY <2>2, <1>8 DEF MemoryIInv, MemoryFits
  <2>3. CASE p \notin Memory!Span(a) /\ mem[p].alloc # Memory!Free
    <3>1. mem'[p] = mem[p] /\ mem[p].alloc \in Memory!Fits
      BY <2>3, <1>8, <1>1
    <3>2. p \in Memory!Span(mem[p].alloc)
          /\ \A q \in Memory!Span(mem[p].alloc) : mem[q].alloc = mem[p].alloc
      BY <2>3 DEF MemoryIInv, MemoryFits
    <3>3. \A q \in Memory!Span(mem[p].alloc) : q \in Memory!Pages /\ q \notin Memory!Span(a)
      BY <3>1, <3>2, <2>3, <1>3, FitsAre
    <3> QED BY <3>1, <3>2, <3>3, <2>3, <1>8
  <2> QED BY <2>1, <2>2, <2>3
<1>10. \A p \in Memory!Pages : mem'[p].alloc # mem[p].alloc => mem[p].alloc = Memory!Free
      \/ mem'[p].alloc = Memory!Free
  BY <1>8, <1>6
<1> QED BY <1>4, <1>7, <1>9, <1>10, BecomesKeeps

(* Free pages become an allocation.                                        *)
LEMMA AllocatesKeeps == ASSUME MemoryIInv, NEW a \in Memory!Fits, Memory!allocates(a)
  PROVE MemoryIInv'
<1> DEFINE new == [alloc |-> a, committed |-> TRUE, protection |-> "rw"]
<1>1. \A p \in Memory!Pages : mem[p].alloc \in Memory!Fits \union {Memory!Free}
      /\ mem[p] \in PageStates
  BY DEF MemoryIInv, MemoryTypes, PageStates
<1>2. Memory!Span(a) \subseteq Memory!Pages /\ a # Memory!Free
      /\ \A q \in Memory!Span(a) : mem[q].alloc = Memory!Free
  BY FitsAre DEF Memory!allocates
<1>3. Memory!Becomes([q \in Memory!Span(a) |-> new])
  BY DEF Memory!allocates
<1>4. new \in PageStates /\ new.alloc = a
  BY DEF PageStates, Protections
<1>5. mem' = [p \in Memory!Pages |-> IF p \in Memory!Span(a) THEN new ELSE mem[p]]
  BY <1>3 DEF Memory!Becomes
<1> HIDE DEF new
<1>6. mem' \in [Memory!Pages -> PageStates]
  BY <1>1, <1>4, <1>5
<1>7. \A p \in Memory!Pages : mem'[p] = IF p \in Memory!Span(a) THEN new ELSE mem[p]
  BY <1>5
<1>8. MemoryFits'
  <2> SUFFICES ASSUME NEW p \in Memory!Pages
               PROVE  /\ mem'[p].alloc = Memory!Free => mem'[p] = Memory!Blank
                      /\ mem'[p].alloc # Memory!Free => p \in Memory!Span(mem'[p].alloc)
                            /\ \A q \in Memory!Span(mem'[p].alloc) : mem'[q].alloc = mem'[p].alloc
    BY DEF MemoryFits
  <2>1. CASE p \in Memory!Span(a)
    BY <2>1, <1>7, <1>4, <1>2
  <2>2. CASE p \notin Memory!Span(a) /\ mem[p].alloc = Memory!Free
    BY <2>2, <1>7 DEF MemoryIInv, MemoryFits
  <2>3. CASE p \notin Memory!Span(a) /\ mem[p].alloc # Memory!Free
    <3>1. mem'[p] = mem[p] /\ mem[p].alloc \in Memory!Fits
      BY <2>3, <1>7, <1>1
    <3>2. p \in Memory!Span(mem[p].alloc)
          /\ \A q \in Memory!Span(mem[p].alloc) : mem[q].alloc = mem[p].alloc
      BY <2>3 DEF MemoryIInv, MemoryFits
    <3>3. \A q \in Memory!Span(mem[p].alloc) : q \in Memory!Pages /\ q \notin Memory!Span(a)
      BY <3>1, <3>2, <2>3, <1>2, FitsAre
    <3> QED BY <3>1, <3>2, <3>3, <2>3, <1>7
  <2> QED BY <2>1, <2>2, <2>3
<1>9. \A p \in Memory!Pages : mem'[p].alloc # mem[p].alloc => mem[p].alloc = Memory!Free
      \/ mem'[p].alloc = Memory!Free
  BY <1>7, <1>2
<1> QED BY <1>3, <1>6, <1>8, <1>9, BecomesKeeps

(* A page changes within its allocation.                                   *)
LEMMA SamePageKeeps ==
  ASSUME MemoryIInv, NEW x \in Memory!Pages, NEW s \in PageStates, mem[x].committed,
        s.alloc = mem[x].alloc, Memory!Becomes([q \in {x} |-> s])
  PROVE  MemoryIInv'
<1>1. \A p \in Memory!Pages : mem[p].alloc \in Memory!Fits \union {Memory!Free}
      /\ mem[p] \in PageStates
  BY DEF MemoryIInv, MemoryTypes, PageStates
<1>2. mem[x].alloc # Memory!Free
  <2>1. Memory!Blank.committed = FALSE
    BY Zenon DEF Memory!Blank
  <2> QED BY <2>1 DEF MemoryIInv, MemoryFits
<1>3. mem' = [p \in Memory!Pages |-> IF p = x THEN s ELSE mem[p]]
  BY DEF Memory!Becomes
<1>4. mem' \in [Memory!Pages -> PageStates]
  BY <1>1, <1>3
<1>5. \A p \in Memory!Pages : mem'[p].alloc = mem[p].alloc /\ (p # x => mem'[p] = mem[p])
  BY <1>3
<1>6. MemoryFits'
  <2> SUFFICES ASSUME NEW p \in Memory!Pages
               PROVE  /\ mem'[p].alloc = Memory!Free => mem'[p] = Memory!Blank
                      /\ mem'[p].alloc # Memory!Free => p \in Memory!Span(mem'[p].alloc)
                            /\ \A q \in Memory!Span(mem'[p].alloc) : mem'[q].alloc = mem'[p].alloc
    BY DEF MemoryFits
  <2>1. CASE mem[p].alloc = Memory!Free
    BY <2>1, <1>2, <1>5 DEF MemoryIInv, MemoryFits
  <2>2. CASE mem[p].alloc # Memory!Free
    <3>1. p \in Memory!Span(mem[p].alloc)
          /\ \A q \in Memory!Span(mem[p].alloc) : mem[q].alloc = mem[p].alloc
      BY <2>2 DEF MemoryIInv, MemoryFits
    <3>2. Memory!Span(mem[p].alloc) \subseteq Memory!Pages
      BY <2>2, <1>1, FitsAre
    <3> QED BY <3>1, <3>2, <2>2, <1>5
  <2> QED BY <2>1, <2>2
<1>7. \A p \in Memory!Pages : mem'[p].alloc # mem[p].alloc => mem[p].alloc = Memory!Free
      \/ mem'[p].alloc = Memory!Free
  BY <1>5
<1> QED BY <1>4, <1>6, <1>7, BecomesKeeps

(* A page is protected.                                                    *)
LEMMA ProtectsKeeps == ASSUME MemoryIInv, NEW x \in Memory!Pages, NEW y \in {"rw", "ro", "none"},
  Memory!protects(x, y) PROVE MemoryIInv'
<1> DEFINE s == [mem[x] EXCEPT !.protection = y]
<1>1. mem[x] \in PageStates
  BY DEF MemoryIInv, MemoryTypes
<1>2. s \in PageStates /\ s.alloc = mem[x].alloc
  BY <1>1 DEF PageStates, Protections
<1>3. mem[x].committed /\ Memory!Becomes([q \in {x} |-> s])
  BY DEF Memory!protects
<1> HIDE DEF s
<1> QED BY <1>2, <1>3, SamePageKeeps

(* A page is decommitted.                                                  *)
LEMMA DecommitsKeeps == ASSUME MemoryIInv, NEW x \in Memory!Pages, Memory!decommits(x)
  PROVE MemoryIInv'
<1> DEFINE s == [mem[x] EXCEPT !.committed = FALSE, !.protection = "none"]
<1>1. mem[x] \in PageStates
  BY DEF MemoryIInv, MemoryTypes
<1>2. s \in PageStates /\ s.alloc = mem[x].alloc
  BY <1>1 DEF PageStates, Protections
<1>3. mem[x].committed /\ Memory!Becomes([q \in {x} |-> s])
  BY DEF Memory!decommits
<1> HIDE DEF s
<1> QED BY <1>2, <1>3, SamePageKeeps

(* A stage opens.                                                          *)
LEMMA OpensKeeps == ASSUME MemoryIInv, NEW m \in {"regions", "pages"}, Memory!opens(m)
  PROVE MemoryIInv'
<1>1. /\ mode' = m /\ regions' = <<>> /\ pages' = <<>> /\ allocations' = <<>>
      /\ failed' = FALSE /\ attempted' = 0 /\ field' = Memory!NoField /\ verdict' = "open"
      /\ got' = [p \in Memory!Pages |-> [is |-> "none"]]
      /\ before' = [p \in Memory!Pages |-> {}] /\ aba' = [p \in Memory!Pages |-> FALSE]
      /\ mem' = mem /\ mem_changes' = mem_changes
  BY DEF Memory!opens, Memory!Nothing
<1>2. MemoryTypes'
  <2>1. field' \in FieldStates
    BY <1>1, MemoryBounds DEF Memory!NoField, FieldStates, FieldKinds, FieldSteps, Memory!Kinds
  <2>2. aba' \in [Memory!Pages -> BOOLEAN] /\ before' \in [Memory!Pages -> SUBSET Looks]
    BY <1>1
  <2>3. regions' \in Seq(Answers) /\ pages' \in Seq(PageProofs) /\ allocations' \in Seq(Memory!Fits)
    BY <1>1
  <2>4. failed' \in BOOLEAN
    BY <1>1
  <2>5. mem' \in [Memory!Pages -> PageStates] /\ mem_changes' \in 0..MaxRemaps
        /\ mode' \in {"none", "regions", "pages"} /\ attempted' \in 0..ReadLimit
    BY <1>1, MemoryBounds DEF MemoryIInv, MemoryTypes
  <2> QED BY <2>1, <2>2, <2>3, <2>4, <2>5 DEF MemoryTypes
<1>3. MemoryFits'
  BY <1>1 DEF MemoryIInv, MemoryFits
<1>4. ReturnsAreSeen' /\ AllocationsFit' /\ RegionsFit' /\ PagesFit'
  BY <1>1 DEF ReturnsAreSeen, AllocationsFit, RegionsFit, PagesFit
<1>5. CopiesFit'
  BY <1>1 DEF CopiesFit
<1>6. FieldFits' /\ LimitsFit' /\ VerdictFits'
  BY <1>1, MemoryBounds DEF FieldFits, LimitsFit, VerdictFits, Memory!NoField,
        Memory!AcceptedIsUnchanged
<1> QED BY <1>2, <1>3, <1>4, <1>5, <1>6 DEF MemoryIInv

(* The last look at the pages: a page proof that was confirmed is true.    *)
LEMMA FinishPagesProves ==
  ASSUME MemoryIInv, NEW resident, resident \subseteq {p \in Memory!Pages : mem[p].committed},
        Memory!finish_pages(resident),
         NEW i \in DOMAIN pages
  PROVE  LET p == pages[i].base  a == allocations[pages[i].allocation]
         IN mem[p].alloc = a /\ Memory!Shows(mem, p) = SaidByPage(i)
<1> DEFINE p == pages[i].base  a == allocations[pages[i].allocation]
<1>1. pages[i] \in PageProofs /\ pages \in Seq(PageProofs) /\ allocations \in Seq(Memory!Fits)
      /\ mem \in [Memory!Pages -> PageStates]
  BY DEF MemoryIInv, MemoryTypes
<1>2. p \in Memory!Pages /\ pages[i].allocation \in DOMAIN allocations /\ p \in Memory!Span(a)
  BY <1>1 DEF MemoryIInv, PagesFit, PageProofs
<1>3. a \in Memory!Fits /\ a \in Memory!Elements(allocations)
  BY <1>1, <1>2 DEF Memory!Elements
<1>4. mem[a.base].alloc = a
  BY <1>3 DEF Memory!finish_pages
<1>5. mem[p].alloc = a
  BY <1>2, <1>3, <1>4, FitsAre DEF MemoryIInv, MemoryFits
<1>6. i \in 1..Len(pages)
  BY <1>1
<1>7. mem[p].protection = pages[i].protection /\ (p \in resident \/ mem[p].committed)
  BY <1>6 DEF Memory!finish_pages
<1>8. mem[p].committed = TRUE
  <2>1. mem[p].committed \in BOOLEAN
    BY <1>1, <1>2 DEF PageStates
  <2> QED BY <1>7, <2>1
<1>9. Memory!Shows(mem, p) = SaidByPage(i)
  BY <1>5, <1>7, <1>8, Zenon DEF Memory!Shows, SaidByPage
<1> QED BY <1>5, <1>9

(* The last look at the regions: a region that was found again is true.    *)
LEMMA FreshProves ==
  ASSUME MemoryIInv, NEW r \in Memory!Elements(regions), Memory!Fresh(r) = r,
        NEW p \in Memory!Pages, Memory!region_contains(r, p)
  PROVE  Memory!Shows(mem, p) = SaidByRegion(r)
<1> DEFINE Begins(x) == /\ \E s \in Memory!Elements(regions) : s.base = x
                        /\ Memory!region_contains(Memory!query_memory_uncached(x), r.base)
           T == {x \in Memory!Pages : Begins(x)}
<1>1. regions \in Seq(Answers) /\ \A s \in Memory!Elements(regions) : s \in Answers
  BY DEF MemoryIInv, MemoryTypes, Memory!Elements
<1>2. \A s \in Memory!Elements(regions) : s.base \in Memory!Pages /\ s.size \in Memory!Pages
  BY <1>1 DEF Answers
<1>3. Begins(r.base)
  BY <1>2, QueryIs DEF MemoryIInv
<1>4. T # {} /\ T \in SUBSET Nat
  BY <1>2, <1>3, MemoryBounds DEF Memory!Pages
<1>5. PICK k \in T : \A m \in T : k <= m
  BY <1>4, Smallest
<1>6. /\ k \in Memory!Pages /\ \E s \in Memory!Elements(regions) : s.base = k
      /\ Memory!region_contains(Memory!query_memory_uncached(k), r.base)
      /\ \A s \in Memory!Elements(regions) : Memory!region_contains(Memory!query_memory_uncached(s.base), r.base) =>
           k <= s.base
  BY <1>5, <1>2
<1> DEFINE first == CHOOSE x \in Memory!Pages :
        /\ \E s \in Memory!Elements(regions) : s.base = x
        /\ Memory!region_contains(Memory!query_memory_uncached(x), r.base)
        /\ \A s \in Memory!Elements(regions) : Memory!region_contains(Memory!query_memory_uncached(s.base), r.base) =>
             x <= s.base
           q == Memory!query_memory_uncached(first)
<1>7. first \in Memory!Pages /\ Memory!region_contains(q, r.base)
  BY <1>6
<1>8. q \in Answers /\ q.base = first /\ \A x \in Memory!Pages : Memory!region_contains(q, x)
      => Memory!Shows(mem, x) = SaidByRegion(q)
  BY <1>7, QueryIs DEF MemoryIInv
<1>9. r = [q EXCEPT !.base = r.base, !.size = @ - (r.base - first)]
  BY DEF Memory!Fresh
<1> HIDE DEF first, q, T, Begins
<1>10. /\ r.size = q.size - (r.base - first) /\ r.owner = q.owner /\ r.kind = q.kind
       /\ r.committed = q.committed /\ r.protection = q.protection
  BY <1>8, <1>9 DEF Answers
<1>11. Memory!region_contains(q, p)
  <2>1. q.size \in Nat /\ first \in Nat /\ r.base \in Nat /\ p \in Nat
    BY <1>2, <1>7, <1>8, MemoryBounds DEF Memory!Pages, Answers
  <2> QED BY <2>1, <1>7, <1>8, <1>10 DEF Memory!region_contains
<1>12. Memory!Shows(mem, p) = SaidByRegion(q)
  BY <1>8, <1>11
<1>13. SaidByRegion(q) = SaidByRegion(r)
  BY <1>10 DEF SaidByRegion
<1> QED BY <1>12, <1>13

(* What the last look accepts was true when it was copied.                 *)
LEMMA FinishKeeps == ASSUME MemoryIInv, Memory!finish PROVE MemoryIInv'
<1>1. /\ mode # "none" /\ field.step = "idle" /\ mode' = "none"
      /\ final' = [p \in Memory!Pages |-> Memory!Shows(mem, p)]
      /\ regions' = <<>> /\ pages' = <<>> /\ allocations' = <<>> /\ failed' = FALSE
            /\ attempted' = 0
      /\ mem' = mem /\ mem_changes' = mem_changes /\ field' = field /\ got' = got
            /\ before' = before /\ aba' = aba
  BY DEF Memory!finish
<1>2. MemoryTypes'
  <2>1. regions' \in Seq(Answers) /\ pages' \in Seq(PageProofs) /\ allocations' \in Seq(Memory!Fits)
    BY <1>1
  <2>2. failed' \in BOOLEAN
    BY <1>1
  <2>3. attempted' \in 0..ReadLimit /\ mode' \in {"none", "regions", "pages"}
    BY <1>1, MemoryBounds
  <2> QED BY <1>1, <2>1, <2>2, <2>3 DEF MemoryIInv, MemoryTypes
<1>3. MemoryFits' /\ ReturnsAreSeen'
  BY <1>1 DEF MemoryIInv, MemoryFits, ReturnsAreSeen
<1>4. AllocationsFit' /\ RegionsFit' /\ PagesFit'
  BY <1>1 DEF AllocationsFit, RegionsFit, PagesFit
<1>5. CopiesFit' /\ FieldFits' /\ LimitsFit'
  BY <1>1, MemoryBounds DEF CopiesFit, FieldFits, LimitsFit
<1>6. Memory!AcceptedIsUnchanged'
  <2>1. SUFFICES ASSUME verdict' = "accepted", NEW p \in Memory!Pages, got[p].is # "none", ~aba[p]
                 PROVE  got[p].was = Memory!Shows(mem, p) /\ got[p].was.kind = got[p].is
    BY <1>1 DEF Memory!AcceptedIsUnchanged
  <2>2. PICK resident \in SUBSET {x \in Memory!Pages : mem[x].committed} :
          verdict' = IF ~failed /\ Memory!finish_pages(resident) /\ Memory!finish_regions
                THEN "accepted" ELSE "refused"
    BY DEF Memory!finish
  <2>3. Memory!finish_pages(resident) /\ Memory!finish_regions
    BY <2>1, <2>2
  <2>4. CopyFits(p)
    BY <1>1, <2>1 DEF MemoryIInv, CopiesFit
  <2>5. Memory!Shows(mem, p) \notin before[p]
    BY <2>1 DEF MemoryIInv, ReturnsAreSeen
  <2>6. ASSUME NEW i \in DOMAIN pages, PageCovers(i, p, got[p].is),
               \/ Memory!Shows(mem, p) = SaidByPage(i) /\ got[p].was = SaidByPage(i)
               \/ SaidByPage(i) \in before[p] \/ Lost(allocations[pages[i].allocation], p)
        PROVE  got[p].was = Memory!Shows(mem, p) /\ got[p].was.kind = got[p].is
    <3>1. pages[i].base = p /\ allocations[pages[i].allocation].kind = got[p].is
      BY <2>6 DEF PageCovers
    <3>2. mem[p].alloc = allocations[pages[i].allocation] /\ Memory!Shows(mem, p) = SaidByPage(i)
      BY <2>3, <3>1, FinishPagesProves
    <3>3. got[p].was = SaidByPage(i)
      BY <2>5, <2>6, <3>2 DEF Lost
    <3> QED BY <3>1, <3>2, <3>3 DEF SaidByPage
  <2>7. ASSUME NEW i \in DOMAIN regions, RegionCovers(regions[i], p, got[p].is),
               \/ /\ Memory!Shows(mem, p) = SaidByRegion(regions[i])
                  /\ got[p].was = SaidByRegion(regions[i])
               \/ SaidByRegion(regions[i]) \in before[p]
        PROVE  got[p].was = Memory!Shows(mem, p) /\ got[p].was.kind = got[p].is
    <3>1. Memory!region_contains(regions[i], p) /\ regions[i].kind = got[p].is
      BY <2>7 DEF RegionCovers, Memory!Readable
    <3>2. regions[i] \in Memory!Elements(regions)
      BY DEF MemoryIInv, MemoryTypes, Memory!Elements
    <3>3. Memory!Shows(mem, p) = SaidByRegion(regions[i])
      BY <3>1, <3>2, <2>3, FreshProves DEF Memory!finish_regions
    <3> QED BY <2>5, <2>7, <3>1, <3>3 DEF SaidByRegion
  <2> QED BY <2>1, <2>4, <2>6, <2>7 DEF CopyFits
<1> QED BY <1>1, <1>2, <1>3, <1>4, <1>5, <1>6 DEF MemoryIInv, VerdictFits

(* The invariant gives the safety.                                         *)
LEMMA MemoryConsequences == MemoryIInv => Memory!MemorySafety
<1> SUFFICES ASSUME MemoryIInv PROVE Memory!MemorySafety
  OBVIOUS
<1>1. \A p \in Memory!Pages : mem[p].alloc \in Memory!Fits \union {Memory!Free}
      /\ mem[p] \in PageStates
  BY DEF MemoryIInv, MemoryTypes, PageStates
<1>2. Memory!TypeOK
  <2>1. \A p \in Memory!Pages : mem[p].alloc = Memory!Free \/ (mem[p].alloc \in Memory!Fits
        /\ p \in Memory!Span(mem[p].alloc))
    BY <1>1 DEF MemoryIInv, MemoryFits
  <2>2. attempted <= ReadLimit
    BY MemoryBounds DEF MemoryIInv, MemoryTypes
  <2> QED BY <2>1, <2>2 DEF Memory!TypeOK, MemoryIInv, LimitsFit, MemoryTypes
<1>3. Memory!WritableIsTrue
  <2> SUFFICES ASSUME NEW p \in Memory!Pages, NEW q \in {p, p + 1} \intersect Memory!Pages,
        Memory!writable_pages(p, q) \/ Memory!writable_regions(p, q)
               PROVE  /\ mem[p].alloc = mem[q].alloc /\ mem[p].alloc.kind = "private"
                      /\ \A i \in {p, q} : mem[i].committed /\ mem[i].protection = "rw"
    BY DEF Memory!WritableIsTrue
  <2>0. p \in Nat /\ q \in Nat /\ p <= q
    BY MemoryBounds DEF Memory!Pages
  <2>1. CASE Memory!writable_pages(p, q)
    <3>1. mem[p].alloc \in Memory!Fits /\ p \in Memory!Span(mem[p].alloc)
          /\ q < mem[p].alloc.base + mem[p].alloc.size
      BY <2>1, <1>1 DEF Memory!writable_pages, Memory!Free, MemoryIInv, MemoryFits
    <3>2. q \in Memory!Span(mem[p].alloc)
      <4> DEFINE alloc == mem[p].alloc
      <4> HIDE DEF alloc
      <4>1. alloc \in Memory!Fits /\ p \in Memory!Span(alloc) /\ q < alloc.base + alloc.size
        BY <3>1 DEF alloc
      <4>2. Memory!Span(alloc) = alloc.base..alloc.base + alloc.size - 1 /\ alloc.base \in Nat /\ alloc.size \in Nat
        BY <4>1, FitsAre, MemoryBounds DEF Memory!Pages
      <4> QED BY <2>0, <4>1, <4>2 DEF alloc
    <3>3. mem[q].alloc = mem[p].alloc
      BY <3>1, <3>2, FitsAre DEF MemoryIInv, MemoryFits
    <3> QED BY <2>1, <3>3 DEF Memory!writable_pages
  <2>2. CASE Memory!writable_regions(p, q)
    <3>1. ASSUME NEW i \in {p, q}
          PROVE  mem[i].committed /\ mem[i].protection = "rw" /\ mem[i].alloc.kind = "private"
                    /\ mem[i].alloc.base = mem[p].alloc.base
      BY <2>2, QueryIs DEF Memory!writable_regions, Memory!Readable, MemoryIInv
    <3>2. ASSUME NEW i \in {p, q}
          PROVE mem[i].alloc \in Memory!Fits /\ mem[mem[i].alloc.base].alloc = mem[i].alloc
      <4>1. mem[i].alloc \in Memory!Fits /\ mem[i].alloc # Memory!Free
        BY <3>1, <1>1, FitsAre DEF Memory!Free
      <4> QED BY <4>1, FitsAre DEF MemoryIInv, MemoryFits
    <3>3. mem[q].alloc = mem[p].alloc
      BY <3>1, <3>2
    <3> QED BY <3>1, <3>3
  <2> QED BY <2>1, <2>2
<1> QED BY <1>2, <1>3 DEF Memory!MemorySafety, MemoryIInv, VerdictFits

(* A list that something is appended to.                                   *)
LEMMA AppendGrows ==
  ASSUME NEW S, NEW s \in Seq(S), NEW x \in S
  PROVE  /\ Append(s, x) \in Seq(S) /\ Grows(s, Append(s, x)) /\ Grows(s, s)
            /\ Len(Append(s, x)) = Len(s) + 1
         /\ Append(s, x)[Len(s) + 1] = x /\ Len(s) \in Nat /\ Len(s) + 1 \in DOMAIN Append(s, x)
         /\ \A i \in DOMAIN Append(s, x) : i \in DOMAIN s \/ i = Len(s) + 1
BY DEF Grows

(* More proofs spoil no copy.                                              *)
LEMMA GrowKeeps ==
  ASSUME MemoryIInv, UNCHANGED <<mem, mode, got, before, aba>>, Grows(regions, regions'),
        Grows(pages, pages'),
         Grows(allocations, allocations')
  PROVE  /\ CopiesFit'
         /\ \A p \in Memory!Pages : \A k \in Memory!Kinds : Covered(p, k) => Covered(p, k)'
         /\ \A i \in DOMAIN pages : SaidByPage(i)' = SaidByPage(i)
<1>1. ASSUME NEW i \in DOMAIN pages
      PROVE  /\ i \in DOMAIN pages' /\ pages'[i] = pages[i]
                /\ pages[i].allocation \in DOMAIN allocations
             /\ allocations'[pages[i].allocation] = allocations[pages[i].allocation]
             /\ SaidByPage(i)' = SaidByPage(i)
  <2>1. pages'[i] = pages[i] /\ i \in DOMAIN pages'
    BY DEF Grows
  <2>2. pages[i].allocation \in DOMAIN allocations
    BY DEF MemoryIInv, PagesFit
  <2>3. allocations'[pages[i].allocation] = allocations[pages[i].allocation]
    BY <2>2 DEF Grows
  <2>4. SaidByPage(i)' = SaidByPage(i)
    BY <2>1, <2>3 DEF SaidByPage
  <2> QED BY <2>1, <2>2, <2>3, <2>4
<1>2. ASSUME NEW i \in DOMAIN regions PROVE i \in DOMAIN regions' /\ regions'[i] = regions[i]
  BY DEF Grows
<1>3. ASSUME NEW p \in Memory!Pages, NEW k \in Memory!Kinds, Covered(p, k) PROVE Covered(p, k)'
  BY <1>1, <1>2, <1>3 DEF Covered, PageCovers, RegionCovers
<1>4. CopiesFit'
  <2> SUFFICES ASSUME mode # "none", NEW p \in Memory!Pages, got[p].is # "none" PROVE CopyFits(p)'
    BY DEF CopiesFit
  <2>1. CopyFits(p)
    BY DEF MemoryIInv, CopiesFit
  <2>2. CASE aba[p]
    BY <2>2 DEF CopyFits
  <2>3. ASSUME NEW i \in DOMAIN pages, PageCovers(i, p, got[p].is),
               \/ Memory!Shows(mem, p) = SaidByPage(i) /\ got[p].was = SaidByPage(i)
               \/ SaidByPage(i) \in before[p] \/ Lost(allocations[pages[i].allocation], p)
        PROVE  CopyFits(p)'
    <3>1. i \in DOMAIN pages' /\ PageCovers(i, p, got[p].is)'
      BY <2>3, <1>1 DEF PageCovers
    <3>2. /\ SaidByPage(i)' = SaidByPage(i)
          /\ Lost(allocations[pages[i].allocation], p)' = Lost(allocations[pages[i].allocation], p)
          /\ Memory!Shows(mem, p)' = Memory!Shows(mem, p) /\ got'[p] = got[p]
                /\ before'[p] = before[p]
      BY <1>1 DEF Lost, Memory!Shows
    <3> QED BY <2>3, <3>1, <3>2, Zenon DEF CopyFits
  <2>4. ASSUME NEW i \in DOMAIN regions, RegionCovers(regions[i], p, got[p].is),
               \/ /\ Memory!Shows(mem, p) = SaidByRegion(regions[i])
                  /\ got[p].was = SaidByRegion(regions[i])
               \/ SaidByRegion(regions[i]) \in before[p]
        PROVE  CopyFits(p)'
    <3>1. i \in DOMAIN regions' /\ regions'[i] = regions[i]
      BY <1>2
    <3> QED BY <2>4, <3>1 DEF CopyFits, RegionCovers, Memory!Shows, SaidByRegion
  <2> QED BY <2>1, <2>2, <2>3, <2>4 DEF CopyFits
<1> QED BY <1>1, <1>3, <1>4

(* A piece of the field has been proved.                                   *)
LEMMA ProvedFits ==
  ASSUME MemoryIInv, field.step \notin {"idle", "copy"}, NEW kind \in Memory!Kinds,
        kind = field.kind, NEW end \in field.at..field.last, Memory!Proved(end), mode' = mode,
         \A p \in Memory!Pages : \A k \in Memory!Kinds : Covered(p, k) => Covered(p, k)',
         \A p \in field.at..end : Covered(p, kind)'
  PROVE  FieldFits' /\ field' \in FieldStates
<1>1. field \in FieldStates /\ field.kind \in Memory!Kinds /\ mode # "none" /\ 1 <= field.copy
      /\ field.copy <= field.at /\ field.at <= field.last
      /\ field.last <= PageCount
  BY MemoryBounds DEF MemoryIInv, MemoryTypes, FieldFits, FieldStates
<1>2. field.at \in Nat /\ field.last \in Nat /\ field.copy \in Nat /\ end \in Nat
  BY <1>1, MemoryBounds DEF FieldStates
<1>3. \A p \in field.copy..end : Covered(p, kind)'
  <2> SUFFICES ASSUME NEW p \in field.copy..end PROVE Covered(p, kind)'
    OBVIOUS
  <2>1. CASE p >= field.at
    BY <2>1, <1>2
  <2>2. CASE p < field.at
    <3>1. p \in Memory!Pages /\ p \in field.copy..field.at - 1
      BY <2>2, <1>1, <1>2, MemoryBounds DEF Memory!Pages
    <3>2. Covered(p, field.kind)
      BY <3>1 DEF MemoryIInv, FieldFits
    <3> QED BY <3>1, <3>2, <1>1
  <2> QED BY <2>1, <2>2, <1>2
<1>4. CASE mode = "pages" /\ field.kind = "private" /\ end < field.last
  <2>1. field' = [field EXCEPT !.at = end + 1, !.step = "look"]
    BY <1>4 DEF Memory!Proved
  <2>2. /\ field'.kind = field.kind /\ field'.at = end + 1 /\ field'.step = "look"
        /\ field'.last = field.last
        /\ field'.copy = field.copy
    BY <2>1, <1>1 DEF FieldStates
  <2>20. field' = [kind |-> field.kind, at |-> end + 1, last |-> field.last, step |-> "look", copy |-> field.copy]
    BY <2>1, <1>1 DEF FieldStates
  <2>3. field' \in FieldStates
    BY <2>20, <1>1, <1>2, <1>4, MemoryBounds DEF FieldStates, FieldSteps
  <2>4. \A p \in field'.copy..field'.at - 1 : Covered(p, field.kind)'
    BY <2>2, <1>2, <1>3
  <2> QED BY <2>2, <2>3, <2>4, <1>1, <1>2, <1>4 DEF FieldFits
<1>5. CASE ~(mode = "pages" /\ field.kind = "private" /\ end < field.last)
  <2>1. field' = [field EXCEPT !.at = end, !.step = "copy"]
    BY <1>5 DEF Memory!Proved
  <2>2. /\ field'.kind = field.kind /\ field'.at = end /\ field'.step = "copy"
        /\ field'.last = field.last
        /\ field'.copy = field.copy
    BY <2>1, <1>1 DEF FieldStates
  <2>20. field' = [kind |-> field.kind, at |-> end, last |-> field.last, step |-> "copy", copy |-> field.copy]
    BY <2>1, <1>1 DEF FieldStates
  <2>3. field' \in FieldStates
    BY <2>20, <1>1, <1>2, MemoryBounds DEF FieldStates, FieldSteps
  <2> QED BY <2>2, <2>3, <1>1, <1>2, <1>3 DEF FieldFits
<1> QED BY <1>4, <1>5

(* The read looks elsewhere for its proof.                                 *)
LEMMA ToFits ==
  ASSUME MemoryIInv, field.step \notin {"idle", "copy"}, NEW kind \in Memory!Kinds,
        kind = field.kind, NEW at \in Nat, at = field.at, NEW step \in {"allocation", "page",
              "region", "exact"}, Memory!To(step),
         mode' = mode, \A p \in Memory!Pages : \A k \in Memory!Kinds : Covered(p, k)
               => Covered(p, k)',
         step \in {"allocation", "page"} => Len(pages') < PageLimit,
         step = "allocation" => Memory!Allocation(at)' = {},
         step = "page" => Memory!Allocation(at)' # {}
               /\ \A i \in Memory!Allocation(at)' : allocations'[i].kind = kind,
         step = "exact" => Len(regions') < RegionLimit
  PROVE  FieldFits' /\ field' \in FieldStates
<1>1. field \in FieldStates /\ field.kind \in Memory!Kinds /\ mode # "none" /\ 1 <= field.copy
      /\ field.copy <= field.at /\ field.at <= field.last
      /\ field.last <= PageCount
  BY MemoryBounds DEF MemoryIInv, MemoryTypes, FieldFits, FieldStates
<1>2. field.at \in Nat /\ field.last \in Nat /\ field.copy \in Nat
  BY <1>1, MemoryBounds DEF FieldStates
<1>3. field' = [field EXCEPT !.step = step]
  BY DEF Memory!To
<1>4. /\ field'.kind = field.kind /\ field'.at = field.at /\ field'.step = step
      /\ field'.last = field.last
      /\ field'.copy = field.copy
  BY <1>3, <1>1 DEF FieldStates
<1>5. field' \in FieldStates
  BY <1>3, <1>1 DEF FieldStates, FieldSteps
<1>6. ASSUME NEW p \in field.copy..field.at - 1 PROVE Covered(p, kind)'
  <2>1. p \in Memory!Pages
    BY <1>1, <1>2, MemoryBounds DEF Memory!Pages
  <2>2. Covered(p, field.kind)
    BY <1>1, <1>2 DEF MemoryIInv, FieldFits, FieldSteps
  <2> QED BY <2>1, <2>2, <1>1
<1>7. Memory!Allocation(field.at)' = Memory!Allocation(at)'
  BY <1>4 DEF Memory!Allocation
<1> QED BY <1>1, <1>4, <1>5, <1>6, <1>7 DEF FieldFits

(* The stage has failed.                                                   *)
LEMMA RefusedFits == ASSUME Memory!Refused
  PROVE FieldFits' /\ field' \in FieldStates /\ failed' \in BOOLEAN
<1>1. field' = Memory!NoField /\ failed' = TRUE
  BY DEF Memory!Refused
<1>2. Memory!NoField \in FieldStates /\ Memory!NoField.step = "idle"
  BY MemoryBounds DEF Memory!NoField, FieldStates, FieldKinds, FieldSteps, Memory!Kinds
<1>3. failed' \in BOOLEAN
  BY <1>1
<1> QED BY <1>1, <1>2, <1>3 DEF FieldFits

(* The read alone has failed, or the stage with it.                        *)
LEMMA UnreadFits == ASSUME failed \in BOOLEAN, Memory!Unread
  PROVE FieldFits' /\ field' \in FieldStates /\ failed' \in BOOLEAN
<1>1. field' = Memory!NoField
  BY DEF Memory!Unread
<1>2. Memory!NoField \in FieldStates /\ Memory!NoField.step = "idle"
  BY MemoryBounds DEF Memory!NoField, FieldStates, FieldKinds, FieldSteps, Memory!Kinds
<1>3. failed' \in BOOLEAN
  BY DEF Memory!Unread
<1> QED BY <1>1, <1>2, <1>3 DEF FieldFits

(* A read under way.                                                       *)
LEMMA FieldUnderWay ==
  ASSUME MemoryIInv, field.step # "idle"
  PROVE  /\ field \in FieldStates /\ field.kind \in Memory!Kinds /\ mode # "none"
            /\ field.at \in Memory!Pages /\ field.at \in Nat
         /\ field.last \in Nat /\ field.at <= field.last /\ field.last <= PageCount
         /\ 1 <= field.copy /\ field.copy <= field.at /\ field.copy \in Nat
<1>1. field \in FieldStates /\ field.kind \in Memory!Kinds /\ mode # "none" /\ 1 <= field.copy
      /\ field.copy <= field.at /\ field.at <= field.last
  BY DEF MemoryIInv, MemoryTypes, FieldFits
<1> QED BY <1>1, MemoryBounds DEF FieldStates, Memory!Pages

(* The proofs.                                                             *)
LEMMA ProofLists == ASSUME MemoryIInv
  PROVE /\ regions \in Seq(Answers) /\ pages \in Seq(PageProofs) /\ allocations \in Seq(Memory!Fits)
        /\ Grows(regions, regions) /\ Grows(pages, pages) /\ Grows(allocations, allocations)
BY DEF MemoryIInv, MemoryTypes, Grows

(* What a step of the reader must keep.                                    *)
LEMMA ReaderStep ==
  ASSUME MemoryIInv, UNCHANGED <<mem, mem_changes, mode, verdict, got, before, aba, final>>,
         Grows(regions, regions'), Grows(pages, pages'), Grows(allocations, allocations'),
         regions' \in Seq(Answers), pages' \in Seq(PageProofs), allocations' \in Seq(Memory!Fits),
         attempted' \in 0..ReadLimit, failed' \in BOOLEAN, field' \in FieldStates,
         LimitsFit', RegionsFit', PagesFit', AllocationsFit', FieldFits'
  PROVE  MemoryIInv'
<1>1. MemoryTypes'
  BY DEF MemoryIInv, MemoryTypes
<1>2. MemoryFits' /\ ReturnsAreSeen' /\ VerdictFits'
  BY DEF MemoryIInv, MemoryFits, ReturnsAreSeen, VerdictFits, Memory!AcceptedIsUnchanged
<1>3. CopiesFit'
  BY GrowKeeps
<1> QED BY <1>1, <1>2, <1>3 DEF MemoryIInv

(* A step of the reader that adds no proof.                                *)
LEMMA SameProofs ==
  ASSUME MemoryIInv, UNCHANGED <<mem, mem_changes, mode, Memory!proofs, verdict, got, before, aba,
        final>>,
         attempted' \in 0..ReadLimit, failed' \in BOOLEAN, field' \in FieldStates, FieldFits'
  PROVE  MemoryIInv'
<1>1. regions' = regions /\ pages' = pages /\ allocations' = allocations
  BY DEF Memory!proofs
<1>2. LimitsFit' /\ RegionsFit' /\ AllocationsFit'
  BY <1>1 DEF MemoryIInv, LimitsFit, RegionsFit, AllocationsFit
<1>3. PagesFit'
  BY <1>1 DEF MemoryIInv, PagesFit, SaidByPage, Lost
<1> QED BY <1>1, <1>2, <1>3, ProofLists, ReaderStep

(* A read begins.                                                          *)
LEMMA ReadsKeeps == ASSUME MemoryIInv, NEW kind \in Memory!Kinds, NEW p \in Memory!Pages,
  NEW n \in 1..2, Memory!reads(kind, p, n) PROVE MemoryIInv'
<1>1. p \in Nat /\ p >= 1 /\ p + n - 1 <= PageCount /\ PageCount \in Nat
  BY MemoryBounds DEF Memory!reads, Memory!Pages
<1>2. attempted' \in 0..ReadLimit
  BY MemoryBounds DEF MemoryIInv, MemoryTypes, Memory!reads
<1>3. failed' \in BOOLEAN /\ mode # "none" /\ mode' = mode
  BY DEF MemoryIInv, MemoryTypes, Memory!reads
<1>4. field' \in FieldStates /\ FieldFits'
  <2>1. CASE failed
    <3>1. field' = Memory!NoField
      BY <2>1 DEF Memory!reads
    <3>2. Memory!NoField \in FieldStates /\ Memory!NoField.step = "idle"
      BY MemoryBounds DEF Memory!NoField, FieldStates, FieldKinds, FieldSteps, Memory!Kinds
    <3> QED BY <3>1, <3>2 DEF FieldFits
  <2>2. CASE ~failed
    <3>1. field' = [kind |-> kind, at |-> p, last |-> p + n - 1, step |-> "look", copy |-> p]
      BY <2>2 DEF Memory!reads
    <3>2. field' \in FieldStates
      BY <3>1, <1>1 DEF FieldStates, FieldKinds, FieldSteps
    <3>3. /\ field'.kind = kind /\ field'.at = p /\ field'.last = p + n - 1
          /\ field'.step = "look" /\ field'.copy = p
      BY <3>1
    <3>4. p <= p + n - 1
      BY <1>1
    <3>5. p..p - 1 = {}
      BY <1>1
    <3> QED BY <1>1, <1>3, <3>2, <3>3, <3>4, <3>5 DEF FieldFits
  <2> QED BY <2>1, <2>2
<1> QED BY <1>2, <1>3, <1>4, SameProofs DEF Memory!reads, Memory!history

(* The read looks for a proof it has.                                      *)
LEMMA LookKeeps == ASSUME MemoryIInv, Memory!look PROVE MemoryIInv'
<1>1. Memory!At("look") /\ field.step = "look"
  BY DEF Memory!look, Memory!At
<1>2. UNCHANGED <<mem, mem_changes, mode, Memory!proofs, attempted, verdict, Memory!history>>
  BY DEF Memory!look
<1>3. regions' = regions /\ pages' = pages /\ allocations' = allocations /\ mode' = mode
  BY <1>2 DEF Memory!proofs
<1>4. \A p \in Memory!Pages : \A k \in Memory!Kinds : Covered(p, k)' = Covered(p, k)
  BY <1>3 DEF Covered, PageCovers, RegionCovers
<1>5. PICK at \in Memory!Pages, kind \in Memory!Kinds : at = field.at /\ kind = field.kind
  BY <1>1, FieldUnderWay
<1>6. field' \in FieldStates /\ FieldFits' /\ failed' \in BOOLEAN
  <2>1. CASE Memory!Refused
    BY <2>1, RefusedFits
  <2>2. ASSUME Memory!Proved(field.at), UNCHANGED failed, NEW i \in Memory!Known(field.at),
        allocations[pages[i].allocation].kind = field.kind
        PROVE  field' \in FieldStates /\ FieldFits' /\ failed' \in BOOLEAN
    <3>1. i \in DOMAIN pages /\ PageCovers(i, at, kind)
      BY <2>2, <1>5, ProofLists DEF Memory!Known, PageCovers
    <3>2. Covered(at, kind)'
      BY <3>1, <1>4, <1>5 DEF Covered
    <3>3. field.at \in field.at..field.last /\ \A p \in field.at..field.at : Covered(p, kind)'
      BY <3>2, <1>1, <1>5, FieldUnderWay
    <3>4. field' \in FieldStates /\ FieldFits'
      BY <2>2, <3>3, <1>1, <1>3, <1>4, <1>5, ProvedFits
    <3> QED BY <2>2, <3>4 DEF MemoryIInv, MemoryTypes
  <2>3. ASSUME ~(Memory!ByPage
        /\ \E i \in Memory!Allocation(field.at) : allocations[i].kind # field.kind), UNCHANGED failed,
               Memory!To(IF ~Memory!ByPage THEN "region"
                     ELSE IF Memory!Allocation(field.at) # {} THEN "page" ELSE "allocation")
        PROVE  field' \in FieldStates /\ FieldFits' /\ failed' \in BOOLEAN
    <3>1. Memory!Allocation(at)' = Memory!Allocation(field.at)
      BY <1>3, <1>5 DEF Memory!Allocation
    <3>2. Memory!ByPage => Len(pages) < PageLimit
      BY DEF Memory!ByPage
    <3>3. CASE ~Memory!ByPage
      BY <3>3, <2>3, <1>1, <1>3, <1>4, <1>5, FieldUnderWay, ToFits DEF MemoryIInv, MemoryTypes
    <3>4. CASE Memory!ByPage /\ Memory!Allocation(field.at) # {}
      <4>1. Memory!To("page") /\ at \in Nat /\ Memory!Allocation(at)' # {}
            /\ \A i \in Memory!Allocation(at)' : allocations'[i].kind = kind
        BY <3>1, <3>4, <2>3, <1>1, <1>3, <1>5, FieldUnderWay
      <4>2. Len(pages') < PageLimit
        BY <3>2, <3>4, <1>3
      <4>3. field' \in FieldStates /\ FieldFits'
        BY <4>1, <4>2, <1>1, <1>3, <1>4, <1>5, ToFits
      <4> QED BY <4>3, <2>3 DEF MemoryIInv, MemoryTypes
    <3>5. CASE Memory!ByPage /\ Memory!Allocation(field.at) = {}
      <4>1. Memory!To("allocation") /\ at \in Nat /\ Memory!Allocation(at)' = {}
        BY <3>1, <3>5, <2>3, <1>1, <1>5, FieldUnderWay
      <4>2. Len(pages') < PageLimit
        BY <3>2, <3>5, <1>3
      <4>3. field' \in FieldStates /\ FieldFits'
        BY <4>1, <4>2, <1>1, <1>3, <1>4, <1>5, ToFits
      <4> QED BY <4>3, <2>3 DEF MemoryIInv, MemoryTypes
    <3> QED BY <3>3, <3>4, <3>5
  <2> QED BY <2>1, <2>2, <2>3 DEF Memory!look
<1> QED BY <1>2, <1>6, SameProofs DEF Memory!history, MemoryIInv, MemoryTypes

(* The read asks for the allocation: the proof of it is true now.          *)
LEMMA AllocationKeeps == ASSUME MemoryIInv, Memory!allocation PROVE MemoryIInv'
<1>1. Memory!At("allocation") /\ field.step = "allocation"
  BY DEF Memory!allocation, Memory!At
<1>2. UNCHANGED <<mem, mem_changes, mode, regions, pages, failed, attempted, verdict, Memory!history>>
  BY DEF Memory!allocation
<1>3. PICK at \in Memory!Pages, kind \in Memory!Kinds : at = field.at /\ kind = field.kind
  BY <1>1, FieldUnderWay
<1>4. at \in Nat /\ Memory!Allocation(at) = {} /\ Len(pages) < PageLimit
  BY <1>1, <1>3, FieldUnderWay DEF MemoryIInv, FieldFits
<1>5. CASE UNCHANGED allocations /\ Memory!To("region")
  <2>1. \A p \in Memory!Pages : \A k \in Memory!Kinds : Covered(p, k)' = Covered(p, k)
    BY <1>2, <1>5 DEF Covered, PageCovers, RegionCovers
  <2>2. field' \in FieldStates /\ FieldFits'
    BY <2>1, <1>1, <1>2, <1>3, <1>4, <1>5, ToFits
  <2> QED BY <2>2, <1>2, <1>5, SameProofs DEF Memory!proofs, Memory!history, MemoryIInv, MemoryTypes
<1>6. ASSUME Len(allocations) < AllocationLimit, mem[field.at].alloc.kind = field.kind,
             allocations' = Append(allocations, mem[field.at].alloc), Memory!To("page")
      PROVE  MemoryIInv'
  <2> DEFINE a == mem[at].alloc  new == Len(allocations) + 1
  <2>1. a \in Memory!Fits /\ a # Memory!Free /\ a.kind = kind
    <3>1. a \in Memory!Fits \union {Memory!Free} /\ a.kind = kind
      BY <1>3, <1>6 DEF MemoryIInv, MemoryTypes, PageStates
    <3>2. Memory!Free.kind \notin Memory!Kinds
      BY DEF Memory!Free, Memory!Kinds
    <3> QED BY <3>1, <3>2
  <2>2. at \in Memory!Span(a) /\ \A q \in Memory!Span(a) : mem[q].alloc = a
    BY <2>1 DEF MemoryIInv, MemoryFits
  <2>3. /\ allocations' \in Seq(Memory!Fits) /\ Grows(allocations, allocations')
        /\ Len(allocations') = new
        /\ allocations'[new] = a /\ new \in DOMAIN allocations'
        /\ \A i \in DOMAIN allocations' : i \in DOMAIN allocations \/ i = new
    BY <2>1, <1>3, <1>6, ProofLists, AppendGrows
  <2>4. mem' = mem /\ before' = before /\ aba' = aba /\ regions' = regions /\ pages' = pages
        /\ got' = got /\ mode' = mode
    BY <1>2 DEF Memory!history
  <2>5. /\ \A p \in Memory!Pages : \A k \in Memory!Kinds : Covered(p, k) => Covered(p, k)'
        /\ \A i \in DOMAIN pages : SaidByPage(i)' = SaidByPage(i)
    BY <2>3, <2>4, ProofLists, GrowKeeps
  <2> HIDE DEF a, new
  <2>6. AllocationsFit'
    <3> SUFFICES ASSUME NEW i \in DOMAIN allocations', NEW p \in Memory!Span(allocations'[i])
                 PROVE  aba[p] \/ mem[p].alloc \in {allocations'[i], Memory!Free}
                           \/ ShowsFree \in before[p]
      BY <2>4 DEF AllocationsFit
    <3>1. CASE i = new
      BY <3>1, <2>2, <2>3
    <3>2. CASE i \in DOMAIN allocations
      <4>1. allocations'[i] = allocations[i]
        BY <3>2, <2>3 DEF Grows
      <4> QED BY <3>2, <4>1 DEF MemoryIInv, AllocationsFit
    <3> QED BY <3>1, <3>2, <2>3
  <2>7. PagesFit'
    <3> SUFFICES ASSUME NEW i \in DOMAIN pages
                 PROVE  LET p == pages[i].base  b == allocations'[pages[i].allocation]
                        IN /\ pages[i].allocation \in DOMAIN allocations' /\ p \in Memory!Span(b)
                           /\ \/ aba[p] \/ Memory!Shows(mem, p) = SaidByPage(i)
                                 \/ SaidByPage(i) \in before[p]
                              \/ ShowsFree \in before[p] /\ mem[p].alloc \notin {b, Memory!Free}
      BY <2>4, <2>5 DEF PagesFit, Lost
    <3>1. pages[i].allocation \in DOMAIN allocations
      BY DEF MemoryIInv, PagesFit
    <3>2. allocations'[pages[i].allocation] = allocations[pages[i].allocation]
          /\ pages[i].allocation \in DOMAIN allocations'
      BY <3>1, <2>3 DEF Grows
    <3> QED BY <3>2 DEF MemoryIInv, PagesFit, Lost
  <2>8. RegionsFit' /\ LimitsFit'
    <3>1. RegionsFit'
      BY <2>4 DEF MemoryIInv, RegionsFit
    <3>2. new <= AllocationLimit
      BY <1>6, MemoryBounds, ProofLists DEF new
    <3> QED BY <3>1, <3>2, <2>3, <2>4 DEF MemoryIInv, LimitsFit
  <2>9. Memory!Allocation(at)' # {} /\ \A i \in Memory!Allocation(at)' : allocations'[i].kind = kind
    <3>1. DOMAIN allocations' = 1..Len(allocations') /\ DOMAIN allocations = 1..Len(allocations)
      BY <2>3, ProofLists
    <3>2. new \in Memory!Allocation(at)'
      <4>1. a.base <= at /\ at < a.base + a.size
        BY <2>1, <2>2, <1>4, FitsAre, MemoryBounds DEF Memory!Pages
      <4> QED BY <4>1, <2>3, <3>1 DEF Memory!Allocation
    <3>3. ASSUME NEW i \in Memory!Allocation(at)' PROVE i = new
      <4>1. i \in DOMAIN allocations' /\ allocations'[i].base <= at
            /\ at < allocations'[i].base + allocations'[i].size
        BY <3>1 DEF Memory!Allocation
      <4>2. CASE i \in DOMAIN allocations
        <5>1. allocations'[i] = allocations[i]
          BY <4>2, <2>3 DEF Grows
        <5>2. i \in Memory!Allocation(at)
          BY <4>1, <4>2, <5>1, <3>1 DEF Memory!Allocation
        <5> QED BY <5>2, <1>4
      <4> QED BY <4>1, <4>2, <2>3
    <3> QED BY <3>2, <3>3, <2>1, <2>3
  <2>10. field' \in FieldStates /\ FieldFits'
    BY <2>4, <2>5, <2>9, <1>1, <1>3, <1>4, <1>6, ToFits
  <2> QED BY <2>3, <2>4, <2>6, <2>7, <2>8, <2>10, <1>2, ProofLists, ReaderStep DEF Memory!history,
        MemoryIInv, MemoryTypes
<1> QED BY <1>5, <1>6 DEF Memory!allocation

(* The read asks for the page: the proof is true, or of an allocation that *)
(* was replaced.                                                           *)
LEMMA PageKeeps == ASSUME MemoryIInv, Memory!page PROVE MemoryIInv'
<1>1. Memory!At("page") /\ field.step = "page"
  BY DEF Memory!page, Memory!At
<1>2. UNCHANGED <<mem, mem_changes, mode, regions, allocations, attempted, verdict, Memory!history>>
  BY DEF Memory!page
<1>3. PICK at \in Memory!Pages, kind \in Memory!Kinds : at = field.at /\ kind = field.kind
  BY <1>1, FieldUnderWay
<1>4. /\ at \in Nat /\ Len(pages) < PageLimit /\ Memory!Allocation(at) # {}
      /\ \A i \in Memory!Allocation(at) : allocations[i].kind = kind
  BY <1>1, <1>3, FieldUnderWay DEF MemoryIInv, FieldFits
<1>5. mem' = mem /\ before' = before /\ aba' = aba /\ regions' = regions
      /\ allocations' = allocations
      /\ got' = got /\ mode' = mode
  BY <1>2 DEF Memory!history
<1>6. CASE UNCHANGED pages /\ (Memory!Refused \/ (Memory!To("region") /\ UNCHANGED failed))
  <2>1. \A p \in Memory!Pages : \A k \in Memory!Kinds : Covered(p, k)' = Covered(p, k)
    BY <1>5, <1>6 DEF Covered, PageCovers, RegionCovers
  <2>2. field' \in FieldStates /\ FieldFits' /\ failed' \in BOOLEAN
    <3>1. CASE Memory!Refused
      BY <3>1, RefusedFits
    <3>2. CASE Memory!To("region") /\ UNCHANGED failed
      BY <3>2, <2>1, <1>1, <1>3, <1>4, <1>5, ToFits DEF MemoryIInv, MemoryTypes
    <3> QED BY <3>1, <3>2, <1>6
  <2> QED BY <2>2, <1>2, <1>6, SameProofs DEF Memory!proofs, Memory!history, MemoryIInv, MemoryTypes
<1>7. ASSUME mem[field.at].committed,
             pages' = Append(pages, [base |-> field.at, protection |-> mem[field.at].protection,
                        allocation |->
                          CHOOSE i \in Memory!Allocation(field.at) : \A j \in Memory!Allocation(field.at) : i <= j]),
             Memory!Proved(field.at), UNCHANGED failed
      PROVE  MemoryIInv'
  <2>0. Memory!Allocation(at) \in SUBSET Nat /\ Len(pages) + 1 \in Nat
    BY ProofLists DEF Memory!Allocation
  <2>1. PICK c \in Nat : c \in Memory!Allocation(at)
        /\ c = CHOOSE i \in Memory!Allocation(at) : \A j \in Memory!Allocation(at) : i <= j
    <3>1. PICK i \in Memory!Allocation(at) : \A j \in Memory!Allocation(at) : i <= j
      BY <2>0, <1>4, Smallest
    <3> QED BY <2>0, <3>1
  <2>20. PICK new \in Nat : new = Len(pages) + 1
    BY <2>0
  <2> DEFINE x == [base |-> at, protection |-> mem[at].protection, allocation |-> c]
  <2>2. c \in DOMAIN allocations /\ c \in Nat /\ allocations[c] \in Memory!Fits
        /\ allocations[c].kind = kind
        /\ at \in Memory!Span(allocations[c])
    <3>1. c \in DOMAIN allocations /\ c \in Nat /\ allocations[c].base <= at
          /\ at < allocations[c].base + allocations[c].size
      BY <2>1, ProofLists DEF Memory!Allocation
    <3>2. allocations[c] \in Memory!Fits /\ allocations[c].kind = kind
      BY <2>1, <3>1, <1>4, ProofLists
    <3>3. at \in Memory!Span(allocations[c])
      BY <3>1, <3>2, <1>4, FitsAre, MemoryBounds DEF Memory!Pages
    <3> QED BY <3>1, <3>2, <3>3
  <2>3. mem[at] \in PageStates
    BY DEF MemoryIInv, MemoryTypes
  <2>4. x \in PageProofs /\ x.base = at /\ x.protection = mem[at].protection /\ x.allocation = c
    BY <2>2, <2>3 DEF PageProofs, PageStates
  <2>5. pages' = Append(pages, x)
    BY <1>3, <1>7, <2>1
  <2> HIDE DEF x
  <2>6. /\ pages' \in Seq(PageProofs) /\ Grows(pages, pages') /\ Len(pages') = new
        /\ pages'[new] = x /\ new \in DOMAIN pages'
        /\ \A i \in DOMAIN pages' : i \in DOMAIN pages \/ i = new
    BY <2>4, <2>5, <2>20, ProofLists, AppendGrows
  <2>7. /\ \A p \in Memory!Pages : \A k \in Memory!Kinds : Covered(p, k) => Covered(p, k)'
        /\ \A i \in DOMAIN pages : SaidByPage(i)' = SaidByPage(i)
    BY <2>6, <1>5, ProofLists, GrowKeeps
  <2>8. SaidByPage(new)' =
        [owner |-> allocations[c].base, kind |-> allocations[c].kind, committed |-> TRUE,
                            protection |-> mem[at].protection]
    BY <2>4, <2>6, <1>5 DEF SaidByPage
  <2>9. aba[at] \/ Memory!Shows(mem, at) = SaidByPage(new)' \/ (ShowsFree \in before[at]
        /\ mem[at].alloc \notin {allocations[c], Memory!Free})
    <3>1. aba[at] \/ mem[at].alloc \in {allocations[c], Memory!Free} \/ ShowsFree \in before[at]
      BY <2>2 DEF MemoryIInv, AllocationsFit
    <3>2. mem[at].committed = TRUE
      BY <1>3, <1>7, <2>3 DEF PageStates
    <3>3. mem[at].alloc # Memory!Free
      <4>1. Memory!Blank.committed = FALSE
        BY Zenon DEF Memory!Blank
      <4> QED BY <4>1, <3>2 DEF MemoryIInv, MemoryFits
    <3>4. CASE mem[at].alloc = allocations[c]
      BY <3>2, <3>4, <2>8, Zenon DEF Memory!Shows
    <3> QED BY <3>1, <3>3, <3>4
  <2>10. PagesFit'
    <3> SUFFICES ASSUME NEW i \in DOMAIN pages'
                 PROVE  LET p == pages'[i].base  b == allocations[pages'[i].allocation]
                        IN /\ pages'[i].allocation \in DOMAIN allocations /\ p \in Memory!Span(b)
                           /\ \/ aba[p] \/ Memory!Shows(mem, p) = SaidByPage(i)'
                                 \/ SaidByPage(i)' \in before[p]
                              \/ ShowsFree \in before[p] /\ mem[p].alloc \notin {b, Memory!Free}
      BY <1>5 DEF PagesFit, Lost
    <3>1. CASE i = new
      BY <3>1, <2>2, <2>4, <2>6, <2>9
    <3>2. CASE i \in DOMAIN pages
      <4>1. pages'[i] = pages[i] /\ SaidByPage(i)' = SaidByPage(i)
        BY <3>2, <2>6, <2>7 DEF Grows
      <4> QED BY <3>2, <4>1 DEF MemoryIInv, PagesFit, Lost
    <3> QED BY <3>1, <3>2, <2>6
  <2>11. RegionsFit' /\ AllocationsFit'
    BY <1>5 DEF MemoryIInv, RegionsFit, AllocationsFit
  <2>12. LimitsFit'
    <3>1. new <= PageLimit
      BY <1>4, <2>20, MemoryBounds, ProofLists
    <3> QED BY <3>1, <2>6, <1>5 DEF MemoryIInv, LimitsFit
  <2>13. Covered(at, kind)'
    <3>1. PageCovers(new, at, kind)'
      BY <2>2, <2>4, <2>6, <1>5 DEF PageCovers
    <3> QED BY <3>1, <2>6 DEF Covered
  <2>14. field' \in FieldStates /\ FieldFits'
    <3>1. field.at \in field.at..field.last /\ \A p \in field.at..field.at : Covered(p, kind)'
      BY <2>13, <1>1, <1>3, FieldUnderWay
    <3> QED BY <3>1, <2>7, <1>1, <1>3, <1>5, <1>7, ProvedFits
  <2> QED BY <2>6, <2>10, <2>11, <2>12, <2>14, <1>2, <1>5, <1>7, ProofLists, ReaderStep
        DEF Memory!history, MemoryIInv, MemoryTypes
<1> QED BY <1>6, <1>7 DEF Memory!page

(* The read uses a region.                                                 *)
LEMMA UseFits ==
  ASSUME MemoryIInv, field.step \notin {"idle", "copy"}, NEW r \in Answers, Memory!Use(r),
        Memory!region_contains(r, field.at), mode' = mode,
         \E i \in DOMAIN regions' : regions'[i] = r,
         \A p \in Memory!Pages : \A k \in Memory!Kinds : Covered(p, k) => Covered(p, k)'
  PROVE  FieldFits' /\ field' \in FieldStates /\ failed' \in BOOLEAN
<1>1. CASE Memory!Unread
  BY <1>1, UnreadFits DEF MemoryIInv, MemoryTypes
<1>2. CASE Memory!Readable(r, field.kind) /\ Memory!Proved(Memory!Piece(r)) /\ UNCHANGED failed
  <2>1. PICK at \in Memory!Pages, kind \in Memory!Kinds : at = field.at /\ kind = field.kind
    BY FieldUnderWay
  <2>2. /\ at \in Nat /\ field.last \in Nat /\ at <= field.last /\ field.last <= PageCount
        /\ r.base \in Nat /\ r.size \in Nat
        /\ r.base <= at /\ at < r.base + r.size
    BY <2>1, FieldUnderWay, MemoryBounds DEF Answers, Memory!Pages, Memory!region_contains
  <2> DEFINE end == Memory!Piece(r)
  <2>3. end \in at..field.last /\ end < r.base + r.size
    BY <2>1, <2>2 DEF Memory!Piece, Memory!Lesser
  <2> HIDE DEF end
  <2>4. ASSUME NEW p \in at..end PROVE Covered(p, kind)'
    <3>1. RegionCovers(r, p, kind)
      BY <2>1, <2>2, <2>3, <1>2 DEF RegionCovers, Memory!region_contains
    <3> QED BY <3>1 DEF Covered
  <2>5. field' \in FieldStates /\ FieldFits'
    BY <2>1, <2>3, <2>4, <1>2, ProvedFits DEF end
  <2> QED BY <2>5, <1>2 DEF MemoryIInv, MemoryTypes
<1> QED BY <1>1, <1>2 DEF Memory!Use

(* A region was asked for: the proof of it is true now.                    *)
LEMMA RegionAdded ==
  ASSUME MemoryIInv, NEW x \in Memory!Pages, NEW r, r = Memory!query_memory_uncached(x),
        regions' = Append(regions, r),
         Len(regions) < RegionLimit, Memory!region_contains(r, field.at), Memory!Use(r), field.step \notin {"idle", "copy"},
         UNCHANGED <<mem, mem_changes, mode, pages, allocations, attempted, verdict, Memory!history>>
  PROVE  MemoryIInv'
<1> DEFINE new == Len(regions) + 1
<1>1. r \in Answers /\ \A p \in Memory!Pages : Memory!region_contains(r, p)
      => Memory!Shows(mem, p) = SaidByRegion(r)
  BY QueryIs DEF MemoryIInv
<1>2. /\ regions' \in Seq(Answers) /\ Grows(regions, regions') /\ Len(regions') = new
      /\ regions'[new] = r /\ new \in DOMAIN regions'
      /\ \A i \in DOMAIN regions' : i \in DOMAIN regions \/ i = new
  BY <1>1, ProofLists, AppendGrows
<1>3. mem' = mem /\ before' = before /\ aba' = aba /\ got' = got
  BY DEF Memory!history
<1>4. /\ \A p \in Memory!Pages : \A k \in Memory!Kinds : Covered(p, k) => Covered(p, k)'
      /\ \A i \in DOMAIN pages : SaidByPage(i)' = SaidByPage(i)
  BY <1>2, <1>3, ProofLists, GrowKeeps
<1>5. LimitsFit'
  <2>1. new <= RegionLimit
    BY MemoryBounds, ProofLists
  <2> QED BY <2>1, <1>2 DEF MemoryIInv, LimitsFit
<1> HIDE DEF new
<1>6. RegionsFit'
  <2> SUFFICES ASSUME NEW i \in DOMAIN regions', NEW p \in Memory!Pages,
        Memory!region_contains(regions'[i], p)
               PROVE  aba[p] \/ Memory!Shows(mem, p) = SaidByRegion(regions'[i])
                         \/ SaidByRegion(regions'[i]) \in before[p]
    BY <1>3 DEF RegionsFit
  <2>1. CASE i = new
    BY <2>1, <1>1, <1>2
  <2>2. CASE i \in DOMAIN regions
    <3>1. regions'[i] = regions[i]
      BY <2>2, <1>2 DEF Grows
    <3> QED BY <2>2, <3>1 DEF MemoryIInv, RegionsFit
  <2> QED BY <2>1, <2>2, <1>2
<1>7. PagesFit' /\ AllocationsFit'
  <2>1. PagesFit'
    BY <1>3, <1>4 DEF MemoryIInv, PagesFit, Lost
  <2>2. AllocationsFit'
    BY <1>3 DEF MemoryIInv, AllocationsFit
  <2> QED BY <2>1, <2>2
<1>8. FieldFits' /\ field' \in FieldStates /\ failed' \in BOOLEAN
  BY <1>1, <1>2, <1>4, UseFits
<1> QED BY <1>2, <1>5, <1>6, <1>7, <1>8, ProofLists, ReaderStep DEF Memory!history, MemoryIInv,
      MemoryTypes

(* The read finds a region, or asks for the window.                        *)
LEMMA QueryKeeps == ASSUME MemoryIInv, Memory!query PROVE MemoryIInv'
<1>1. Memory!At("region") /\ field.step = "region"
  BY DEF Memory!query, Memory!At
<1>2. UNCHANGED <<mem, mem_changes, mode, pages, allocations, attempted, verdict, Memory!history>>
  BY DEF Memory!query
<1>3. PICK at \in Memory!Pages, kind \in Memory!Kinds : at = field.at /\ kind = field.kind
  BY <1>1, FieldUnderWay
<1>4. CASE UNCHANGED regions
  <2>1. \A p \in Memory!Pages : \A k \in Memory!Kinds : Covered(p, k)' = Covered(p, k)
    BY <1>2, <1>4 DEF Covered, PageCovers, RegionCovers
  <2>2. Len(regions) <= RegionLimit /\ Len(regions) \in Nat
    BY ProofLists DEF MemoryIInv, LimitsFit
  <2>3. field' \in FieldStates /\ FieldFits' /\ failed' \in BOOLEAN
    <3>1. CASE Memory!Refused
      BY <3>1, RefusedFits
    <3>2. ASSUME Memory!Regions(field.at) # {},
                 Memory!Use(regions[CHOOSE i \in Memory!Regions(field.at) : \A j \in Memory!Regions(field.at) : i <= j])
          PROVE  field' \in FieldStates /\ FieldFits' /\ failed' \in BOOLEAN
      <4> DEFINE c == CHOOSE i \in Memory!Regions(field.at) : \A j \in Memory!Regions(field.at) : i <= j
      <4>1. Memory!Regions(field.at) \in SUBSET Nat
        BY ProofLists DEF Memory!Regions
      <4>2. PICK i \in Memory!Regions(field.at) : \A j \in Memory!Regions(field.at) : i <= j
        BY <4>1, <3>2, Smallest
      <4>3. c \in Memory!Regions(field.at)
        BY <4>2
      <4>4. Memory!Use(regions[c])
        BY <3>2
      <4> HIDE DEF c
      <4>5. c \in DOMAIN regions /\ Memory!region_contains(regions[c], field.at)
            /\ regions[c] \in Answers
        BY <4>3, ProofLists DEF Memory!Regions
      <4> QED BY <4>4, <4>5, <2>1, <1>1, <1>2, <1>4, UseFits
    <3>3. CASE Len(regions) # RegionLimit /\ Memory!To("exact") /\ UNCHANGED failed
      <4>1. Len(regions') < RegionLimit
        BY <3>3, <2>2, <1>4, MemoryBounds
      <4>2. at \in Nat
        BY <1>3, FieldUnderWay, <1>1
      <4> QED BY <3>3, <4>1, <4>2, <2>1, <1>1, <1>2, <1>3, ToFits DEF MemoryIInv, MemoryTypes
    <3>4. CASE regions' = Append(regions, Memory!query_memory_uncached(Memory!WindowStart(field.at)))
      <4>1. Len(regions') = Len(regions)
        BY <1>4
      <4> QED BY <3>4, <4>1, <2>2
    <3> QED BY <3>1, <3>2, <3>3, <3>4 DEF Memory!query
  <2> QED BY <2>3, <1>2, <1>4, SameProofs DEF Memory!proofs, Memory!history, MemoryIInv, MemoryTypes
<1>5. ASSUME Len(regions) # RegionLimit, NEW r,
      r = Memory!query_memory_uncached(Memory!WindowStart(field.at)),
             Memory!region_contains(r, field.at), regions' = Append(regions, r), Memory!Use(r)
      PROVE  MemoryIInv'
  <2>1. Memory!WindowStart(field.at) \in Memory!Pages
    <3>1. at \in Nat /\ at >= 1 /\ at <= PageCount
      BY MemoryBounds DEF Memory!Pages
    <3>2. (at - 1) % Window \in 0..Window - 1 /\ (at - 1) % Window <= at - 1
      BY <3>1, MemoryBounds
    <3> QED BY <3>1, <3>2, <1>3, MemoryBounds DEF Memory!WindowStart, Memory!Pages
  <2>2. Len(regions) < RegionLimit
    BY <1>5, MemoryBounds, ProofLists DEF MemoryIInv, LimitsFit
  <2> QED BY <2>1, <2>2, <1>1, <1>2, <1>5, RegionAdded
<1> QED BY <1>4, <1>5 DEF Memory!query

(* The read asks for the page alone.                                       *)
LEMMA QueryExactKeeps == ASSUME MemoryIInv, Memory!query_exact PROVE MemoryIInv'
<1>1. field.step = "exact"
  BY DEF Memory!query_exact, Memory!At
<1>2. field.at \in Memory!Pages
  BY <1>1, FieldUnderWay
<1>3. Len(regions) < RegionLimit
  BY <1>1 DEF MemoryIInv, FieldFits
<1> DEFINE r == Memory!query_memory_uncached(field.at)
<1>4. Memory!region_contains(r, field.at)
  BY <1>2, QueryIs DEF MemoryIInv
<1>5. regions' = Append(regions, r) /\ Memory!Use(r)
      /\ UNCHANGED <<mem, mem_changes, mode, pages, allocations, attempted, verdict, Memory!history>>
  BY DEF Memory!query_exact
<1> HIDE DEF r
<1> QED BY <1>1, <1>2, <1>3, <1>4, <1>5, RegionAdded DEF r

(* The bytes are copied under the proofs that cover them.                  *)
LEMMA ReadMemoryKeeps == ASSUME MemoryIInv, Memory!read_memory PROVE MemoryIInv'
<1>1. field.step = "copy"
  BY DEF Memory!read_memory, Memory!At
<1>2. /\ mem' = mem /\ mem_changes' = mem_changes /\ mode' = mode /\ regions' = regions
      /\ pages' = pages /\ allocations' = allocations
      /\ attempted' = attempted /\ verdict' = verdict /\ before' = before /\ aba' = aba
            /\ final' = final
  BY DEF Memory!read_memory, Memory!proofs
<1>3. PICK at \in Memory!Pages, kind \in Memory!Kinds : at = field.at /\ kind = field.kind
  BY <1>1, FieldUnderWay
<1>4. CASE Memory!Refused /\ UNCHANGED got
  BY <1>2, <1>4, RefusedFits, SameProofs DEF Memory!proofs, MemoryIInv, MemoryTypes
<1>5. ASSUME got' = [p \in Memory!Pages |-> IF p \in field.copy..field.at
                                     THEN [is |-> field.kind, was |-> Memory!Shows(mem, p)]
                                           ELSE got[p]],
             field' = IF field.at = field.last THEN Memory!NoField
                      ELSE [field EXCEPT !.at = @ + 1, !.copy = field.at + 1, !.step = "look"],
             UNCHANGED failed
      PROVE  MemoryIInv'
  <2>1. MemoryTypes'
    <3>1. field' \in FieldStates
      <4>1. CASE field.at = field.last
        BY <4>1, <1>5, MemoryBounds DEF Memory!NoField, FieldStates, FieldKinds, FieldSteps,
              Memory!Kinds
      <4>2. CASE field.at # field.last
        <5>1. field' = [kind |-> field.kind, at |-> field.at + 1, last |-> field.last, step |-> "look",
                          copy |-> field.at + 1]
          BY <4>2, <1>1, <1>5, FieldUnderWay DEF FieldStates
        <5> QED BY <5>1, <4>2, <1>1, FieldUnderWay, MemoryBounds DEF FieldStates, FieldSteps
      <4> QED BY <4>1, <4>2
    <3> QED BY <3>1, <1>2, <1>5 DEF MemoryIInv, MemoryTypes
  <2>2. MemoryFits' /\ ReturnsAreSeen' /\ AllocationsFit' /\ RegionsFit' /\ LimitsFit'
    BY <1>2 DEF MemoryIInv, MemoryFits, ReturnsAreSeen, AllocationsFit, RegionsFit, LimitsFit
  <2>3. PagesFit'
    BY <1>2 DEF MemoryIInv, PagesFit, SaidByPage, Lost
  <2>4. FieldFits'
    <3>1. CASE field.at = field.last
      <4>1. field'.step = "idle"
        BY <3>1, <1>5 DEF Memory!NoField
      <4> QED BY <4>1 DEF FieldFits
    <3>2. CASE field.at # field.last
      <4>1. field' = [kind |-> field.kind, at |-> field.at + 1, last |-> field.last, step |-> "look",
                          copy |-> field.at + 1]
        BY <3>2, <1>1, <1>5, FieldUnderWay DEF FieldStates
      <4>2. /\ field'.kind = field.kind /\ field'.at = field.at + 1 /\ field'.last = field.last
            /\ field'.step = "look"
            /\ field'.copy = field.at + 1
        BY <4>1
      <4>3. field.at + 1 <= field.last /\ 1 <= field.at + 1 /\ field.at + 1 <= field.at + 1
            /\ (field.at + 1)..(field.at + 1 - 1) = {}
        BY <3>2, <1>1, FieldUnderWay
      <4>4. mode # "none" /\ field.kind \in Memory!Kinds
        BY <1>1, FieldUnderWay
      <4>5. \A p \in field'.copy..field'.at - 1 : Covered(p, field.kind)'
        <5>1. ASSUME NEW p \in field'.copy..field'.at - 1 PROVE FALSE
          BY <4>2, <1>1, FieldUnderWay
        <5> QED BY <5>1
      <4> QED BY <4>2, <4>3, <4>4, <4>5, <1>2 DEF FieldFits
    <3> QED BY <3>1, <3>2
  <2>5. VerdictFits'
    <3>1. verdict = "open"
      BY <1>1, FieldUnderWay DEF MemoryIInv, VerdictFits
    <3> QED BY <3>1, <1>2 DEF VerdictFits, Memory!AcceptedIsUnchanged
  <2>6. CopiesFit'
    <3> SUFFICES ASSUME NEW p \in Memory!Pages, got'[p].is # "none", mode # "none"
          PROVE CopyFits(p)'
      BY <1>2 DEF CopiesFit
    <3>1. CASE p \notin field.copy..field.at
      <4>1. got'[p] = got[p]
        BY <3>1, <1>5
      <4>2. CopyFits(p)
        BY <4>1 DEF MemoryIInv, CopiesFit
      <4> QED BY <4>1, <4>2, <1>2 DEF CopyFits, PageCovers, RegionCovers, SaidByPage, Lost
    <3>2. CASE p \in field.copy..field.at
      <4>1. got'[p].is = kind /\ got'[p].was = Memory!Shows(mem, p)
        BY <3>2, <1>3, <1>5
      <4>2. Covered(p, kind)
        BY <3>2, <1>1, <1>3 DEF MemoryIInv, FieldFits
      <4>3. ASSUME NEW i \in DOMAIN pages, PageCovers(i, p, kind) PROVE CopyFits(p)'
        <5>1. aba[p] \/ Memory!Shows(mem, p) = SaidByPage(i) \/ SaidByPage(i) \in before[p]
              \/ Lost(allocations[pages[i].allocation], p)
          BY <4>3 DEF MemoryIInv, PagesFit, PageCovers
        <5>2. SaidByPage(i)' = SaidByPage(i) /\ PageCovers(i, p, got[p].is)' /\ i \in DOMAIN pages'
              /\ Lost(allocations[pages[i].allocation], p)' = Lost(allocations[pages[i].allocation], p)
              /\ Memory!Shows(mem, p)' = Memory!Shows(mem, p)
          BY <1>2, <4>1, <4>3 DEF SaidByPage, PageCovers, Lost, Memory!Shows
        <5> QED BY <5>1, <5>2, <4>1, <1>2, Zenon DEF CopyFits
      <4>4. ASSUME NEW i \in DOMAIN regions, RegionCovers(regions[i], p, kind) PROVE CopyFits(p)'
        <5>1. aba[p] \/ Memory!Shows(mem, p) = SaidByRegion(regions[i])
              \/ SaidByRegion(regions[i]) \in before[p]
          BY <4>4 DEF MemoryIInv, RegionsFit, RegionCovers
        <5>2. SaidByRegion(regions[i])' = SaidByRegion(regions[i])
              /\ RegionCovers(regions[i], p, got[p].is)' /\ i \in DOMAIN regions'
              /\ Memory!Shows(mem, p)' = Memory!Shows(mem, p)
          BY <1>2, <4>1, <4>4 DEF SaidByRegion, RegionCovers, Memory!Shows, Memory!region_contains,
                Memory!Readable
        <5> QED BY <5>1, <5>2, <4>1, <1>2, Zenon DEF CopyFits
      <4> QED BY <4>2, <4>3, <4>4 DEF Covered
    <3> QED BY <3>1, <3>2
  <2> QED BY <2>1, <2>2, <2>3, <2>4, <2>5, <2>6 DEF MemoryIInv
<1> QED BY <1>4, <1>5 DEF Memory!read_memory

(* Nothing happens.                                                        *)
LEMMA MemoryStutter == ASSUME MemoryIInv, UNCHANGED Memory!vars PROVE MemoryIInv'
<1>1. UNCHANGED <<mem, mem_changes, mode, Memory!proofs, failed, attempted, field, verdict, got, before, aba, final>>
  BY DEF Memory!vars, Memory!history
<1>2. field' \in FieldStates /\ failed' \in BOOLEAN /\ attempted' \in 0..ReadLimit
  BY <1>1 DEF MemoryIInv, MemoryTypes
<1>3. FieldFits'
  BY <1>1 DEF MemoryIInv, FieldFits, Covered, PageCovers, RegionCovers, Memory!Allocation,
        Memory!proofs
<1> QED BY <1>1, <1>2, <1>3, SameProofs

(* Every step keeps the invariant.                                         *)
LEMMA MemoryStepKeeps == MemoryIInv /\ [Memory!Next]_(Memory!vars) => MemoryIInv'
<1> SUFFICES ASSUME MemoryIInv, [Memory!Next]_(Memory!vars) PROVE MemoryIInv'
  OBVIOUS
<1>1. CASE UNCHANGED Memory!vars
  BY <1>1, MemoryStutter
<1>2. ASSUME NEW m \in {"regions", "pages"}, Memory!opens(m) PROVE MemoryIInv'
  BY <1>2, OpensKeeps
<1>3. ASSUME NEW k \in Memory!Kinds, NEW p \in Memory!Pages, NEW n \in 1..2, Memory!reads(k, p,
      n) PROVE MemoryIInv'
  BY <1>3, ReadsKeeps
<1>4. CASE Memory!look \/ Memory!allocation \/ Memory!page \/ Memory!query \/ Memory!query_exact
      \/ Memory!read_memory \/ Memory!finish
  BY <1>4, LookKeeps, AllocationKeeps, PageKeeps, QueryKeeps, QueryExactKeeps, ReadMemoryKeeps,
        FinishKeeps
<1>5. ASSUME NEW p \in Memory!Pages, Memory!frees(p) \/ Memory!decommits(p)
      \/ \E y \in {"rw", "ro", "none"} : Memory!protects(p, y) PROVE MemoryIInv'
  BY <1>5, FreesKeeps, DecommitsKeeps, ProtectsKeeps
<1>6. ASSUME NEW a \in Memory!Fits, Memory!allocates(a) PROVE MemoryIInv'
  BY <1>6, AllocatesKeeps
<1> QED BY <1>1, <1>2, <1>3, <1>4, <1>5, <1>6 DEF Memory!Next

(* An accepted inspection read, of every page that did not leave and come  *)
(* back, memory of the kind it asked for that is still what it was; a flag *)
(* word is written only inside one writable private allocation.  For any   *)
(* size of memory, number of proofs and number of changes.                 *)
THEOREM MemorySafe == Memory!Spec => []MemorySafety
<1>1. MemoryIInv => MemorySafety
  BY MemoryConsequences DEF MemorySafety
<1> QED BY <1>1, MemoryInitFits, MemoryStepKeeps, PTL DEF Memory!Spec
=============================================================================
