-------------------------- MODULE EntryPairProofs ---------------------------
(***************************************************************************)
(* Proofs about EntryPair, for every number of manager lifetimes and       *)
(* entries: what the controller never gets wrong, and that it implements   *)
(* CameraOwnership.                                                        *)
(***************************************************************************)
EXTENDS EntryPair, TLAPS

Cleaning  == {"erase2", "erase1"}
Starting  == {"start", "initialize1", "create1"}
Finishing == {"initialize2", "create2"}

(* What exists in the engine is held, under the lifetime that made it.     *)
LiveIsHeld ==
  \A e \in live : /\ e[1] = manager /\ e[1] = owner /\ e[1] # 0
                  /\ e[2] \in {ids[1], ids[2]} /\ e[2] # 0

(* Where an update stands tells what it owns.                              *)
StageOwns ==
  /\ pc \in Cleaning => owner = manager /\ manager # 0
  /\ pc \in Starting => ids = <<0, 0>> /\ manager # 0
  /\ pc \in Finishing => owner = manager /\ manager # 0 /\ ids[1] # 0 /\ ids[2] = 0

(* Entry IDs are drawn once: what is owned was not confirmed absent, and   *)
(* the two differ.                                                         *)
OwnedIsUnconfirmed ==
  /\ ids[1] # 0 => <<owner, ids[1]>> \notin confirmed /\ ids[1] <= last_id
  /\ ids[2] # 0 => <<owner, ids[2]>> \notin confirmed /\ ids[2] <= last_id
  /\ ids[1] = ids[2] => ids[1] = 0
  /\ \A e \in confirmed : e[2] <= last_id

(* An update that is about to publish "active" has a whole pair.           *)
ActiveIsWhole ==
  pc = "publish" /\ answer = "active" => active_pair /\ ids[1] # 0 /\ ids[2] # 0

(* A creation that is wanted or under way is licensed, and is wanted no    *)
(* more once it is under way.                                              *)
CreationIsLicensed ==
  /\ creation_pending => licence
  /\ pc \in {"initialize1", "create1"} \cup Finishing => licence /\ ~creation_pending

IInv == /\ TypeOK /\ LiveIsHeld /\ StageOwns /\ OwnedIsUnconfirmed /\ ActiveIsWhole
        /\ CreationIsLicensed /\ PublishedIsOwned
-----------------------------------------------------------------------------
(* What clearing the slot at hand leaves of the pair of IDs.               *)
LEMMA Cleared ==
  ASSUME TypeOK
  PROVE  /\ ids = <<ids[1], ids[2]>> /\ ids[1] \in Ids /\ ids[2] \in Ids
         /\ pc = "erase2" => Slot = 2 /\ [ids EXCEPT ![Slot] = 0] = <<ids[1], 0>>
         /\ pc = "erase1" => Slot = 1 /\ [ids EXCEPT ![Slot] = 0] = <<0, ids[2]>>
<1>1. ids = <<ids[1], ids[2]>> /\ ids[1] \in Ids /\ ids[2] \in Ids
  BY DEF TypeOK
<1>2. [ids EXCEPT ![2] = 0] = <<ids[1], 0>> /\ [ids EXCEPT ![1] = 0] = <<0, ids[2]>>
  BY <1>1
<1> QED BY <1>1, <1>2 DEF Slot

(* Zero stands for no lifetime and no entry; the numbers are naturals.     *)
LEMMA Domains ==
  /\ 0 \in Tokens /\ 0 \in Ids /\ <<0, 0>> \in Ids \X Ids
  /\ Tokens \subseteq Nat /\ Ids \subseteq Nat
  /\ \A n \in Ids : n < MaxId => n + 1 \in Ids
  /\ \A n \in Tokens : n < MaxToken => n + 1 \in Tokens
BY EntryPairAssumption DEF EntryPairAssumption, Tokens, Ids

LEMMA Records ==
  /\ NoRequest \in Requests \cup {NoRequest}
  /\ Empty \in [state : States, failure : Failures, owner : Tokens, ids : Ids \X Ids,
                creation_pending : BOOLEAN]
  /\ [Empty EXCEPT !.state = "failed", !.failure = "manager_destroyed"]
       \in [state : States, failure : Failures, owner : Tokens, ids : Ids \X Ids,
            creation_pending : BOOLEAN]
BY Domains DEF Empty, States, Failures

(* Nothing is owned and nothing happens at first.                          *)
LEMMA InitIInv == Init => IInv
<1> SUFFICES ASSUME Init PROVE IInv
  OBVIOUS
<1>1. TypeOK
  BY Domains, Records DEF Init, TypeOK, States, Failures, Stages
<1>2. LiveIsHeld /\ StageOwns /\ ActiveIsWhole /\ CreationIsLicensed
  BY DEF Init, LiveIsHeld, StageOwns, ActiveIsWhole, CreationIsLicensed, Cleaning, Starting, Finishing
<1>3. OwnedIsUnconfirmed
  BY DEF Init, OwnedIsUnconfirmed
<1>4. PublishedIsOwned
  BY DEF Init, PublishedIsOwned, Empty
<1> QED BY <1>1, <1>2, <1>3, <1>4 DEF IInv

(* Types are kept by every step.                                           *)
LEMMA NextTypeOK == TypeOK /\ [Next]_vars => TypeOK'
<1> SUFFICES ASSUME TypeOK, [Next]_vars PROVE TypeOK'
  OBVIOUS
<1> USE DEF own, step, engine, ghost
<1>pair. ids = <<ids[1], ids[2]>> /\ ids[1] \in Ids /\ ids[2] \in Ids
  BY Cleared
<1>1. ASSUME NEW r \in Requests, request(r) PROVE TypeOK'
  BY <1>1 DEF request, TypeOK
<1>2. CASE cancel_uncreated_request
  BY <1>2, Records DEF cancel_uncreated_request, TypeOK, Failures
<1>3. ASSUME NEW callbacks \in BOOLEAN, take(callbacks) PROVE TypeOK'
  <2> DEFINE w == Wanted(mailbox)
  <2>1. w.keys \in Keys \cup {NoKeys} /\ w.enabled \in BOOLEAN /\ w.failure \in Failures /\ w.pending \in BOOLEAN
    <3>1. desired_keys \in Keys \cup {NoKeys} /\ desired_enabled \in BOOLEAN
          /\ failure \in Failures /\ creation_pending \in BOOLEAN /\ "none" \in Failures
      BY DEF TypeOK, Failures
    <3>2. mailbox.command = "enable" => mailbox.keys \in Keys
      BY DEF TypeOK, Requests, NoRequest
    <3> QED BY <3>1, <3>2 DEF Wanted
  <2> HIDE DEF w
  <2>2. Route(w, callbacks)[1] \in Stages /\ Route(w, callbacks)[2] \in States
    BY DEF Route, Settled, Stages, States
  <2>3. licence' \in BOOLEAN
    BY <1>3 DEF take, TypeOK
  <2> QED BY <1>3, <2>1, <2>2, <2>3, Records DEF take, w, TypeOK
<1>4. ASSUME NEW sure \in BOOLEAN, NEW gone \in BOOLEAN, erase(sure, gone) PROVE TypeOK'
  <2>1. Slot \in {1, 2} /\ ids[Slot] \in Ids
    BY <1>pair DEF Slot
  <2>2. ids' \in Ids \X Ids
    BY <1>4, <1>pair, Domains, Cleared DEF erase, Remaining, TypeOK
  <2>3. live' \subseteq Tokens \X Ids /\ confirmed' \subseteq Tokens \X Ids
    BY <1>4, <2>1 DEF erase, TypeOK
  <2>4. pc' \in Stages /\ answer' \in States /\ owner' \in Tokens
    BY <1>4, Domains DEF erase, Settled, Stages, States, TypeOK
  <2> QED BY <1>4, <2>2, <2>3, <2>4 DEF erase, TypeOK
<1>5. CASE skip
  <2>1. pc' \in Stages /\ answer' \in States /\ owner' \in Tokens
    BY <1>5, Domains DEF skip, Settled, Stages, States, TypeOK
  <2> QED BY <1>5, <2>1 DEF skip, TypeOK
<1>6. CASE start
  <2>1. pc' \in Stages /\ answer' \in States /\ creation_pending' \in BOOLEAN
    BY <1>6 DEF start, Settled, Stages, States, TypeOK
  <2> QED BY <1>6, <2>1 DEF start, TypeOK
<1>7. ASSUME NEW why \in Failures, Fails(why) PROVE TypeOK'
  <2>1. pc' \in Stages /\ answer' \in States /\ active_pair' \in BOOLEAN
    BY <1>7 DEF Fails, Stages, States, TypeOK
  <2> QED BY <1>7, <2>1 DEF Fails, TypeOK
<1>8. ASSUME NEW why \in {"none", "initializer_failed", "initializer_contract"}, prepare(why) PROVE TypeOK'
  <2>1. CASE why = "none"
    <3>1. pc' \in Stages
      BY <1>8, <2>1 DEF prepare, Stages
    <3> QED BY <1>8, <2>1, <3>1 DEF prepare, TypeOK
  <2>2. CASE why # "none"
    BY <1>7, <1>8, <2>2 DEF prepare, Failures
  <2> QED BY <2>1, <2>2
<1>9. CASE create_fails \/ create_duplicate
  BY <1>7, <1>9 DEF create_fails, create_duplicate, Failures
<1>10. CASE create_first \/ create_second
  <2>1. last_id' \in Ids /\ last_id' = last_id + 1 /\ live' = live \cup {<<manager, last_id'>>}
    BY <1>10, Domains DEF create_first, create_second, TypeOK
  <2>2. live' \subseteq Tokens \X Ids
    BY <2>1 DEF TypeOK
  <2>3. CASE create_first
    <3>1. ids' = <<last_id', ids[2]>>
      BY <2>3, <1>pair DEF create_first
    <3> QED BY <2>1, <2>2, <2>3, <3>1, <1>pair DEF create_first, TypeOK, Stages
  <2>4. CASE create_second
    <3>1. ids' = <<ids[1], last_id'>>
      BY <2>4, <1>pair DEF create_second
    <3>2. ids' \in Ids \X Ids
      BY <2>1, <3>1, <1>pair
    <3>3. pc' \in Stages /\ answer' \in States /\ active_pair' \in BOOLEAN /\ licence' \in BOOLEAN
      BY <2>4 DEF create_second, Stages, States
    <3> QED BY <2>1, <2>2, <2>4, <3>2, <3>3 DEF create_second, TypeOK
  <2> QED BY <1>10, <2>3, <2>4
<1>11. CASE publish
  BY <1>11 DEF publish, TypeOK, Stages
<1>12. CASE acknowledge_manager_destroyed
  BY <1>12, Domains, Records DEF acknowledge_manager_destroyed, TypeOK, Failures
<1>13. CASE destroy_manager
  BY <1>13, Domains DEF destroy_manager, TypeOK
<1>14. CASE new_manager
  BY <1>14, Domains DEF new_manager, TypeOK
<1>15. CASE \E e \in live : vanish(e)
  BY <1>15 DEF vanish, TypeOK
<1>16. CASE UNCHANGED vars
  BY <1>16 DEF vars, TypeOK
<1> QED
  BY <1>1, <1>2, <1>3, <1>4, <1>5, <1>6, <1>8, <1>9, <1>10, <1>11, <1>12, <1>13, <1>14, <1>15, <1>16
  DEF Next, Update

(* The invariant is inductive.                                             *)
LEMMA NextIInv == IInv /\ [Next]_vars => IInv'
<1> SUFFICES ASSUME IInv, [Next]_vars PROVE IInv'
  OBVIOUS
<1> USE DEF own, step, engine, ghost, processing, Cleaning, Starting, Finishing
<1>types. TypeOK /\ TypeOK'
  BY NextTypeOK DEF IInv
<1>inv. LiveIsHeld /\ StageOwns /\ OwnedIsUnconfirmed /\ ActiveIsWhole /\ CreationIsLicensed /\ PublishedIsOwned
  BY DEF IInv
<1>ids. /\ ids = <<ids[1], ids[2]>> /\ ids[1] \in Nat /\ ids[2] \in Nat
        /\ last_id \in Nat /\ owner \in Nat /\ manager \in Nat
  BY <1>types, Cleared, Domains DEF TypeOK
<1>1. ASSUME NEW r \in Requests, request(r) PROVE IInv'
  BY <1>1, <1>types, <1>inv DEF request, IInv, LiveIsHeld, StageOwns, OwnedIsUnconfirmed, ActiveIsWhole,
     CreationIsLicensed, PublishedIsOwned
<1>2. CASE cancel_uncreated_request
  <2>1. LiveIsHeld' /\ StageOwns' /\ OwnedIsUnconfirmed' /\ ActiveIsWhole' /\ CreationIsLicensed'
    BY <1>2, <1>inv DEF cancel_uncreated_request, LiveIsHeld, StageOwns, OwnedIsUnconfirmed, ActiveIsWhole,
       CreationIsLicensed
  <2>2. PublishedIsOwned'
    BY <1>2 DEF cancel_uncreated_request, has_owned_ids, Empty, PublishedIsOwned
  <2> QED BY <2>1, <2>2, <1>types DEF IInv
<1>3. ASSUME NEW callbacks \in BOOLEAN, take(callbacks) PROVE IInv'
  <2> DEFINE w == Wanted(mailbox)
  <2>r. pc' = Route(w, callbacks)[1] /\ answer' = Route(w, callbacks)[2]
    BY <1>3 DEF take
  <2>w. /\ w.pending => licence' 
        /\ w.pending = creation_pending'
    BY <1>3, <1>inv DEF take, Wanted, CreationIsLicensed
  <2> HIDE DEF w
  <2>p. pc' \in {"publish", "erase2", "start"}
    BY <2>r DEF Route
  <2>e. pc' = "erase2" => manager = owner /\ manager # 0
    BY <2>r DEF Route, has_owned_ids
  <2>s. pc' = "start" => manager # 0 /\ ids = <<0, 0>>
    BY <2>r DEF Route, has_owned_ids
  <2>a. pc' = "publish" /\ answer' = "active" => Whole
    BY <2>r DEF Route, Settled
  <2>1. LiveIsHeld' /\ OwnedIsUnconfirmed'
    BY <1>3, <1>inv DEF take, LiveIsHeld, OwnedIsUnconfirmed
  <2>2. StageOwns'
    BY <1>3, <2>p, <2>e, <2>s DEF take, StageOwns
  <2>3. ActiveIsWhole'
    BY <1>3, <2>a DEF take, ActiveIsWhole, Whole
  <2>4. CreationIsLicensed'
    BY <2>w, <2>p DEF CreationIsLicensed
  <2>5. PublishedIsOwned'
    BY <2>p DEF PublishedIsOwned
  <2> QED BY <2>1, <2>2, <2>3, <2>4, <2>5, <1>types DEF IInv
<1>4. ASSUME NEW sure \in BOOLEAN, NEW gone \in BOOLEAN, erase(sure, gone) PROVE IInv'
  <2> DEFINE other == IF pc = "erase2" THEN 1 ELSE 2
  <2>s. /\ Slot \in {1, 2} /\ other \in {1, 2} /\ Slot # other /\ {Slot, other} = {1, 2}
        /\ ids[Slot] # 0 /\ owner = manager /\ manager # 0 /\ (sure => gone)
    BY <1>4, <1>inv DEF erase, Slot, StageOwns
  <2>i. ids'[other] = ids[other] /\ ids'[Slot] \in {0, ids[Slot]} /\ (ids'[Slot] = 0 => sure) /\ (sure => ids'[Slot] = 0)
    BY <1>4, <1>ids, <1>types, <2>s, Cleared DEF erase, Remaining, Slot
  <2>x. ids[Slot] = ids[1] \/ ids[Slot] = ids[2]
    BY <2>s
  <2>p. /\ pc' \in {"erase1", "publish", "start"} /\ answer' # "active"
        /\ pc' = "start" => ids' = <<0, 0>>
        /\ owner' = owner \/ (ids' = <<0, 0>> /\ pc = "erase1")
        /\ pc' = "erase1" => owner' = owner
    <3>1. Settled(failure) # "active"
      BY DEF Settled
    <3>2. /\ owner' = IF pc = "erase1" /\ ids' = <<0, 0>> THEN 0 ELSE owner
          /\ pc' = IF pc = "erase2" THEN "erase1"
                   ELSE IF ids' # <<0, 0>> \/ rollback THEN "publish" ELSE "start"
          /\ answer' = IF ids' # <<0, 0>> THEN "cleanup_pending" ELSE Settled(failure)
      BY <1>4 DEF erase
    <3> QED BY <3>1, <3>2
  <2>1. LiveIsHeld'
    <3> SUFFICES ASSUME NEW e \in live' 
                 PROVE  /\ e[1] = manager' /\ e[1] = owner' /\ e[1] # 0
                        /\ e[2] \in {ids'[1], ids'[2]} /\ e[2] # 0
      BY DEF LiveIsHeld
    <3>1. e \in live /\ e = <<e[1], e[2]>> /\ (gone => e # <<owner, ids[Slot]>>) /\ manager' = manager
      BY <1>4, <1>types DEF erase, TypeOK
    <3>2. e[1] = manager /\ e[1] = owner /\ e[1] # 0 /\ e[2] \in {ids[1], ids[2]} /\ e[2] # 0
      BY <3>1, <1>inv DEF LiveIsHeld
    <3>3. gone => e[2] # ids[Slot]
      BY <3>1, <3>2
    <3>4. e[2] \in {ids'[1], ids'[2]}
      <4>1. e[2] \in {ids[Slot], ids[other]}
        BY <3>2, <2>s
      <4>2. e[2] \in {ids'[Slot], ids'[other]}
        BY <4>1, <3>3, <2>i, <2>s
      <4> QED BY <4>2, <2>s
    <3>5. owner' = owner
      BY <3>2, <3>4, <2>p
    <3> QED BY <3>1, <3>2, <3>4, <3>5
  <2>2. StageOwns' /\ ActiveIsWhole'
    BY <1>4, <2>s, <2>p DEF erase, StageOwns, ActiveIsWhole
  <2>3. CreationIsLicensed' /\ PublishedIsOwned'
    BY <1>4, <2>p, <1>inv DEF erase, CreationIsLicensed, PublishedIsOwned
  <2>4. OwnedIsUnconfirmed'
    <3>1. \A e \in confirmed' : e \in confirmed \/ (sure /\ e = <<owner, ids[Slot]>>)
      <4>1. confirmed' = IF sure THEN confirmed \cup {<<owner, ids[Slot]>>} ELSE confirmed
        BY <1>4 DEF erase
      <4> QED BY <4>1
    <3>2. \A k \in {1, 2} : ids'[k] # 0 => ids'[k] = ids[k] /\ owner' = owner
      <4>1. ids' = <<0, 0>> => ids'[1] = 0 /\ ids'[2] = 0
        OBVIOUS
      <4> QED BY <2>i, <2>s, <2>p, <4>1
    <3>3. \A k \in {1, 2} : ids'[k] # 0 => <<owner, ids[k]>> \notin confirmed /\ ids[k] <= last_id
      BY <3>2, <1>inv DEF OwnedIsUnconfirmed
    <3>4. \A k \in {1, 2} : ids'[k] # 0 /\ sure => ids[k] # ids[Slot]
      BY <2>i, <2>s, <3>2, <1>inv DEF OwnedIsUnconfirmed
    <3>5. \A k \in {1, 2} : ids'[k] # 0 => <<owner', ids'[k]>> \notin confirmed' /\ ids'[k] <= last_id
      BY <3>1, <3>2, <3>3, <3>4
    <3>6. ids'[1] = ids'[2] => ids'[1] = 0
      BY <3>2, <1>inv DEF OwnedIsUnconfirmed
    <3>7. \A e \in confirmed' : e[2] <= last_id
      BY <3>1, <2>x, <2>s, <1>inv DEF OwnedIsUnconfirmed
    <3>8. last_id' = last_id
      BY <1>4 DEF erase
    <3> QED BY <3>5, <3>6, <3>7, <3>8 DEF OwnedIsUnconfirmed
  <2> QED BY <2>1, <2>2, <2>3, <2>4, <1>types DEF IInv
<1>5. CASE skip
  <2>p. /\ pc' \in {"erase1", "publish", "start"} /\ answer' # "active"
        /\ pc' = "start" => ids = <<0, 0>>
        /\ owner' = owner \/ (ids = <<0, 0>> /\ pc = "erase1")
        /\ pc' = "erase1" => owner' = owner
        /\ owner = manager /\ manager # 0
    <3>1. Settled(failure) # "active"
      BY DEF Settled
    <3>2. /\ owner' = IF pc = "erase1" /\ ids = <<0, 0>> THEN 0 ELSE owner
          /\ pc' = IF pc = "erase2" THEN "erase1"
                   ELSE IF ids # <<0, 0>> \/ rollback THEN "publish" ELSE "start"
          /\ answer' = IF ids # <<0, 0>> THEN "cleanup_pending" ELSE Settled(failure)
      BY <1>5 DEF skip
    <3>3. owner = manager /\ manager # 0
      BY <1>5, <1>inv DEF skip, StageOwns
    <3> QED BY <3>1, <3>2, <3>3
  <2>z. ids = <<0, 0>> => live = {}
    BY <1>inv DEF LiveIsHeld
  <2>1. LiveIsHeld'
    BY <1>5, <1>inv, <2>p, <2>z DEF skip, LiveIsHeld
  <2>2. StageOwns' /\ ActiveIsWhole'
    BY <1>5, <2>p DEF skip, StageOwns, ActiveIsWhole
  <2>3. CreationIsLicensed' /\ PublishedIsOwned'
    BY <1>5, <2>p, <1>inv DEF skip, CreationIsLicensed, PublishedIsOwned
  <2>4. OwnedIsUnconfirmed'
    BY <1>5, <2>p, <1>inv DEF skip, OwnedIsUnconfirmed
  <2> QED BY <2>1, <2>2, <2>3, <2>4, <1>types DEF IInv
<1>6. CASE start
  <2>1. LiveIsHeld' /\ OwnedIsUnconfirmed' /\ StageOwns' /\ PublishedIsOwned'
    BY <1>6, <1>inv DEF start, LiveIsHeld, OwnedIsUnconfirmed, StageOwns, PublishedIsOwned
  <2>2. ActiveIsWhole' /\ CreationIsLicensed'
    BY <1>6, <1>inv DEF start, Settled, ActiveIsWhole, CreationIsLicensed
  <2> QED BY <2>1, <2>2, <1>types DEF IInv
<1>7. ASSUME NEW why, Fails(why), pc \in {"initialize1", "create1", "initialize2", "create2"}
      PROVE  IInv'
  <2>1. LiveIsHeld' /\ OwnedIsUnconfirmed'
    BY <1>7, <1>inv DEF Fails, LiveIsHeld, OwnedIsUnconfirmed
  <2>2. StageOwns'
    BY <1>7, <1>inv, <1>ids DEF Fails, has_owned_ids, StageOwns
  <2>3. ActiveIsWhole' /\ CreationIsLicensed' /\ PublishedIsOwned'
    BY <1>7, <1>inv DEF Fails, ActiveIsWhole, CreationIsLicensed, PublishedIsOwned
  <2> QED BY <2>1, <2>2, <2>3, <1>types DEF IInv
<1>8. ASSUME NEW why \in {"none", "initializer_failed", "initializer_contract"}, prepare(why) PROVE IInv'
  <2>1. CASE why = "none"
    <3>1. LiveIsHeld' /\ OwnedIsUnconfirmed' /\ StageOwns' /\ ActiveIsWhole'
      BY <1>8, <2>1, <1>inv DEF prepare, LiveIsHeld, OwnedIsUnconfirmed, StageOwns, ActiveIsWhole
    <3>2. CreationIsLicensed' /\ PublishedIsOwned'
      BY <1>8, <2>1, <1>inv DEF prepare, CreationIsLicensed, PublishedIsOwned
    <3> QED BY <3>1, <3>2, <1>types DEF IInv
  <2> QED BY <1>7, <1>8, <2>1 DEF prepare
<1>9. CASE create_fails \/ create_duplicate
  BY <1>7, <1>9 DEF create_fails, create_duplicate
<1>10. CASE create_first
  <2>1. ids' = <<last_id + 1, 0>> /\ ids = <<0, 0>> /\ live = {} /\ manager # 0
    BY <1>10, <1>ids, <1>inv DEF create_first, StageOwns, LiveIsHeld
  <2>2. ids'[1] = last_id + 1 /\ ids'[2] = 0 /\ last_id + 1 # 0 /\ last_id' = last_id + 1
    BY <2>1, <1>ids, <1>10 DEF create_first
  <2>3. LiveIsHeld'
    BY <1>10, <2>1, <2>2 DEF create_first, LiveIsHeld
  <2>4. StageOwns' /\ ActiveIsWhole' /\ PublishedIsOwned'
    BY <1>10, <2>1, <2>2 DEF create_first, StageOwns, ActiveIsWhole, PublishedIsOwned
  <2>5. OwnedIsUnconfirmed'
    <3>1. \A e \in confirmed : e[2] <= last_id /\ e[2] \in Nat
      BY <1>inv, <1>types, Domains DEF OwnedIsUnconfirmed, TypeOK
    <3>2. <<owner', ids'[1]>> \notin confirmed
      BY <3>1, <2>2, <1>ids
    <3> QED BY <1>10, <2>2, <3>1, <3>2, <1>ids DEF create_first, OwnedIsUnconfirmed
  <2>6. CreationIsLicensed'
    BY <1>10, <1>inv DEF create_first, CreationIsLicensed
  <2> QED BY <2>3, <2>4, <2>5, <2>6, <1>types DEF IInv
<1>11. CASE create_second
  <2>1. /\ ids' = <<ids[1], last_id + 1>> /\ ids[1] # 0 /\ ids[2] = 0
        /\ owner = manager /\ manager # 0
    BY <1>11, <1>ids, <1>inv DEF create_second, StageOwns
  <2>2. ids'[1] = ids[1] /\ ids'[2] = last_id + 1 /\ last_id + 1 # 0 /\ last_id' = last_id + 1
    BY <2>1, <1>ids, <1>11 DEF create_second
  <2>3. LiveIsHeld'
    <3> SUFFICES ASSUME NEW e \in live'
                 PROVE  /\ e[1] = manager' /\ e[1] = owner' /\ e[1] # 0
                        /\ e[2] \in {ids'[1], ids'[2]} /\ e[2] # 0
      BY DEF LiveIsHeld
    <3>1. manager' = manager /\ owner' = owner /\ (e \in live \/ e = <<manager, last_id + 1>>)
      BY <1>11, <2>2 DEF create_second
    <3>2. CASE e \in live
      BY <3>1, <3>2, <2>1, <2>2, <1>inv DEF LiveIsHeld
    <3>3. CASE e = <<manager, last_id + 1>>
      BY <3>1, <3>3, <2>1, <2>2
    <3> QED BY <3>1, <3>2, <3>3
  <2>4. StageOwns' /\ ActiveIsWhole' /\ PublishedIsOwned'
    BY <1>11, <2>1, <2>2 DEF create_second, StageOwns, ActiveIsWhole, PublishedIsOwned
  <2>5. OwnedIsUnconfirmed'
    <3>1. \A e \in confirmed : e[2] <= last_id /\ e[2] \in Nat
      BY <1>inv, <1>types, Domains DEF OwnedIsUnconfirmed, TypeOK
    <3>2. <<owner, ids'[2]>> \notin confirmed
      BY <3>1, <2>2, <1>ids
    <3>3. <<owner, ids[1]>> \notin confirmed /\ ids[1] <= last_id
      BY <2>1, <1>inv DEF OwnedIsUnconfirmed
    <3> QED BY <1>11, <2>1, <2>2, <3>1, <3>2, <3>3, <1>ids DEF create_second, OwnedIsUnconfirmed
  <2>6. CreationIsLicensed'
    BY <1>11, <1>inv DEF create_second, CreationIsLicensed
  <2> QED BY <2>3, <2>4, <2>5, <2>6, <1>types DEF IInv
<1>12. CASE publish
  <2>1. LiveIsHeld' /\ StageOwns' /\ OwnedIsUnconfirmed' /\ ActiveIsWhole' /\ CreationIsLicensed'
    BY <1>12, <1>inv DEF publish, LiveIsHeld, StageOwns, OwnedIsUnconfirmed, ActiveIsWhole, CreationIsLicensed
  <2>2. PublishedIsOwned'
    BY <1>12, <1>inv DEF publish, ActiveIsWhole, OwnedIsUnconfirmed, PublishedIsOwned
  <2> QED BY <2>1, <2>2, <1>types DEF IInv
<1>13. CASE acknowledge_manager_destroyed
  <2>1. live = {}
    BY <1>13, <1>inv DEF acknowledge_manager_destroyed, LiveIsHeld
  <2>2. StageOwns' /\ OwnedIsUnconfirmed' /\ ActiveIsWhole' /\ CreationIsLicensed'
    BY <1>13, <1>inv DEF acknowledge_manager_destroyed, StageOwns, OwnedIsUnconfirmed, ActiveIsWhole,
       CreationIsLicensed
  <2>3. LiveIsHeld' /\ PublishedIsOwned'
    BY <1>13, <2>1 DEF acknowledge_manager_destroyed, LiveIsHeld, PublishedIsOwned, Empty
  <2> QED BY <2>2, <2>3, <1>types DEF IInv
<1>14. CASE destroy_manager \/ new_manager \/ \E e \in live : vanish(e)
  <2>1. manager = 0 => live = {}
    BY <1>inv DEF LiveIsHeld
  <2>2. LiveIsHeld'
    BY <1>14, <1>inv, <2>1 DEF destroy_manager, new_manager, vanish, LiveIsHeld
  <2>3. StageOwns' /\ OwnedIsUnconfirmed' /\ ActiveIsWhole' /\ CreationIsLicensed' /\ PublishedIsOwned'
    BY <1>14, <1>inv DEF destroy_manager, new_manager, vanish, StageOwns, OwnedIsUnconfirmed,
       ActiveIsWhole, CreationIsLicensed, PublishedIsOwned
  <2> QED BY <2>2, <2>3, <1>types DEF IInv
<1>15. CASE UNCHANGED vars
  BY <1>15, <1>types, <1>inv DEF vars, IInv, LiveIsHeld, StageOwns, OwnedIsUnconfirmed, ActiveIsWhole,
     CreationIsLicensed, PublishedIsOwned
<1> QED
  BY <1>1, <1>2, <1>3, <1>4, <1>5, <1>6, <1>8, <1>9, <1>10, <1>11, <1>12, <1>13, <1>14, <1>15 DEF Next, Update
-----------------------------------------------------------------------------
THEOREM Invariance == Spec => []IInv
<1>1. Init => IInv
  BY InitIInv
<1>2. IInv /\ [Next]_vars => IInv'
  BY NextIInv
<1> QED BY <1>1, <1>2, PTL DEF Spec

(* Whatever exists in the simulator on the program's behalf is remembered, *)
(* is erased only in the lifetime that made it and never once known to be  *)
(* gone, and what is published between updates is what is owned: the       *)
(* mailbox, cleanup, creation and rollback of entry_pair.cpp.              *)
THEOREM PairIsSafe == Spec => []EntryPairSafety
<1>1. IInv => EntryPairSafety
  <2> SUFFICES ASSUME IInv PROVE EntryPairSafety
    OBVIOUS
  <2>1. TypeOK /\ PublishedIsOwned
    BY DEF IInv
  <2>2. NothingForgotten
    BY DEF IInv, LiveIsHeld, NothingForgotten
  <2>3. ErasesItsOwn
    BY DEF IInv, StageOwns, Cleaning, OwnedIsUnconfirmed, Slot, ErasesItsOwn
  <2> QED BY <2>1, <2>2, <2>3 DEF EntryPairSafety
<1> QED BY <1>1, Invariance, PTL
-----------------------------------------------------------------------------
(* The entries held, as CameraOwnership sees them.                         *)
Held == {owner} \X ({ids[1], ids[2]} \ {0})

LEMMA LiveAreHeld == IInv => live \subseteq Held
<1> SUFFICES ASSUME IInv, NEW e \in live PROVE e \in Held
  OBVIOUS
<1>1. e = <<e[1], e[2]>>
  BY DEF IInv, TypeOK
<1>2. e[1] = owner /\ e[2] \in {ids[1], ids[2]} \ {0}
  BY DEF IInv, LiveIsHeld
<1> QED BY <1>1, <1>2 DEF Held

Promised == [Ownership!Next]_(Ownership!vars)

(* How the parts of a step of CameraOwnership are recognised.              *)
LEMMA Stutters == live' = live /\ Held' = Held /\ licence' = licence => Promised
BY DEF Promised, Ownership!vars, Held

LEMMA Permits == live' = live /\ Held' = Held /\ licence' \in {TRUE, FALSE} => Promised
BY DEF Promised, Ownership!Next, Ownership!Allow, Ownership!Withdraw, Held

LEMMA Creates ==
  ASSUME NEW e \in (1..MaxToken) \X (1..MaxId),
         licence, \A g, h \in Held : g = h, e \notin live \cup Held, \A h \in Held : h[1] = e[1],
         live' = live \cup {e}, Held' = Held \cup {e}, licence' = (Held = {})
  PROVE  Promised
<1>1. Ownership!Create(e)
  <2>1. licence' = ({owner} \X ({ids[1], ids[2]} \ {0}) = {})
    BY Zenon DEF Held
  <2>2. /\ e \notin live \cup ({owner} \X ({ids[1], ids[2]} \ {0}))
        /\ \A h \in {owner} \X ({ids[1], ids[2]} \ {0}) : h[1] = e[1]
        /\ \A g, h \in {owner} \X ({ids[1], ids[2]} \ {0}) : g = h
        /\ ({owner} \X ({ids[1], ids[2]} \ {0}))' = {owner} \X ({ids[1], ids[2]} \ {0}) \cup {e}
    BY Zenon DEF Held
  <2> QED BY <2>1, <2>2 DEF Ownership!Create
<1> QED BY <1>1 DEF Promised, Ownership!Next

LEMMA Erases ==
  ASSUME NEW e \in Held, live' \in {live, live \ {e}}, Held' \in {Held} \cup {Held \ {e}},
         live' \subseteq Held', licence' = licence
  PROVE  Promised
<1>1. Ownership!Erase(e)
  BY DEF Ownership!Erase, Held
<1> QED BY <1>1 DEF Promised, Ownership!Next, Held

LEMMA Loses ==
  live = {} /\ Held # {} /\ Held' = {} /\ licence' = FALSE /\ live' = live => Promised
BY DEF Promised, Ownership!Next, Ownership!Lose, Held

LEMMA Vanishes ==
  ASSUME NEW e \in live, live' \in {live \ {e}, {}}, Held' = Held, licence' = licence
  PROVE  Promised
BY DEF Promised, Ownership!Next, Ownership!Vanish, Held

(* Every step of the controller or of the engine is a step of              *)
(* CameraOwnership, or changes nothing it sees.                            *)
LEMMA StepIsPromised ==
  ASSUME IInv, IInv', [Next]_vars
  PROVE  Promised
<1> USE DEF own, step, engine, ghost
<1>types. /\ ids = <<ids[1], ids[2]>> /\ ids[1] \in Nat /\ ids[2] \in Nat
          /\ last_id \in Nat /\ owner \in Tokens /\ manager \in Tokens /\ licence \in BOOLEAN
  BY Cleared, Domains DEF IInv, TypeOK
<1>none. ids = <<0, 0>> => Held = {}
  BY DEF Held
<1>1. ASSUME NEW r \in Requests, request(r) PROVE Promised
  BY <1>1, Stutters DEF request, Held
<1>2. CASE cancel_uncreated_request
  BY <1>2, Permits DEF cancel_uncreated_request, Held
<1>3. ASSUME NEW callbacks \in BOOLEAN, take(callbacks) PROVE Promised
  <2>1. live' = live /\ Held' = Held /\ licence' \in {TRUE, FALSE, licence}
    BY <1>3 DEF take, Held
  <2> QED BY <2>1, Stutters, Permits
<1>4. ASSUME NEW sure \in BOOLEAN, NEW gone \in BOOLEAN, erase(sure, gone) PROVE Promised
  <2> DEFINE e == <<owner, ids[Slot]>>
  <2>1. e \in Held
    BY <1>4 DEF erase, Slot, Held
  <2>2. live' \in {live, live \ {e}} /\ licence' = licence
    BY <1>4 DEF erase
  <2>3. live' \subseteq Held'
    BY LiveAreHeld DEF IInv, LiveIsHeld, TypeOK, Held
  <2>4. ids' = ids \/ (Slot = 2 /\ ids' = <<ids[1], 0>>) \/ (Slot = 1 /\ ids' = <<0, ids[2]>>)
    BY <1>4, Cleared DEF IInv, erase, Remaining
  <2>5. owner' = owner \/ ids' = <<0, 0>>
    BY <1>4 DEF erase
  <2>6. CASE ids' = ids
    BY <2>1, <2>2, <2>3, <2>5, <2>6, Erases, <1>none DEF Held
  <2>7. CASE ids' # ids
    <3>1. ids[1] = ids[2] => ids[1] = 0
      BY DEF IInv, OwnedIsUnconfirmed
    <3>2. Held' = Held \ {e}
      BY <2>4, <2>5, <2>7, <3>1, <1>types DEF Held
    <3> QED BY <2>1, <2>2, <2>3, <3>2, Erases
  <2> QED BY <2>6, <2>7
<1>5. CASE skip
  <2>1. Held' = Held
    BY <1>5 DEF skip, Held
  <2> QED BY <1>5, Stutters, <2>1 DEF skip
<1>6. CASE start
  BY <1>6, Stutters DEF start, Held
<1>7. ASSUME NEW why, Fails(why) PROVE Promised
  BY <1>7, Permits DEF Fails, Held
<1>8. ASSUME NEW why \in {"none", "initializer_failed", "initializer_contract"}, prepare(why) PROVE Promised
  BY <1>7, <1>8, Stutters DEF prepare, Held
<1>9. CASE create_fails \/ create_duplicate
  BY <1>7, <1>9 DEF create_fails, create_duplicate
<1>10. CASE create_first
  <2> DEFINE e == <<manager, last_id + 1>>
  <2>1. ids = <<0, 0>> /\ Held = {} /\ live = {} /\ manager # 0 /\ licence
    BY <1>10, <1>none DEF create_first, IInv, StageOwns, Starting, LiveIsHeld, CreationIsLicensed
  <2>2. e \in (1..MaxToken) \X (1..MaxId)
    BY <1>10, <2>1, <1>types, EntryPairAssumption DEF create_first, EntryPairAssumption, Tokens
  <2>3. ids' = <<last_id + 1, 0>> /\ owner' = manager /\ live' = {e} /\ licence' = licence
    BY <1>10, <2>1 DEF create_first
  <2>4. Held' = {e}
    BY <2>3, <1>types DEF Held
  <2>5. \A h \in Held : FALSE
    BY <2>1
  <2> QED BY <2>1, <2>2, <2>3, <2>4, <2>5, Creates
<1>11. CASE create_second
  <2> DEFINE e == <<manager, last_id + 1>>
  <2>1. ids[1] # 0 /\ ids[2] = 0 /\ ids[1] <= last_id /\ owner = manager /\ manager # 0 /\ licence
    BY <1>11 DEF create_second, IInv, StageOwns, Finishing, CreationIsLicensed, OwnedIsUnconfirmed
  <2>2. e \in (1..MaxToken) \X (1..MaxId)
    BY <1>11, <2>1, <1>types, EntryPairAssumption DEF create_second, EntryPairAssumption, Tokens
  <2>3. Held = {<<owner, ids[1]>>}
    BY <2>1 DEF Held
  <2>4. ids' = <<ids[1], last_id + 1>> /\ owner' = owner /\ live' = live \cup {e} /\ licence' = FALSE
    BY <1>11, <1>types DEF create_second
  <2>5. Held' = Held \cup {e}
    BY <2>1, <2>3, <2>4, <1>types DEF Held
  <2>6. \A g, h \in Held : g = h
    BY <2>3
  <2>7. e \notin live \cup Held
    BY <2>1, <2>3, <1>types, LiveAreHeld
  <2>8. licence' = (Held = {})
    BY <2>3, <2>4
  <2>9. \A h \in Held : h[1] = e[1]
    BY <2>1, <2>3
  <2> HIDE DEF e
  <2> QED BY <2>1, <2>2, <2>4, <2>5, <2>6, <2>7, <2>8, <2>9, Creates
<1>12. CASE publish
  BY <1>12, Stutters DEF publish, Held
<1>13. CASE acknowledge_manager_destroyed
  <2>1. live = {} /\ live' = live /\ licence' = FALSE /\ ids' = <<0, 0>> /\ ids # <<0, 0>>
    BY <1>13 DEF acknowledge_manager_destroyed, has_owned_ids, IInv, LiveIsHeld
  <2>2. Held # {}
    <3>1. ids[1] # 0 \/ ids[2] # 0
      <4>1. ids[1] = 0 /\ ids[2] = 0 => ids = <<0, 0>>
        BY <1>types
      <4>2. ids # <<0, 0>>
        BY <2>1
      <4> QED BY <4>1, <4>2
    <3>2. \A k \in {ids[1], ids[2]} \ {0} : <<owner, k>> \in Held
      BY DEF Held
    <3> QED BY <3>1, <3>2
  <2>3. Held' = {}
    BY <2>1 DEF Held
  <2> QED BY <2>1, <2>2, <2>3, Loses
<1>14. CASE destroy_manager
  <2>1. live' = {} /\ Held' = Held /\ licence' = licence
    BY <1>14 DEF destroy_manager, Held
  <2>2. CASE live = {}
    BY <2>1, <2>2, Stutters
  <2>3. CASE live # {}
    BY <2>1, <2>3, Vanishes
  <2> QED BY <2>2, <2>3
<1>15. CASE new_manager
  BY <1>15, Stutters DEF new_manager, Held
<1>16. CASE \E e \in live : vanish(e)
  BY <1>16, Vanishes DEF vanish, Held
<1>17. CASE UNCHANGED vars
  BY <1>17, Stutters DEF vars, Held
<1> QED
  BY <1>1, <1>2, <1>3, <1>4, <1>5, <1>6, <1>8, <1>9, <1>10, <1>11, <1>12, <1>13, <1>14, <1>15, <1>16, <1>17
  DEF Next, Update

(* The controller keeps what the program promises the simulator: entries   *)
(* are created only while a taken enable request stands, at most a pair    *)
(* and both in one lifetime, and are forgotten only once gone.             *)
THEOREM PairKeepsPromise == Spec => OwnsAsPromised
<1>1. Init => Ownership!Init
  BY DEF Init, Ownership!Init
<1>2. IInv /\ IInv' /\ [Next]_vars => [Ownership!Next]_(Ownership!vars)
  BY StepIsPromised DEF Promised
<1> QED BY <1>1, <1>2, Invariance, PTL DEF Spec, OwnsAsPromised, Ownership!Spec
=============================================================================
