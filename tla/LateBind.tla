------------------------------ MODULE LateBind ------------------------------
(***************************************************************************)
(* What the bridge knows of textures and render target views, registry of  *)
(* bridge/d3d12_bridge: those created while it watches are known by their  *)
(* creation; of those that were there before, or views of them, it learns  *)
(* from their use.  A texture that a list takes into the render target     *)
(* state just before it binds one unknown view is taken for that view's.   *)
(*                                                                         *)
(* A texture has an incarnation, counted by born, and an address that a    *)
(* later texture can have again.  Registry IDs are incarnations.  entered  *)
(* is history: the textures each list took into the render target state in *)
(* the recording under way.  content is what a descriptor really names.    *)
(***************************************************************************)
EXTENDS Naturals, FiniteSets

CONSTANTS
  Addresses, Handles, Lists,
  Need,        \* displays that make the aircraft's set complete
  MaxBorn,     \* bound of the model: incarnations
  MaxChanges   \* bound of the model: sessions and selections

(* What the constants are assumed to be; the runs evaluate it.             *)
LateBindAssumption == MaxBorn \in Nat /\ MaxChanges \in Nat /\ Need \in Nat \ {0}

VARIABLES
  texture, content, born,          \* the application's
  registered, seen, displays,      \* resources, seen_resources, backfill_displays
  views, typed_rtv_refs,
  hints,                           \* live_bind
  live_backfill, full_window, associating,
  entered, changes

world    == <<texture, content, born>>
registry == <<registered, seen, displays>>
scan     == <<live_backfill, full_window, associating>>
vars     == <<world, registry, views, typed_rtv_refs, hints, scan, entered, changes>>

None   == [id |-> 0, display |-> FALSE]
Gone   == [id |-> 0, alive |-> FALSE, display |-> FALSE]
NoView == [id |-> 0, recovered |-> FALSE]
NoHint == [at |-> {}, id |-> 0, entries |-> 0]
Born   == 1..MaxBorn

Displays(entries) == {a \in Addresses : entries[a].alive /\ entries[a].display}
Known             == {registered[a].id : a \in {b \in Addresses : registered[b].alive}}
-----------------------------------------------------------------------------
(* replace_view: the counts of typed views follow the map.                 *)
Counted(v)            == v.id # 0 /\ ~v.recovered
Refs(table)           == [i \in Born |-> Cardinality({h \in Handles : table[h].id = i /\ Counted(table[h])})]

replace_view_SlipForgetsOld(h, v) ==
  /\ views' = [views EXCEPT ![h] = v]
  /\ typed_rtv_refs' = [i \in Born |-> typed_rtv_refs[i] + IF v.id = i /\ Counted(v) THEN 1 ELSE 0]

replace_view(h, v) ==
  /\ views' = [views EXCEPT ![h] = v]
  /\ typed_rtv_refs' =
       [i \in Born |-> (typed_rtv_refs[i] + IF v.id = i /\ Counted(v) THEN 1 ELSE 0)
                       - IF views[h].id = i /\ Counted(views[h]) THEN 1 ELSE 0]

(* Only counted views are dropped with their count; the erasure of the     *)
(* recovered ones has none to take back.                                   *)
Erase(dropped) ==
  /\ views' = [h \in Handles |-> IF dropped[h] THEN NoView ELSE views[h]]
  /\ typed_rtv_refs' =
       [i \in Born |-> typed_rtv_refs[i] - Cardinality({h \in Handles : dropped[h] /\ views[h].id = i /\ Counted(views[h])})]

(* maybe_stop_live_backfill: the set is there and each display has a view. *)
Ready(entries)         == Cardinality(Displays(entries)) >= Need
Viewed(entries, table) == \A a \in Displays(entries) : \E h \in Handles : table[h].id = entries[a].id

maybe_stop(wanted, whole, entries, table) ==
  live_backfill' = (wanted /\ ~(~whole /\ Ready(entries) /\ Viewed(entries, table)))

(* observe_resource: an entry that is alive stands.                        *)
Observed(a, t) ==
  IF registered[a].alive
    THEN UNCHANGED <<registered, displays>>
    ELSE /\ registered' = [registered EXCEPT ![a] = [id |-> t.id, alive |-> TRUE, display |-> t.display]]
         /\ displays' = displays \cup IF t.display THEN {a} ELSE {}
-----------------------------------------------------------------------------
(* The application's textures and descriptors.                             *)
create(a, display) ==
  /\ texture[a].id = 0 /\ born < MaxBorn
  /\ born' = born + 1
  /\ texture' = [texture EXCEPT ![a] = [id |-> born', display |-> display]]
  /\ Observed(a, texture'[a])
  /\ maybe_stop(live_backfill, full_window, registered', views)
  /\ UNCHANGED <<content, seen, views, typed_rtv_refs, hints, full_window, associating, entered, changes>>

destroy(a) ==
  /\ texture[a].id # 0
  /\ texture' = [texture EXCEPT ![a] = None]
  /\ registered' = IF registered[a].id = texture[a].id THEN [registered EXCEPT ![a].alive = FALSE] ELSE registered
  /\ UNCHANGED <<content, born, seen, displays, views, typed_rtv_refs, hints, scan, entered, changes>>

rtv_create(h, a) ==
  /\ texture[a].id # 0 /\ content[h] # texture[a].id
  /\ content' = [content EXCEPT ![h] = texture[a].id]
  /\ Observed(a, texture[a])
  /\ replace_view(h, [id |-> registered'[a].id, recovered |-> FALSE])
  /\ maybe_stop(live_backfill, full_window, registered', views')
  /\ UNCHANGED <<texture, born, seen, hints, full_window, associating, entered, changes>>

copy_descriptors(dest, src) ==
  /\ content[dest] # content[src]
  /\ content' = [content EXCEPT ![dest] = content[src]]
  /\ replace_view(dest, views[src])
  /\ UNCHANGED <<texture, born, registry, hints, scan, entered, changes>>

(* A copy of more ranges than are followed.                                *)
clear_views(dest, src) ==
  /\ content' = [content EXCEPT ![dest] = content[src]]
  /\ Erase([h \in Handles |-> TRUE])
  /\ UNCHANGED <<texture, born, registry, hints, scan, entered, changes>>
-----------------------------------------------------------------------------
(* LiveBindHint, one slot for each list.                                   *)
clear(list) == hints' = [hints EXCEPT ![list] = NoHint]

note(list, a, id) ==
  LET old == hints[list] IN
  hints' = IF old.entries # 0 /\ old.id = id /\ id # 0 THEN hints
           ELSE [hints EXCEPT ![list] =
                  IF id # 0 /\ old.entries = 0 THEN [at |-> {a}, id |-> id, entries |-> 1]
                                               ELSE [NoHint EXCEPT !.entries = 2]]

(* What a hint is worth when a view is bound.                              *)
Hinted_SlipAnyIncarnation(list) ==
  {registered[a].id : a \in hints[list].at \cap Displays(registered)}

Hinted(list) ==
  {registered[a].id : a \in {b \in hints[list].at \cap Displays(registered) : registered[b].id = hints[list].id}}
-----------------------------------------------------------------------------
(* consider_live_resource, from a barrier.  A texture that is not yet      *)
(* known is looked at, if its description can be had, whoever made it.     *)
barrier(list, a, into, readable) ==
  LET looked == live_backfill /\ a \notin seen /\ readable IN
  /\ texture[a].id # 0 /\ (~readable => live_backfill /\ a \notin seen)
  /\ entered' = IF into THEN [entered EXCEPT ![list] = @ \cup {texture[a].id}] ELSE entered
  /\ IF looked THEN Observed(a, texture[a]) /\ seen' = seen \cup {a} ELSE UNCHANGED registry
  /\ IF ~live_backfill \/ (into /\ ~readable) THEN UNCHANGED hints
     ELSE IF ~into THEN clear(list)
     ELSE note(list, a, IF a \in displays' \cap Displays(registered') THEN registered'[a].id ELSE 0)
  /\ IF registered' # registered THEN maybe_stop(live_backfill, full_window, registered', views)
                                 ELSE UNCHANGED live_backfill
  /\ UNCHANGED <<world, views, typed_rtv_refs, full_window, associating, changes>>

copy_use(a) ==
  /\ texture[a].id # 0 /\ live_backfill /\ a \notin seen
  /\ Observed(a, texture[a]) /\ seen' = seen \cup {a}
  /\ maybe_stop(live_backfill, full_window, registered', views)
  /\ UNCHANGED <<world, views, typed_rtv_refs, hints, full_window, associating, entered, changes>>

(* OMSetRenderTargets: one view, and bind_live_rtv if nothing is known of  *)
(* it; or several.                                                         *)
bind(list, h) ==
  /\ live_backfill /\ content[h] # 0
  /\ clear(list)
  /\ IF views[h].id = 0 /\ Hinted(list) # {}
       THEN /\ \E i \in Hinted(list) : replace_view(h, [id |-> i, recovered |-> TRUE])
            /\ maybe_stop(TRUE, full_window, registered, views')
       ELSE UNCHANGED <<views, typed_rtv_refs, live_backfill>>
  /\ UNCHANGED <<world, registry, full_window, associating, entered, changes>>

bind_several(list) ==
  /\ live_backfill /\ hints[list] # NoHint
  /\ clear(list)
  /\ UNCHANGED <<world, registry, views, typed_rtv_refs, scan, entered, changes>>

(* Close, Reset, and the end of a list.                                    *)
restart_SlipKeepsHint(list) ==
  /\ entered[list] # {}
  /\ entered' = [entered EXCEPT ![list] = {}]
  /\ UNCHANGED <<world, registry, views, typed_rtv_refs, hints, scan, changes>>

restart(list) ==
  /\ entered[list] # {}
  /\ clear(list)
  /\ entered' = [entered EXCEPT ![list] = {}]
  /\ UNCHANGED <<world, registry, views, typed_rtv_refs, scan, changes>>
-----------------------------------------------------------------------------
(* The control thread.                                                     *)
discover_pfds ==
  /\ \E a \in Addresses : registered[a].id # 0 /\ ~registered[a].alive
  /\ registered' = [a \in Addresses |-> IF registered[a].alive THEN registered[a] ELSE Gone]
  /\ Erase([h \in Handles |-> views[h].id # 0 /\ views[h].id \notin Known])
  /\ UNCHANGED <<world, seen, displays, hints, scan, entered, changes>>

service_live_backfill(timeout) ==
  /\ live_backfill /\ Ready(registered)
  /\ IF ~full_window /\ Viewed(registered, views)
       THEN live_backfill' = FALSE /\ UNCHANGED associating
       ELSE live_backfill' = ~(timeout /\ associating) /\ associating' = TRUE
  /\ UNCHANGED <<world, registry, views, typed_rtv_refs, hints, full_window, entered, changes>>

rearm(table) ==
  /\ hints' = [l \in Lists |-> NoHint]
  /\ seen' = {a \in Addresses : registered[a].alive} /\ displays' = Displays(registered)
  /\ full_window' = TRUE /\ associating' = FALSE
  /\ live_backfill' = TRUE

Changing == changes < MaxChanges /\ changes' = changes + 1

(* set_aircraft_profile and reset_display_session.                         *)
start_session ==
  /\ Changing
  /\ Erase([h \in Handles |-> views[h].recovered])
  /\ rearm(views')
  /\ UNCHANGED <<world, registered, entered>>

assign_targets ==
  /\ Changing /\ ~Viewed(registered, views)
  /\ rearm(views)
  /\ UNCHANGED <<world, registered, views, typed_rtv_refs, entered>>
-----------------------------------------------------------------------------
(* Textures and descriptors that were there before the bridge watched.     *)
Init ==
  /\ born \in 0..MaxBorn
  /\ texture \in [Addresses -> [id : 0..born, display : BOOLEAN]]
  /\ \A i \in 1..born : Cardinality({a \in Addresses : texture[a].id = i}) = 1
  /\ \A a \in Addresses : texture[a].id = 0 => ~texture[a].display
  /\ content \in [Handles -> 0..born]
  /\ registered = [a \in Addresses |-> Gone] /\ seen = {} /\ displays = {}
  /\ views = [h \in Handles |-> NoView] /\ typed_rtv_refs = [i \in Born |-> 0]
  /\ hints = [l \in Lists |-> NoHint]
  /\ live_backfill = TRUE /\ full_window = FALSE /\ associating = FALSE
  /\ entered = [l \in Lists |-> {}] /\ changes = 0

Next ==
  \/ \E a \in Addresses, display \in BOOLEAN : create(a, display)
  \/ \E a \in Addresses : destroy(a) \/ copy_use(a)
  \/ \E h \in Handles, a \in Addresses : rtv_create(h, a)
  \/ \E dest, src \in Handles : copy_descriptors(dest, src) \/ clear_views(dest, src)
  \/ \E l \in Lists, a \in Addresses, into, readable \in BOOLEAN : barrier(l, a, into, readable)
  \/ \E l \in Lists, h \in Handles : bind(l, h)
  \/ \E l \in Lists : bind_several(l) \/ restart(l)
  \/ discover_pfds \/ start_session \/ assign_targets
  \/ \E timeout \in BOOLEAN : service_live_backfill(timeout)

Spec == Init /\ [][Next]_vars
-----------------------------------------------------------------------------
(* Every field stays within its domain.                                    *)
TypeOK ==
  /\ texture \in [Addresses -> [id : 0..MaxBorn, display : BOOLEAN]]
  /\ registered \in [Addresses -> [id : 0..MaxBorn, alive : BOOLEAN, display : BOOLEAN]]
  /\ views \in [Handles -> [id : 0..MaxBorn, recovered : BOOLEAN]]
  /\ seen \subseteq Addresses /\ displays \subseteq Addresses
  /\ {live_backfill, full_window, associating} \subseteq BOOLEAN
  /\ changes \in 0..MaxChanges

(* What is registered as alive is the texture at that address.             *)
RegistryIsTrue ==
  \A a \in Addresses :
    registered[a].alive => texture[a].id = registered[a].id /\ texture[a].display = registered[a].display

(* A view known by its creation names what the descriptor names, and the   *)
(* counts of typed views are those of the map, however views are replaced, *)
(* copied, dropped or recovered.                                           *)
ViewsAreTrue ==
  /\ \A h \in Handles : Counted(views[h]) => views[h].id = content[h]
  /\ typed_rtv_refs = Refs(views)

LateBindSafety == TypeOK /\ RegistryIsTrue /\ ViewsAreTrue

(* A view is recovered only as a display that lives and that this very     *)
(* recording took into the render target state: never one of an earlier    *)
(* recording, of another list, or a later texture at its address.          *)
BoundIsEntered ==
  [][\A h \in Handles :
       views'[h].recovered /\ views'[h].id # views[h].id =>
         \/ \E src \in Handles : views[src] = views'[h]
         \/ \E l \in Lists : views'[h].id \in entered[l] \cap Known]_vars
=============================================================================
