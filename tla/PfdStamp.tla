------------------------------ MODULE PfdStamp -----------------------------
(***************************************************************************)
(* The stamp recorded into the simulator's own command list between two of *)
(* its commands, and the copy of the list's graphics state that makes it   *)
(* invisible: PfdGraphicsState (pfd_stamp_state.cpp) follows every call    *)
(* the observers deliver, PfdStampD3D12 (pfd_stamp_d3d12.cpp) binds its    *)
(* own state, draws, and restores the copy, or refuses before it changed   *)
(* anything.                                                               *)
(*                                                                         *)
(* native is what the list really holds, with the effects D3D12 documents; *)
(* st is the copy.  A root argument is a slot <<parameter, word>>: word 0  *)
(* but for root constants.  The topology, viewports and scissors are one   *)
(* value, raster; the dynamic depth bias stands for the strip cut too;     *)
(* 0 is the default or undefined value of each.  The root signatures of    *)
(* the model have one address, one after the other.                        *)
(***************************************************************************)
EXTENDS Integers, FiniteSets

CONSTANTS
  Psos, Roots,
  Unregistered,         \* the signatures whose lifetime cannot be followed
  Heaps,                \* sets of descriptor heaps an application binds
  Values,               \* of an argument, of the sample positions, the bias, the raster state
  WordCapacity          \* root constants kept without a layout (64)

(* What the constants are assumed to be; the runs evaluate it.             *)
PfdStampAssumption ==
  /\ Unregistered \subseteq Roots /\ Values \subseteq Nat \ {0} /\ WordCapacity \in Nat
  /\ {"none", "own"} \intersect Roots = {} /\ {"none", "unknown"} \intersect Heaps = {}

VARIABLES native, st,
  known_layouts,        \* whether the caller parsed the signatures (bind_root) or not
  drawn                 \* the native state of the last stamp's draw

vars == <<native, st, known_layouts, drawn>>

None      == "none"
Own       == "own"                              \* the stamp's PSO and signature
OwnRaster == -1
Constants == {<<1, 0>>, <<1, 1>>}
Tables    == {<<2, 0>>}
Addresses == {<<3, 0>>}                         \* a CBV, SRV or UAV
Slots     == Constants \union Tables \union Addresses
NoArgs    == [s \in Slots |-> 0]
Groups    == {"all", "pipeline", "root_bindings", "raster"}
includes(group, member) == group \in {"all", member}
-----------------------------------------------------------------------------
(* D3D12: what each setter does to the list. *)
Cleared(p) == [pso |-> p, bias |-> 0, samples |-> 0, root |-> None, args |-> NoArgs, heaps |-> None, raster |-> 0]
SetPso(n, p)   == [n EXCEPT !.pso = p, !.bias = 0]
SetRoot(n, r)  == IF n.root = r THEN n ELSE [n EXCEPT !.root = r, !.args = NoArgs]
SetHeaps(n, h) == IF n.heaps = h THEN n
                  ELSE [n EXCEPT !.heaps = h, !.args = [s \in Slots |-> IF s \in Tables THEN 0 ELSE n.args[s]]]
-----------------------------------------------------------------------------
(* PfdGraphicsState. *)
Fresh(observed) ==
  [valid |-> TRUE, observed |-> observed, pso |-> None, bias |-> 0, samples |-> 0,
   root |-> None, layout |-> FALSE, exact |-> FALSE, undefined |-> {}, args |-> NoArgs,
   heaps |-> "unknown", raster |-> 0]

(* invalidate is sticky until the next reset; the rest no longer matters.  *)
Invalid == [Fresh(FALSE) EXCEPT !.valid = FALSE]
Tracks(x) == st' = IF st.valid THEN x ELSE st

bind_pipeline_SlipKeepsOverrides(x, p) == [x EXCEPT !.pso = p]
bind_pipeline(x, p) == [x EXCEPT !.pso = p, !.bias = 0]

(* bind_root and bind_observed_root: identity is the address with the      *)
(* registration of the object, so a successor at the address is another.   *)
same_root_SlipByAddress(x, r) == x.root # None
same_root(x, r) == x.root = r

bind_root(x, r) ==
  IF same_root(x, r) /\ x.layout THEN x
  ELSE [x EXCEPT !.root = r, !.layout = x.observed \/ known_layouts, !.exact = x.observed, !.args = NoArgs,
                 !.undefined = IF x.observed /\ known_layouts THEN Tables ELSE {}]

(* Without a layout each constant written takes a word of the capacity.    *)
Words(args) == Cardinality({s \in Constants : args[s] # 0})

argument(x, s, v) ==
  LET y == [x EXCEPT !.args[s] = v, !.undefined = @ \ {s}]
  IN IF ~x.layout \/ (~known_layouts /\ Words(y.args) > WordCapacity) THEN Invalid ELSE y

(* A change of the heap set makes the tables undefined, in the list and    *)
(* here; the same set again does not.                                      *)
descriptor_heaps_SlipKeepsTables(x, h) == [x EXCEPT !.heaps = h]
descriptor_heaps(x, h) ==
  IF x.heaps = h THEN x
  ELSE [x EXCEPT !.heaps = h, !.args = [s \in Slots |-> IF s \in Tables THEN 0 ELSE x.args[s]],
                 !.undefined = IF x.exact /\ known_layouts THEN Tables ELSE {}]

complete(x) ==
  /\ x.valid /\ x.observed /\ x.pso # None /\ x.root # None /\ x.layout /\ x.raster # 0
  /\ known_layouts => \A s \in Slots : x.args[s] # 0 \/ s \in x.undefined
-----------------------------------------------------------------------------
(* The application's calls, each seen by its observer. *)
sets_pipeline(p) ==
  /\ native' = SetPso(native, p) /\ Tracks(bind_pipeline(st, p))
  /\ UNCHANGED <<known_layouts, drawn>>

sets_bias(v) ==
  /\ native.pso # None
  /\ native' = [native EXCEPT !.bias = v] /\ Tracks([st EXCEPT !.bias = v])
  /\ UNCHANGED <<known_layouts, drawn>>

sets_samples(v) ==
  /\ native' = [native EXCEPT !.samples = v] /\ Tracks([st EXCEPT !.samples = v])
  /\ UNCHANGED <<known_layouts, drawn>>

sets_root(r) ==
  /\ native' = SetRoot(native, r) /\ Tracks(bind_root(st, r))
  /\ UNCHANGED <<known_layouts, drawn>>

(* The signature could not be registered: nothing is known of it.          *)
sets_unknown_root(r) ==
  /\ native' = SetRoot(native, r)
  /\ Tracks([st EXCEPT !.root = None, !.layout = FALSE, !.exact = FALSE, !.args = NoArgs, !.undefined = {}])
  /\ UNCHANGED <<known_layouts, drawn>>

sets_argument(s, v) ==
  /\ native.root # None
  /\ native' = [native EXCEPT !.args[s] = v] /\ Tracks(argument(st, s, v))
  /\ UNCHANGED <<known_layouts, drawn>>

sets_heaps(h) ==
  /\ native' = SetHeaps(native, h) /\ Tracks(descriptor_heaps(st, h))
  /\ UNCHANGED <<known_layouts, drawn>>

sets_raster(v) ==
  /\ native' = [native EXCEPT !.raster = v] /\ Tracks([st EXCEPT !.raster = v])
  /\ UNCHANGED <<known_layouts, drawn>>

(* ExecuteBundle, a state object, arguments out of range.                  *)
unsupported ==
  /\ st.valid /\ st' = Invalid
  /\ \E p \in Psos : native' \in {native, [SetPso(native, p) EXCEPT !.raster = 0]}
  /\ UNCHANGED <<known_layouts, drawn>>

(* Reset and ClearState: from here on every call is observed, unless the   *)
(* observers of this list are not ready.                                   *)
resets(p, ready) ==
  /\ native' = Cleared(p)
  /\ st' = bind_pipeline(Fresh(ready), p)
  /\ UNCHANGED <<known_layouts, drawn>>
-----------------------------------------------------------------------------
(* record_private_patch: the stamp's state over the groups asked for.      *)
Patched(n, group) ==
  LET a == IF includes(group, "pipeline") THEN SetPso(n, Own) ELSE n
      b == IF includes(group, "root_bindings") THEN [SetRoot(a, Own) EXCEPT !.args = NoArgs] ELSE a
  IN IF includes(group, "raster") THEN [b EXCEPT !.raster = OwnRaster] ELSE b

(* restore: SetGraphicsRootSignature leaves every argument undefined, so   *)
(* only what is known is written again; nothing is invented for a table    *)
(* that was undefined.                                                     *)
Written(args, known) == [s \in Slots |-> IF known[s] # 0 THEN known[s] ELSE args[s]]

restore_SlipForgetsSamples(n, x, group) ==
  LET a == IF includes(group, "pipeline") THEN [SetPso(n, x.pso) EXCEPT !.bias = x.bias] ELSE n
      b == IF includes(group, "root_bindings")
           THEN [SetRoot(a, x.root) EXCEPT !.args = Written(@, x.args)] ELSE a
  IN IF includes(group, "raster") THEN [b EXCEPT !.raster = x.raster] ELSE b

restore(n, x, group) ==
  LET a == IF includes(group, "pipeline") THEN [SetPso(n, x.pso) EXCEPT !.bias = x.bias] ELSE n
      b == IF includes(group, "root_bindings")
           THEN [SetRoot(a, x.root) EXCEPT !.args = Written(@, x.args)] ELSE a
  IN IF includes(group, "raster") THEN [b EXCEPT !.raster = x.raster, !.samples = x.samples] ELSE b

Normalised(n, group) == IF includes(group, "raster") THEN [n EXCEPT !.samples = 0] ELSE n

(* record_buffer, with a draw or as a diagnostic of one group.  Refused    *)
(* for an interface that is not this list, before anything changed; a bad  *)
(* rectangle or address only after the sample positions were normalised.   *)
record_buffer(group) ==
  /\ complete(st)
  /\ LET n == Normalised(native, group)
     IN \/ /\ native' = restore(Patched(n, group), st, group)
           /\ drawn' = IF group = "all" THEN Patched(n, group) ELSE drawn
        \/ /\ native' = IF includes(group, "raster") THEN [n EXCEPT !.samples = st.samples] ELSE n
           /\ UNCHANGED drawn
  /\ UNCHANGED <<st, known_layouts>>

(* record_final_buffer, right before Close: nothing of the application     *)
(* follows, so its state is not restored.                                  *)
record_final_buffer ==
  /\ complete(st)
  /\ drawn' = Patched(Normalised(native, "raster"), "all") /\ native' = drawn'
  /\ st' = Invalid
  /\ UNCHANGED known_layouts
-----------------------------------------------------------------------------
(* A recording the observers met half way: anything may be bound.          *)
Init ==
  /\ \/ native = Cleared(None)
     \/ \E p \in Psos, r \in Roots, v \in Values :
          native = [Cleared(p) EXCEPT !.root = r, !.args = [s \in Slots |-> v], !.raster = v]
  /\ st = Fresh(FALSE) /\ known_layouts \in BOOLEAN /\ drawn = Cleared(Own)

Next ==
  \/ \E p \in Psos : sets_pipeline(p)
  \/ \E v \in Values \union {0} : sets_samples(v)
  \/ \E v \in Values : sets_bias(v) \/ sets_raster(v) \/ \E s \in Slots : sets_argument(s, v)
  \/ \E r \in Roots : IF r \in Unregistered THEN sets_unknown_root(r) ELSE sets_root(r)
  \/ \E h \in Heaps : sets_heaps(h)
  \/ unsupported
  \/ \E p \in Psos \union {None}, b \in BOOLEAN : resets(p, b)
  \/ \E g \in Groups : record_buffer(g)
  \/ record_final_buffer

Spec == Init /\ [][Next]_vars
-----------------------------------------------------------------------------
TypeOK ==
  /\ {native.pso, st.pso} \subseteq Psos \union {None, Own}
  /\ {st.valid, st.observed, st.layout, st.exact, known_layouts} \subseteq BOOLEAN
  /\ st.undefined \subseteq Tables

(* What the stamp would restore is what the list holds: defined where it   *)
(* is defined and undefined where it is not, whatever the application set, *)
(* reset, bound twice or left unset since its recording began.  It holds   *)
(* after a stamp too, whose copy did not change: the application's next    *)
(* command finds the list as it left it, whether the stamp was drawn, was  *)
(* a diagnostic of one group, or was refused half way.                     *)
CopyIsExact ==
  complete(st) =>
    /\ native.pso = st.pso /\ native.bias = st.bias /\ native.samples = st.samples /\ native.raster = st.raster
    /\ native.root = st.root /\ native.args = st.args

(* A draw runs on the stamp's own state only, at default sample positions. *)
DrawsOnOwnState == drawn = [Cleared(Own) EXCEPT !.root = drawn.root, !.heaps = drawn.heaps, !.raster = drawn.raster]
                   /\ drawn.root \in {None, Own} /\ drawn.raster \in {0, OwnRaster}

StampSafety == TypeOK /\ CopyIsExact /\ DrawsOnOwnState

=============================================================================
