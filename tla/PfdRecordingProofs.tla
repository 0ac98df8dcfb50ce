------------------------- MODULE PfdRecordingProofs -------------------------
(***************************************************************************)
(* Proofs about what the bridge adds to the simulator's lists.             *)
(* PfdRecording, for any number of lists at one address and of changes: it *)
(* is added where the list is known to be, and a batch is planned over     *)
(* what was begun in this session.  PfdSubmission, for any batch and       *)
(* changes of the selection: where the copy of a batch goes.  PfdStamp, for*)
(* any pipelines, signatures, heaps and values: what a stamp restores.     *)
(***************************************************************************)
EXTENDS MCRecording, WellFoundedInduction, TLAPS

Work   == {"clear", "copy", "draw"} \X (Modes \cup {"any"})
Known  == Modes \cup {"unknown"}
Lists  == [id : Nat, epoch : Nat, ready : BOOLEAN, closing : BOOLEAN, closed : BOOLEAN, dirty : BOOLEAN,
           transition : BOOLEAN, pend : BOOLEAN, pend_rt : BOOLEAN, om : {"off", "bound", "snapshot"},
           graphics : {"partial", "complete", "invalid"}, q_known : BOOLEAN, open : {0, 1}, c_known : BOOLEAN,
           seen : BOOLEAN, pending : Known, ready_mode : Known, s_known : BOOLEAN, adds : SUBSET Work]
Scopes == [generation : Nat, active : BOOLEAN, suspended : BOOLEAN, invalid : BOOLEAN, prior_work : BOOLEAN]
Apps   == [native : {"none", "recording", "closed", "failed"}, display : Displays,
           pass : {"none", "open", "suspending"}, hold : {"free", "suspended", "local"}, q : {0, 1},
           bound : BOOLEAN, gap : BOOLEAN, begun : BOOLEAN, blind : BOOLEAN]

Types ==
  /\ list \in Lists /\ list.adds = {} /\ scope \in Scopes /\ now \in Apps
  /\ enabled \in BOOLEAN /\ epoch \in Nat /\ floor \in Nat /\ sampled \in Nat /\ last_id \in Nat /\ changes \in Nat
  /\ mask \in {"off", "camera", "calibrate"} /\ session \in {"no", "clearing"} /\ resetting \in BOOLEAN
  /\ planned \in {"no", "yes"}

(* Numbers are drawn in order, and the list and its scope go together.     *)
NumbersFit ==
  /\ scope.generation = list.id /\ list.id <= last_id /\ last_id <= MaxLists
  /\ list.epoch <= epoch /\ sampled <= epoch /\ floor <= epoch
  /\ epoch <= 2 * changes + 1 /\ changes <= MaxChanges

(* What the registry says of a list the application has in its hands.      *)
NativeFits ==
  /\ list.ready => now.native = "recording" /\ ~resetting /\ list.id # 0 /\ ~list.closing
  /\ list.id = 0 => ~list.closed /\ ~list.s_known
  /\ now.native = "none" => list.id = 0
  /\ resetting => now.native \in {"recording", "failed"}
  /\ resetting /\ now.native = "recording" =>
       ~now.gap /\ now.pass = "none" /\ ~now.blind /\ now.q = 0 /\ now.hold # "local" /\ ~now.bound

(* The boundary's scope follows the passes of the application, as long as  *)
(* nothing invalidates it.                                                 *)
ScopeFits(s, n) ==
  /\ ~n.gap /\ ~n.blind /\ n.hold # "local"
  /\ s.active <=> n.pass # "none"
  /\ s.active => n.hold = "free" /\ (s.suspended <=> n.pass = "suspending")
  /\ ~s.active => (s.suspended => n.hold = "suspended") /\ (s.prior_work /\ ~s.suspended => n.hold = "free")

(* What the copy proof and the query scope say of the display and of the   *)
(* queries is so; what was drawn was drawn in the render-target state.     *)
ProofsFit(x, n) ==
  /\ x.om # "off" => n.bound
  /\ x.dirty => x.om # "off"
  /\ x.q_known => x.open = n.q
  /\ (x.c_known /\ x.seen /\ x.pending # "unknown") => n.display = RT(x.pending)
  /\ (x.c_known /\ x.ready_mode # "unknown") => n.display = RT(x.ready_mode)

DrawnFits(x, n) ==
  /\ (x.dirty /\ ~x.transition) => n.display \in Render
  /\ x.pend_rt => n.display \in Render

(* All of this holds of a recording to which something may still be added. *)
Fits(x, s, n) == ~Over(x, s) => ScopeFits(s, n) /\ ProofsFit(x, n) /\ DrawnFits(x, n)

(* A recording the submission proof stands for was begun in this session,  *)
(* or is older than it.                                                    *)
BegunFits ==
  /\ ~now.begun /\ list.s_known => list.epoch < floor
  /\ resetting /\ now.native = "recording" /\ ~now.begun => sampled # epoch /\ floor # 0

IInv ==
  /\ Types /\ NumbersFit /\ NativeFits /\ Fits(list, scope, now) /\ BegunFits
  /\ AddsFitTheRecording /\ AddsAreObserved /\ PlansAreCurrent /\ SealedIsClosed
-----------------------------------------------------------------------------
(* The updates of a list and of the application's state, by their type.    *)
LEMMA StagingTypes ==
  ASSUME NEW x \in Lists, NEW b \in BOOLEAN, NEW c \in BOOLEAN, NEW a \in SUBSET Work
  PROVE  /\ [x EXCEPT !.dirty = FALSE] \in Lists
         /\ [x EXCEPT !.dirty = FALSE, !.pend = TRUE, !.pend_rt = b, !.adds = a] \in Lists
         /\ [x EXCEPT !.pend = FALSE, !.pend_rt = FALSE, !.adds = a] \in Lists
         /\ [x EXCEPT !.pend = FALSE] \in Lists
         /\ [x EXCEPT !.pend_rt = FALSE, !.dirty = FALSE] \in Lists
         /\ [x EXCEPT !.q_known = FALSE, !.pend_rt = FALSE] \in Lists
         /\ [x EXCEPT !.dirty = FALSE, !.om = "off", !.pend_rt = FALSE] \in Lists
         /\ [x EXCEPT !.dirty = b, !.transition = FALSE] \in Lists
         /\ [x EXCEPT !.transition = b, !.pend_rt = FALSE] \in Lists
         /\ [x EXCEPT !.adds = a] \in Lists
<1>1. [x EXCEPT !.dirty = FALSE] \in Lists /\ [x EXCEPT !.pend = FALSE] \in Lists
  BY Zenon DEF Lists
<1>2. [x EXCEPT !.dirty = FALSE, !.pend = TRUE, !.pend_rt = b, !.adds = a] \in Lists
  BY Zenon DEF Lists
<1>3. [x EXCEPT !.pend = FALSE, !.pend_rt = FALSE, !.adds = a] \in Lists
  BY Zenon DEF Lists
<1>4. [x EXCEPT !.pend_rt = FALSE, !.dirty = FALSE] \in Lists /\ [x EXCEPT !.q_known = FALSE, !.pend_rt = FALSE] \in Lists
  BY Zenon DEF Lists
<1>5. [x EXCEPT !.dirty = FALSE, !.om = "off", !.pend_rt = FALSE] \in Lists
  BY Zenon DEF Lists
<1>6. [x EXCEPT !.dirty = b, !.transition = FALSE] \in Lists /\ [x EXCEPT !.transition = b, !.pend_rt = FALSE] \in Lists
  BY Zenon DEF Lists
<1>7. [x EXCEPT !.adds = a] \in Lists
  BY Zenon DEF Lists
<1> QED BY <1>1, <1>2, <1>3, <1>4, <1>5, <1>6, <1>7

(* The same for the copy proof and the query scope.                        *)
LEMMA ProofTypes ==
  ASSUME NEW x \in Lists, NEW b \in BOOLEAN, NEW c \in BOOLEAN, NEW k \in Known, NEW o \in {0, 1}
  PROVE  /\ [x EXCEPT !.c_known = FALSE] \in Lists /\ [x EXCEPT !.q_known = FALSE] \in Lists
         /\ [x EXCEPT !.open = o] \in Lists /\ [x EXCEPT !.s_known = b] \in Lists
         /\ [x EXCEPT !.c_known = b, !.s_known = c] \in Lists
         /\ [x EXCEPT !.ready_mode = "unknown", !.seen = TRUE, !.pending = k] \in Lists
         /\ [x EXCEPT !.ready_mode = k, !.pending = "unknown", !.seen = FALSE] \in Lists
         /\ [x EXCEPT !.seen = FALSE, !.pending = "unknown", !.ready_mode = "unknown"] \in Lists
<1>0. "unknown" \in Known
  BY DEF Known
<1>1. [x EXCEPT !.c_known = FALSE] \in Lists /\ [x EXCEPT !.q_known = FALSE] \in Lists
  BY Zenon DEF Lists
<1>2. [x EXCEPT !.open = o] \in Lists /\ [x EXCEPT !.s_known = b] \in Lists
  BY Zenon DEF Lists
<1>3. [x EXCEPT !.c_known = b, !.s_known = c] \in Lists
  BY Zenon DEF Lists
<1>4. [x EXCEPT !.ready_mode = "unknown", !.seen = TRUE, !.pending = k] \in Lists
  BY <1>0, Zenon DEF Lists
<1>5. [x EXCEPT !.ready_mode = k, !.pending = "unknown", !.seen = FALSE] \in Lists
  BY <1>0, Zenon DEF Lists
<1>6. [x EXCEPT !.seen = FALSE, !.pending = "unknown", !.ready_mode = "unknown"] \in Lists
  BY <1>0, Zenon DEF Lists
<1> QED BY <1>1, <1>2, <1>3, <1>4, <1>5, <1>6

(* The same for the bound targets, the graphics state and the seal.        *)
LEMMA RecordTypes ==
  ASSUME NEW x \in Lists, NEW b \in BOOLEAN, NEW m \in {"off", "bound", "snapshot"},
         NEW g \in {"partial", "complete", "invalid"}
  PROVE  /\ [x EXCEPT !.dirty = FALSE, !.transition = FALSE, !.om = m] \in Lists
         /\ [x EXCEPT !.graphics = g] \in Lists /\ [x EXCEPT !.closed = b] \in Lists
         /\ [x EXCEPT !.c_known = FALSE, !.s_known = FALSE, !.graphics = g] \in Lists
         /\ [x EXCEPT !.c_known = FALSE, !.dirty = FALSE, !.pend = FALSE, !.pend_rt = FALSE,
                      !.transition = FALSE, !.om = "off", !.graphics = g] \in Lists
         /\ [x EXCEPT !.closing = TRUE, !.ready = FALSE, !.dirty = FALSE, !.pend = FALSE,
                      !.pend_rt = FALSE, !.graphics = "invalid"] \in Lists
<1>1. [x EXCEPT !.dirty = FALSE, !.transition = FALSE, !.om = m] \in Lists
  BY Zenon DEF Lists
<1>2. [x EXCEPT !.graphics = g] \in Lists /\ [x EXCEPT !.closed = b] \in Lists
  BY Zenon DEF Lists
<1>3. [x EXCEPT !.c_known = FALSE, !.s_known = FALSE, !.graphics = g] \in Lists
  BY Zenon DEF Lists
<1>4. [x EXCEPT !.c_known = FALSE, !.dirty = FALSE, !.pend = FALSE, !.pend_rt = FALSE,
                !.transition = FALSE, !.om = "off", !.graphics = g] \in Lists
  BY Zenon DEF Lists
<1>5. [x EXCEPT !.closing = TRUE, !.ready = FALSE, !.dirty = FALSE, !.pend = FALSE,
                !.pend_rt = FALSE, !.graphics = "invalid"] \in Lists
  BY Zenon DEF Lists
<1> QED BY <1>1, <1>2, <1>3, <1>4, <1>5

(* The lists the registry makes.                                           *)
LEMMA NewLists ==
  /\ NoList \in Lists /\ NoList.adds = {}
  /\ \A i, e \in Nat, r, g, c, k \in BOOLEAN :
       [NoList EXCEPT !.id = i, !.epoch = e, !.ready = r, !.closing = g, !.closed = c, !.s_known = k] \in Lists
  /\ \A i, e \in Nat :
       [NoList EXCEPT !.id = i, !.epoch = e, !.ready = TRUE, !.q_known = TRUE, !.c_known = TRUE, !.s_known = TRUE] \in Lists
  /\ \A i, e \in Nat, g \in BOOLEAN :
       [NoList EXCEPT !.id = i, !.closing = g, !.epoch = e, !.graphics = "invalid"] \in Lists
  /\ \A i \in Nat : [NoList EXCEPT !.id = i] \in Lists
<1>1. NoList \in Lists /\ NoList.adds = {}
  BY DEF NoList, Lists, Known, Modes
<1>2. ASSUME NEW x \in Lists, NEW i \in Nat, NEW e \in Nat, NEW r \in BOOLEAN, NEW g \in BOOLEAN, NEW c \in BOOLEAN, NEW k \in BOOLEAN
      PROVE  [x EXCEPT !.id = i, !.epoch = e, !.ready = r, !.closing = g, !.closed = c, !.s_known = k] \in Lists
  BY Zenon DEF Lists
<1>3. ASSUME NEW x \in Lists, NEW i \in Nat, NEW e \in Nat
      PROVE  [x EXCEPT !.id = i, !.epoch = e, !.ready = TRUE, !.q_known = TRUE, !.c_known = TRUE, !.s_known = TRUE] \in Lists
  BY Zenon DEF Lists
<1>4. ASSUME NEW x \in Lists, NEW i \in Nat, NEW e \in Nat, NEW g \in BOOLEAN
      PROVE  [x EXCEPT !.id = i, !.closing = g, !.epoch = e, !.graphics = "invalid"] \in Lists
  BY Zenon DEF Lists
<1>5. ASSUME NEW x \in Lists, NEW i \in Nat
      PROVE  [x EXCEPT !.id = i] \in Lists
  BY Zenon DEF Lists
<1> QED BY <1>1, <1>2, <1>3, <1>4, <1>5, Zenon

(* A list that begins again, with what it keeps of the one before.         *)
LEMMA ListRenewed ==
  ASSUME NEW x \in Lists
  PROVE  [NoList EXCEPT !.id = x.id, !.epoch = x.epoch, !.ready = x.ready, !.closing = x.closing,
                        !.closed = x.closed, !.s_known = x.s_known] \in Lists
<1> DEFINE renewed(i, e, r, g, c, k) ==
             [NoList EXCEPT !.id = i, !.epoch = e, !.ready = r, !.closing = g, !.closed = c, !.s_known = k]
<1>2. \A i, e \in Nat, r, g, c, k \in BOOLEAN : renewed(i, e, r, g, c, k) \in Lists
  BY NewLists, Zenon
<1> HIDE DEF renewed
<1>3. x.id \in Nat /\ x.epoch \in Nat /\ x.ready \in BOOLEAN /\ x.closing \in BOOLEAN /\ x.closed \in BOOLEAN
      /\ x.s_known \in BOOLEAN
  BY DEF Lists
<1>4. renewed(x.id, x.epoch, x.ready, x.closing, x.closed, x.s_known) \in Lists
  BY <1>2, <1>3
<1> QED BY <1>4 DEF renewed
-----------------------------------------------------------------------------
(* What no helper touches of a list, and what it may only lose.            *)
Later(x, y) ==
  /\ y \in Lists
  /\ y.id = x.id /\ y.epoch = x.epoch /\ y.ready = x.ready /\ y.closing = x.closing /\ y.closed = x.closed
  /\ y.s_known => x.s_known

(* Later is a preorder, and keeps a recording that is over so.             *)
LEMMA LaterItself == \A x \in Lists : Later(x, x)
BY DEF Later

LEMMA LaterOn ==
  ASSUME NEW x, NEW y, NEW z, Later(x, y), Later(y, z)
  PROVE  Later(x, z)
BY DEF Later

LEMMA OverStays ==
  ASSUME NEW x, NEW y, NEW s, Later(x, y)
  PROVE  Over(y, s) <=> Over(x, s)
BY DEF Later, Over, recording_observed

(* What AddsFitTheRecording and AddsAreObserved say of one addition.       *)
Good(a, w) ==
  /\ w.native = "recording" /\ w.pass = "none" /\ w.hold = "free" /\ ~w.gap
  /\ w.display \in Render
  /\ a[1] = "copy" => w.display = RT(a[2])
  /\ a[1] = "draw" => w.q = 0

AllGood(x, w) == \A a \in x.adds : Good(a, w)

(* What a helper that may add to the list does: it adds only where same_safe *)
(* allows it, and then only what fits.                                     *)
Adds(x, y, s, n) ==
  /\ Later(x, y) /\ Fits(y, s, n)
  /\ AllGood(x, n) => AllGood(y, n)
  /\ y.adds # x.adds => same_safe(s)

(* Adds is a preorder on what fits.                                        *)
LEMMA AddsItself ==
  ASSUME NEW x \in Lists, NEW s, NEW n, Fits(x, s, n)
  PROVE  Adds(x, x, s, n)
BY LaterItself DEF Adds

LEMMA AddsOn ==
  ASSUME NEW x, NEW y, NEW z, NEW s, NEW n, Adds(x, y, s, n), Adds(y, z, s, n)
  PROVE  Adds(x, z, s, n)
BY LaterOn DEF Adds

(* Where work may be recorded, the application is between passes.          *)
LEMMA SafePlace ==
  ASSUME NEW x, NEW s \in Scopes, NEW n, Fits(x, s, n), ~Over(x, s), same_safe(s)
  PROVE  n.pass = "none" /\ n.hold = "free" /\ ~n.gap
BY DEF Fits, ScopeFits, same_safe, Scopes

(* stage_pfd clears only where same_safe holds, and only a display drawn   *)
(* since its last transition.                                              *)
LEMMA StageEffect ==
  ASSUME NEW x \in Lists, NEW s \in Scopes, NEW n \in Apps, Fits(x, s, n), x.ready => n.native = "recording"
  PROVE  /\ Adds(x, stage_pfd(x, s), s, n)
         /\ stage_pfd(x, s).adds # x.adds => x.dirty /\ ~x.transition /\ ~Over(x, s)
<1> DEFINE y == stage_pfd(x, s)
           b == ~x.transition /\ x.om = "snapshot"
           a == IF mask = "calibrate" /\ x.om = "snapshot" /\ ~x.transition /\ same_safe(s)
                  THEN x.adds \cup {<<"clear", "any">>} ELSE x.adds
<1>t. b \in BOOLEAN /\ a \in SUBSET Work
  BY DEF Lists, Work
<1>u. [x EXCEPT !.dirty = FALSE, !.pend = TRUE, !.pend_rt = b, !.adds = a] \in Lists
  <2> HIDE DEF b, a
  <2> QED BY <1>t, StagingTypes
<1>1. CASE x.id = 0 \/ ~x.ready \/ ~x.dirty \/ ~recording_observed(x)
  <2>1. y = x
    BY <1>1 DEF stage_pfd
  <2> QED BY <2>1, AddsItself
<1>2. CASE ~(x.id = 0 \/ ~x.ready \/ ~x.dirty \/ ~recording_observed(x)) /\ (x.om = "off" \/ mask = "off")
  <2>1. y = [x EXCEPT !.dirty = FALSE]
    BY <1>2 DEF stage_pfd
  <2>2. y \in Lists
    BY <2>1, StagingTypes
  <2> HIDE DEF y
  <2>3. Later(x, y) /\ y.adds = x.adds
    BY <2>1, <2>2 DEF Later, Lists
  <2>4. Fits(y, s, n)
    BY <2>1, <2>3, OverStays DEF Fits, ProofsFit, DrawnFits, Lists
  <2> QED BY <2>3, <2>4 DEF Adds, AllGood, y
<1>3. CASE ~(x.id = 0 \/ ~x.ready \/ ~x.dirty \/ ~recording_observed(x)) /\ ~(x.om = "off" \/ mask = "off")
  <2>1. y = [x EXCEPT !.dirty = FALSE, !.pend = TRUE, !.pend_rt = b, !.adds = a]
    BY <1>3 DEF stage_pfd
  <2>2. y \in Lists
    BY <1>u, <2>1
  <2> HIDE DEF y
  <2>3. y.adds = a /\ y.pend_rt = b /\ ~y.dirty /\ Later(x, y)
    BY <2>1, <2>2 DEF Later, Lists
  <2>4. y.om = x.om /\ y.transition = x.transition /\ y.q_known = x.q_known /\ y.open = x.open /\ y.c_known = x.c_known
        /\ y.seen = x.seen /\ y.pending = x.pending /\ y.ready_mode = x.ready_mode
    BY <2>1 DEF Lists
  <2>5. Fits(y, s, n)
    BY <1>3, <2>3, <2>4, OverStays DEF Fits, ProofsFit, DrawnFits
  <2>6. y.adds # x.adds => same_safe(s) /\ x.dirty /\ ~x.transition
    BY <1>3, <2>3
  <2>7. same_safe(s) => ~Over(x, s)
    BY <1>3 DEF same_safe, Over
  <2>8. ASSUME same_safe(s), ~x.transition PROVE Good(<<"clear", "any">>, n)
    <3>1. n.native = "recording" /\ n.pass = "none" /\ n.hold = "free" /\ ~n.gap
      BY <1>3, <2>7, <2>8, SafePlace
    <3>2. n.display \in Render
      BY <1>3, <2>7, <2>8 DEF Fits, DrawnFits
    <3> QED BY <3>1, <3>2 DEF Good
  <2>9. AllGood(x, n) => AllGood(y, n)
    BY <2>3, <2>8 DEF AllGood
  <2> QED BY <2>3, <2>5, <2>6, <2>7, <2>9 DEF Adds, y
<1> QED BY <1>1, <1>2, <1>3

(* drain_pfds copies in the state that is proved, and draws with no query  *)
(* open.                                                                   *)
LEMMA DrainEffect ==
  ASSUME NEW x \in Lists, NEW s \in Scopes, NEW n \in Apps, NEW ending \in BOOLEAN, NEW works \in BOOLEAN,
         Fits(x, s, n), x.ready => n.native = "recording"
  PROVE  Adds(x, drain_pfds(x, s, ending, works), s, n)
<1> DEFINE y == drain_pfds(x, s, ending, works)
           due == x.id # 0 /\ x.ready /\ recording_observed(x) /\ x.pend /\ x.pend_rt /\ same_safe(s) /\ mask = "camera"
           copies == x.c_known /\ x.ready_mode # "unknown" /\ works
           draws == ending /\ known_empty(x) /\ x.om = "snapshot" /\ x.graphics = "complete"
<1>1. CASE ~due \/ (~copies /\ ~draws)
  <2>1. y = x
    BY <1>1 DEF drain_pfds
  <2> QED BY <2>1, AddsItself
<1>2. ASSUME due, NEW a \in Work, Good(a, n), y = [x EXCEPT !.pend = FALSE, !.pend_rt = FALSE, !.adds = @ \cup {a}]
      PROVE  Adds(x, y, s, n)
  <2>1. x.adds \cup {a} \in SUBSET Work
    BY <1>2 DEF Lists
  <2>2. y \in Lists
    <3>1. \A s1 \in SUBSET Work : [x EXCEPT !.pend = FALSE, !.pend_rt = FALSE, !.adds = s1] \in Lists
      <4> TAKE s1 \in SUBSET Work
      <4>1. FALSE \in BOOLEAN
        OBVIOUS
      <4> QED BY <4>1, StagingTypes
    <3>2. [x EXCEPT !.pend = FALSE, !.pend_rt = FALSE, !.adds = x.adds \cup {a}] \in Lists
      BY <2>1, <3>1, Zenon
    <3> HIDE DEF y
    <3> QED BY <1>2, <3>2
  <2> HIDE DEF y
  <2>3. y.adds = x.adds \cup {a} /\ ~y.pend_rt /\ Later(x, y)
    BY <1>2, <2>2 DEF Later, Lists
  <2>4. y.om = x.om /\ y.transition = x.transition /\ y.dirty = x.dirty /\ y.q_known = x.q_known /\ y.open = x.open
        /\ y.c_known = x.c_known /\ y.seen = x.seen /\ y.pending = x.pending /\ y.ready_mode = x.ready_mode
    BY <1>2 DEF Lists
  <2>5. Fits(y, s, n)
    BY <2>3, <2>4, OverStays DEF Fits, ProofsFit, DrawnFits
  <2> QED BY <1>2, <2>3, <2>5 DEF Adds, AllGood
<1>3. due => /\ ~Over(x, s) /\ n.native = "recording" /\ n.pass = "none" /\ n.hold = "free" /\ ~n.gap
             /\ n.display \in Render /\ (x.q_known => x.open = n.q) /\ (copies => n.display = RT(x.ready_mode))
  <2>1. due => ~Over(x, s)
    BY DEF Over, same_safe
  <2> QED BY <2>1, SafePlace DEF Fits, ProofsFit, DrawnFits
<1>4. CASE due /\ copies
  <2>1. y = [x EXCEPT !.pend = FALSE, !.pend_rt = FALSE, !.adds = @ \cup {<<"copy", x.ready_mode>>}]
    BY <1>4 DEF drain_pfds
  <2>2. <<"copy", x.ready_mode>> \in Work
    BY <1>4 DEF Lists, Known, Work
  <2>3. Good(<<"copy", x.ready_mode>>, n)
    BY <1>3, <1>4 DEF Good
  <2> QED BY <1>2, <1>4, <2>1, <2>2, <2>3
<1>5. CASE due /\ ~copies /\ draws
  <2>1. y = [x EXCEPT !.pend = FALSE, !.pend_rt = FALSE, !.adds = @ \cup {<<"draw", "any">>}]
    BY <1>5 DEF drain_pfds
  <2>2. <<"draw", "any">> \in Work
    BY DEF Work
  <2>3. Good(<<"draw", "any">>, n)
    BY <1>3, <1>5 DEF Good, known_empty
  <2> QED BY <1>2, <1>5, <2>1, <2>2, <2>3
<1> QED BY <1>1, <1>4, <1>5

(* flush_pfd is one after the other.                                       *)
LEMMA FlushEffect ==
  ASSUME NEW x \in Lists, NEW s \in Scopes, NEW n \in Apps, NEW works \in BOOLEAN,
         Fits(x, s, n), x.ready => n.native = "recording"
  PROVE  Adds(x, flush_pfd(x, s, works), s, n)
<1> DEFINE y == stage_pfd(x, s)
<1>1. Adds(x, y, s, n)
  BY StageEffect
<1> HIDE DEF y
<1>2. y \in Lists /\ Fits(y, s, n) /\ (y.ready => n.native = "recording")
  BY <1>1 DEF Adds, Later
<1>3. Adds(y, drain_pfds(y, s, FALSE, works), s, n)
  BY <1>2, DrainEffect
<1> QED BY <1>1, <1>3, AddsOn DEF flush_pfd, y
-----------------------------------------------------------------------------
(* What a helper that adds nothing leaves.                                 *)
Keeps(x, y) == Later(x, y) /\ y.adds = x.adds

(* Keeps is a preorder.                                                    *)
LEMMA KeepsOn ==
  ASSUME NEW x, NEW y, NEW z, Keeps(x, y), Keeps(y, z)
  PROVE  Keeps(x, z)
BY LaterOn DEF Keeps

LEMMA KeepsItself == \A x \in Lists : Keeps(x, x)
BY LaterItself DEF Keeps

(* A draw that returned makes the pending transition of the display the    *)
(* proved one.                                                             *)
LEMMA ProofDrawEffect ==
  ASSUME NEW x \in Lists, NEW n
  PROVE  LET y == proof_draw(x)
         IN  /\ Keeps(x, y) /\ y.om = x.om
             /\ ProofsFit(x, n) => ProofsFit(y, n)
<1> DEFINE y == proof_draw(x)
<1>1. y = x \/ (x.c_known /\ x.seen /\ y = [x EXCEPT !.ready_mode = x.pending, !.pending = "unknown", !.seen = FALSE])
  BY DEF proof_draw
<1>2. x.pending \in Known
  BY DEF Lists
<1>3. y \in Lists
  <2>1. [x EXCEPT !.ready_mode = x.pending, !.pending = "unknown", !.seen = FALSE] \in Lists
    BY <1>2, ProofTypes
  <2> QED BY <1>1, <2>1
<1> HIDE DEF y
<1>4. Keeps(x, y) /\ y.om = x.om
  <2>1. CASE y = x
    BY <2>1, <1>3 DEF Keeps, Later
  <2>2. CASE y # x
    <3>1. /\ y.id = x.id /\ y.epoch = x.epoch /\ y.ready = x.ready /\ y.closing = x.closing
          /\ y.closed = x.closed /\ y.s_known = x.s_known /\ y.adds = x.adds /\ y.om = x.om
      BY <1>1, <2>2 DEF Lists
    <3> QED BY <3>1, <1>3 DEF Keeps, Later
  <2> QED BY <2>1, <2>2
<1>5. ProofsFit(x, n) => ProofsFit(y, n)
  BY <1>1 DEF ProofsFit, Lists
<1> QED BY <1>4, <1>5 DEF y

(* m is the application after a call that may move the display.            *)
LEMMA CopyModelEffect ==
  ASSUME NEW x \in Lists, NEW s \in Scopes, NEW n, NEW m, NEW after \in Known,
         m.bound = n.bound, m.q = n.q, after # "unknown" => m.display = RT(after), x.id # 0
  PROVE  LET y == stage_copy_model(x, s, TRUE, after)
         IN  /\ Keeps(x, y) /\ y.om = x.om /\ y.dirty = x.dirty /\ y.transition = x.transition /\ y.pend_rt = x.pend_rt
             /\ ProofsFit(x, n) => ProofsFit(y, m)
<1> DEFINE y == stage_copy_model(x, s, TRUE, after)
           k == IF x.seen THEN "unknown" ELSE after
<1>1. \/ y = [x EXCEPT !.seen = FALSE, !.pending = "unknown", !.ready_mode = "unknown"]
      \/ y = [x EXCEPT !.c_known = FALSE]
      \/ ~x.c_known /\ y = x
      \/ y = [x EXCEPT !.ready_mode = "unknown", !.seen = TRUE, !.pending = k]
  BY DEF stage_copy_model, observe_transition, forget_resource
<1>2. y \in Lists
  <2>1. k \in Known
    BY DEF Known
  <2>2. [x EXCEPT !.ready_mode = "unknown", !.seen = TRUE, !.pending = k] \in Lists
    <3> HIDE DEF k
    <3> QED BY <2>1, ProofTypes
  <2>3. [x EXCEPT !.c_known = FALSE] \in Lists /\ [x EXCEPT !.seen = FALSE, !.pending = "unknown", !.ready_mode = "unknown"] \in Lists
    BY <2>1, ProofTypes
  <2> HIDE DEF y, k
  <2> QED BY <1>1, <2>2, <2>3
<1> HIDE DEF y
<1>3. Keeps(x, y) /\ y.om = x.om /\ y.dirty = x.dirty /\ y.transition = x.transition /\ y.pend_rt = x.pend_rt
      /\ y.q_known = x.q_known /\ y.open = x.open
  <2>1. CASE y = [x EXCEPT !.seen = FALSE, !.pending = "unknown", !.ready_mode = "unknown"]
    BY <1>2, <2>1 DEF Keeps, Later, Lists
  <2>2. CASE y = [x EXCEPT !.c_known = FALSE]
    BY <1>2, <2>2 DEF Keeps, Later, Lists
  <2>3. CASE y = x
    BY <2>3, KeepsItself
  <2>4. CASE y = [x EXCEPT !.ready_mode = "unknown", !.seen = TRUE, !.pending = k]
    <3> HIDE DEF k
    <3> QED BY <1>2, <2>4 DEF Keeps, Later, Lists
  <2> QED BY <1>1, <2>1, <2>2, <2>3, <2>4
<1>4. y.c_known => y.ready_mode = "unknown" /\ (~y.seen \/ y.pending \in {"unknown", after})
  BY <1>1 DEF Lists
<1>5. ProofsFit(x, n) => ProofsFit(y, m)
  BY <1>3, <1>4 DEF ProofsFit
<1> QED BY <1>3, <1>5 DEF y

(* The metadata of one barrier: the proofs follow the display.             *)
LEMMA BarrierEffect ==
  ASSUME NEW x \in Lists, NEW s \in Scopes, NEW n \in Apps, NEW m, NEW api \in Modes, NEW b \in Elements,
         m.bound = n.bound, m.q = n.q, m.display = Steps(n.display, api, b), m.display # "invalid",
         x.ready => x.id # 0, ~Over(x, s) => ProofsFit(x, n)
  PROVE  LET y == observe_barrier(x, s, api, b)
         IN  /\ Keeps(x, y)
             /\ ~Over(x, s) => ProofsFit(y, m)
             /\ ~Over(x, s) /\ b # "alias" => DrawnFits(y, m) /\ (y.dirty => y.transition)
<1> DEFINE y == observe_barrier(x, s, api, b)
<1>1. CASE ~Observing \/ x.id = 0
  <2>1. y = x
    BY <1>1 DEF observe_barrier
  <2>2. Over(x, s)
    BY <1>1 DEF Over, recording_observed, Observing
  <2> QED BY <2>1, <2>2, KeepsItself
<1>2. CASE ~(~Observing \/ x.id = 0) /\ b = "alias" /\ api = "legacy"
  <2>1. y = [x EXCEPT !.c_known = FALSE]
    BY <1>2 DEF observe_barrier
  <2>2. y \in Lists
    <3>1. "unknown" \in Known
      BY DEF Known
    <3> QED BY <2>1, <3>1, ProofTypes
  <2> HIDE DEF y
  <2>3. Keeps(x, y) /\ (ProofsFit(x, n) => ProofsFit(y, m))
    BY <2>1, <2>2 DEF Keeps, Later, Lists, ProofsFit
  <2> QED BY <1>2, <2>3 DEF y
<1>3. CASE ~(~Observing \/ x.id = 0) /\ ~(b = "alias" /\ api = "legacy")
  <2> DEFINE c == x.transition \/ x.om # "off"
             z == [x EXCEPT !.transition = c, !.pend_rt = FALSE]
             after == IF b = "entry" THEN api ELSE "unknown"
  <2>1. y = stage_copy_model(z, s, TRUE, after)
    BY <1>3 DEF observe_barrier
  <2>2. z \in Lists
    <3>1. c \in BOOLEAN
      BY DEF Lists
    <3> HIDE DEF c
    <3> QED BY <3>1, StagingTypes
  <2>3. z.transition = c /\ ~z.pend_rt /\ z.id = x.id /\ Keeps(x, z) /\ z.om = x.om /\ z.dirty = x.dirty
    BY <2>2 DEF Keeps, Later, Lists
  <2>4. ProofsFit(x, n) => ProofsFit(z, n)
    BY <2>2 DEF ProofsFit, Lists
  <2>5. after \in Known /\ (after # "unknown" => m.display = RT(after))
    BY DEF Known, Modes, Steps
  <2> HIDE DEF z, y, after
  <2>6. /\ Keeps(z, y) /\ y.om = z.om /\ y.dirty = z.dirty /\ y.transition = z.transition /\ y.pend_rt = z.pend_rt
        /\ (ProofsFit(z, n) => ProofsFit(y, m))
    <3>1. z.id # 0
      BY <1>3, <2>3
    <3>2. LET w == stage_copy_model(z, s, TRUE, after)
          IN  /\ Keeps(z, w) /\ w.om = z.om /\ w.dirty = z.dirty /\ w.transition = z.transition /\ w.pend_rt = z.pend_rt
              /\ (ProofsFit(z, n) => ProofsFit(w, m))
      BY <2>2, <2>5, <3>1, CopyModelEffect
    <3> QED BY <2>1, <3>2
  <2>7. ProofsFit(x, n) => DrawnFits(y, m) /\ (y.dirty => y.transition)
    BY <2>3, <2>6 DEF ProofsFit, DrawnFits
  <2> QED BY <2>3, <2>4, <2>6, <2>7, KeepsOn DEF y
<1> QED BY <1>1, <1>2, <1>3

(* invalidate for any reason but a beginning pass drops the proofs and     *)
(* what was drawn.                                                         *)
LEMMA DoubtEffect ==
  ASSUME NEW x \in Lists, NEW s \in Scopes, NEW n, NEW reasons, NEW works \in BOOLEAN,
         reasons # {}, reasons # {"pass_begin"}, x.ready => x.id # 0, s.generation = x.id,
         ~Over(x, s) => ScopeFits(s, n) /\ ProofsFit(x, n)
  PROVE  LET y == invalidate(x, s, reasons, works)
         IN  Keeps(x, y) /\ Fits(y, s, n) /\ (~Over(x, s) => ~y.dirty) /\ (Over(x, s) => y.om = x.om)
<1> DEFINE y == invalidate(x, s, reasons, works)
<1>1. CASE x.id = 0
  <2>1. y = x /\ Over(x, s)
    BY <1>1 DEF invalidate, Over
  <2> QED BY <2>1, KeepsItself DEF Fits
<1>2. CASE x.id # 0 /\ ~recording_observed(x)
  <2>1. y = [x EXCEPT !.s_known = FALSE]
    BY <1>2 DEF invalidate
  <2>2. y \in Lists
    <3>1. "unknown" \in Known
      BY DEF Known
    <3> QED BY <2>1, <3>1, ProofTypes
  <2> HIDE DEF y
  <2>3. Keeps(x, y) /\ y.om = x.om
    BY <2>1, <2>2 DEF Keeps, Later, Lists
  <2>4. Over(x, s)
    BY <1>2 DEF Over
  <2>5. Over(y, s)
    BY <2>3, <2>4, OverStays DEF Keeps
  <2> QED BY <2>3, <2>4, <2>5 DEF Fits, y
<1>3. CASE x.id # 0 /\ recording_observed(x)
  <2> DEFINE c == x.c_known /\ reasons \subseteq {"split"}
             z == [x EXCEPT !.c_known = c, !.s_known = FALSE]
             v == [z EXCEPT !.pend = FALSE]
  <2>1. y = [v EXCEPT !.pend_rt = FALSE, !.dirty = FALSE]
    BY <1>3 DEF invalidate
  <2>2. c \in BOOLEAN /\ (c => x.c_known)
    BY DEF Lists
  <2> HIDE DEF c
  <2>3. z \in Lists
    <3>1. "unknown" \in Known
      BY DEF Known
    <3>2. c \in BOOLEAN
      BY <2>2
    <3> QED BY <3>1, <3>2, ProofTypes
  <2>4. z.c_known = c /\ Keeps(x, z) /\ z.om = x.om /\ z.q_known = x.q_known /\ z.open = x.open /\ z.seen = x.seen
        /\ z.pending = x.pending /\ z.ready_mode = x.ready_mode
    BY <2>3 DEF Keeps, Later, Lists
  <2> HIDE DEF z
  <2>5. v \in Lists
    BY <2>3, StagingTypes
  <2>6. v.c_known = z.c_known /\ Keeps(z, v) /\ v.om = z.om /\ v.q_known = z.q_known /\ v.open = z.open
        /\ v.seen = z.seen /\ v.pending = z.pending /\ v.ready_mode = z.ready_mode
    BY <2>3, <2>5 DEF Keeps, Later, Lists
  <2> HIDE DEF v, y
  <2>7. y \in Lists
    BY <2>1, <2>5, StagingTypes
  <2>8. y.c_known = v.c_known /\ Keeps(v, y) /\ y.om = v.om /\ y.q_known = v.q_known /\ y.open = v.open
        /\ y.seen = v.seen /\ y.pending = v.pending /\ y.ready_mode = v.ready_mode /\ ~y.dirty /\ ~y.pend_rt
    BY <2>1, <2>5, <2>7 DEF Keeps, Later, Lists
  <2>9. Keeps(x, y)
    BY <2>4, <2>6, <2>8, KeepsOn
  <2>10. ProofsFit(x, n) => ProofsFit(y, n) /\ DrawnFits(y, n)
    BY <2>2, <2>4, <2>6, <2>8 DEF ProofsFit, DrawnFits
  <2> QED BY <2>4, <2>6, <2>8, <2>9, <2>10, OverStays DEF Fits, Keeps, y
<1> QED BY <1>1, <1>2, <1>3
-----------------------------------------------------------------------------
(* The callback of a pass: the scope is active, so nothing is added.       *)
LEMMA PassEffect ==
  ASSUME NEW x \in Lists, NEW s \in Scopes, NEW n \in Apps, NEW reasons, NEW works \in BOOLEAN,
         reasons # {}, x.ready => x.id # 0, s.generation = x.id, s.active \/ ~x.ready,
         Fits(x, s, n), x.ready => n.native = "recording"
  PROVE  Keeps(x, invalidate(x, s, reasons, works)) /\ Fits(invalidate(x, s, reasons, works), s, n)
<1> DEFINE y == invalidate(x, s, reasons, works)
<1>1. CASE reasons # {"pass_begin"}
  BY <1>1, DoubtEffect DEF Fits
<1>2. CASE reasons = {"pass_begin"} /\ (x.id = 0 \/ ~recording_observed(x))
  <2>1. y = x \/ y = [x EXCEPT !.s_known = @ /\ TRUE]
    BY <1>2 DEF invalidate
  <2>2. [x EXCEPT !.s_known = @ /\ TRUE] \in Lists
    <3>1. "unknown" \in Known /\ (x.s_known /\ TRUE) \in BOOLEAN
      BY DEF Known, Lists
    <3> QED BY <3>1, ProofTypes
  <2> HIDE DEF y
  <2>3. Keeps(x, y)
    BY <2>1, <2>2 DEF Keeps, Later, Lists
  <2>4. Over(x, s)
    BY <1>2 DEF Over
  <2> QED BY <2>3, <2>4, OverStays DEF Fits, Keeps, y
<1>3. CASE reasons = {"pass_begin"} /\ x.id # 0 /\ recording_observed(x)
  <2> DEFINE c == x.c_known /\ FALSE
             d == x.s_known /\ TRUE
             z == [x EXCEPT !.c_known = c, !.s_known = d]
             v == flush_pfd(z, s, works)
  <2>0. c \in BOOLEAN /\ d \in BOOLEAN /\ ~c /\ (d => x.s_known)
    BY DEF Lists
  <2>1. y = [v EXCEPT !.pend_rt = FALSE, !.dirty = FALSE]
    <3>1. ~(reasons \subseteq {"split"}) /\ "pass_begin" # "split"
      BY <1>3
    <3> QED BY <1>3, <3>1, Zenon DEF invalidate
  <2>2. z \in Lists
    <3> HIDE DEF c, d
    <3>1. "unknown" \in Known
      BY DEF Known
    <3> QED BY <2>0, <3>1, ProofTypes
  <2> HIDE DEF c, d
  <2>3. /\ Keeps(x, z) /\ z.om = x.om /\ z.q_known = x.q_known /\ z.open = x.open /\ ~z.c_known
        /\ z.dirty = x.dirty /\ z.transition = x.transition /\ z.pend_rt = x.pend_rt
    BY <2>0, <2>2 DEF Keeps, Later, Lists
  <2>4. Fits(z, s, n) /\ (z.ready => n.native = "recording")
    BY <2>3, OverStays DEF Fits, ProofsFit, DrawnFits, Keeps, Later
  <2> HIDE DEF z
  <2>5. Adds(z, v, s, n)
    BY <2>2, <2>4, FlushEffect
  <2>6. Keeps(z, v) /\ Fits(v, s, n)
    <3>1. s.active => ~same_safe(s)
      BY DEF same_safe
    <3>2. CASE s.active
      BY <2>5, <3>1, <3>2 DEF Adds, Keeps
    <3>3. CASE ~x.ready
      <4>1. ~z.ready /\ v = z
        BY <2>3, <3>3 DEF Keeps, Later, flush_pfd, stage_pfd, drain_pfds
      <4> QED BY <2>2, <2>4, <4>1, KeepsItself
    <3> QED BY <3>2, <3>3
  <2> HIDE DEF v, y
  <2>7. v \in Lists
    BY <2>6 DEF Keeps, Later
  <2>8. y \in Lists
    BY <2>1, <2>7, StagingTypes
  <2>9. Keeps(v, y) /\ (Fits(v, s, n) => Fits(y, s, n))
    <3>1. Keeps(v, y)
      BY <2>1, <2>7, <2>8 DEF Keeps, Later, Lists
    <3>2. y.om = v.om /\ y.q_known = v.q_known /\ y.open = v.open /\ y.c_known = v.c_known /\ y.seen = v.seen
          /\ y.pending = v.pending /\ y.ready_mode = v.ready_mode /\ ~y.dirty /\ ~y.pend_rt
      BY <2>1, <2>7 DEF Lists
    <3> QED BY <3>1, <3>2, OverStays DEF Fits, ProofsFit, DrawnFits, Keeps
  <2> QED BY <2>3, <2>6, <2>9, KeepsOn DEF y
<1> QED BY <1>1, <1>2, <1>3

(* Targets::record, after which the targets are those of the application.  *)
LEMMA BoundEffect ==
  ASSUME NEW x \in Lists, NEW display \in BOOLEAN, NEW known \in BOOLEAN, NEW snap \in BOOLEAN
  PROVE  LET y == Bound(x, display, known, snap)
         IN  /\ Keeps(x, y)
             /\ \A n, m : /\ ProofsFit(x, n) /\ DrawnFits(x, n)
                          /\ m.bound = display /\ m.q = n.q /\ m.display = n.display
                          => ProofsFit(y, m) /\ DrawnFits(y, m)
<1> DEFINE y == Bound(x, display, known, snap)
           o == IF ~(display /\ known) THEN "off"
                ELSE IF snap /\ (x.pend_rt \/ mask # "off") /\ recording_observed(x) THEN "snapshot" ELSE "bound"
<1>1. y = [x EXCEPT !.dirty = FALSE, !.transition = FALSE, !.om = o]
  BY DEF Bound
<1>2. o \in {"off", "bound", "snapshot"} /\ (o # "off" => display)
  OBVIOUS
<1> HIDE DEF y, o
<1>3. y \in Lists
  <2>1. FALSE \in BOOLEAN /\ "partial" \in {"partial", "complete", "invalid"}
    OBVIOUS
  <2> QED BY <1>1, <1>2, <2>1, RecordTypes
<1>4. y.om = o /\ ~y.dirty /\ y.pend_rt = x.pend_rt /\ y.q_known = x.q_known /\ y.open = x.open /\ y.c_known = x.c_known
      /\ y.seen = x.seen /\ y.pending = x.pending /\ y.ready_mode = x.ready_mode /\ Keeps(x, y)
  BY <1>1, <1>3 DEF Keeps, Later, Lists
<1> QED BY <1>2, <1>4 DEF ProofsFit, DrawnFits, y

(* The query scope counts as the application does.                         *)
LEMMA QueryEffect ==
  ASSUME NEW x \in Lists, NEW n \in Apps, NEW m, m.bound = n.bound, m.display = n.display
  PROVE  /\ Keeps(x, query_begin(x)) /\ Keeps(x, query_end(x))
         /\ ProofsFit(x, n) /\ DrawnFits(x, n) /\ n.q = 0 /\ m.q = 1 =>
              ProofsFit(query_begin(x), m) /\ DrawnFits(query_begin(x), m)
         /\ ProofsFit(x, n) /\ DrawnFits(x, n) /\ n.q = 1 /\ m.q = 0 =>
              ProofsFit(query_end(x), m) /\ DrawnFits(query_end(x), m)
<1>0. "unknown" \in Known
  BY DEF Known
<1>1. ASSUME NEW o \in {0, 1}, NEW y, y = [x EXCEPT !.open = o]
      PROVE  /\ Keeps(x, y) /\ y.open = o
             /\ ProofsFit(x, n) /\ DrawnFits(x, n) /\ m.q = o => ProofsFit(y, m) /\ DrawnFits(y, m)
  <2>1. y \in Lists
    BY <1>0, <1>1, ProofTypes
  <2>2. Keeps(x, y) /\ y.open = o
    BY <1>1, <2>1 DEF Keeps, Later, Lists
  <2>3. y.om = x.om /\ y.dirty = x.dirty /\ y.transition = x.transition /\ y.pend_rt = x.pend_rt /\ y.c_known = x.c_known
        /\ y.seen = x.seen /\ y.pending = x.pending /\ y.ready_mode = x.ready_mode
    BY <1>1 DEF Lists
  <2> QED BY <2>2, <2>3 DEF ProofsFit, DrawnFits
<1>2. ASSUME NEW y, y = [x EXCEPT !.q_known = FALSE]
      PROVE  Keeps(x, y) /\ (ProofsFit(x, n) /\ DrawnFits(x, n) => ProofsFit(y, m) /\ DrawnFits(y, m))
  <2>1. y \in Lists
    BY <1>0, <1>2, ProofTypes
  <2>2. Keeps(x, y) /\ ~y.q_known
    BY <1>2, <2>1 DEF Keeps, Later, Lists
  <2>3. y.om = x.om /\ y.dirty = x.dirty /\ y.transition = x.transition /\ y.pend_rt = x.pend_rt /\ y.c_known = x.c_known
        /\ y.seen = x.seen /\ y.pending = x.pending /\ y.ready_mode = x.ready_mode
    BY <1>2 DEF Lists
  <2> QED BY <2>2, <2>3 DEF ProofsFit, DrawnFits
<1>3. query_begin(x) = [x EXCEPT !.open = 1] \/ query_begin(x) = [x EXCEPT !.q_known = FALSE]
  BY DEF query_begin
<1>4. query_end(x) = [x EXCEPT !.open = 0] \/ query_end(x) = [x EXCEPT !.q_known = FALSE]
  BY DEF query_end
<1> QED BY <1>1, <1>2, <1>3, <1>4
-----------------------------------------------------------------------------
(* What a recorded call leaves: the invariant holds again when the call's  *)
(* own part of it does.                                                    *)
Recorded(x, s, n, w) ==
  /\ x \in Lists /\ s \in Scopes /\ n \in Apps
  /\ x.id = list.id /\ x.epoch = list.epoch /\ (x.s_known => list.s_known) /\ s.generation = scope.generation
  /\ x.ready => list.ready /\ ~x.closing /\ n.native = "recording"
  /\ x.closed => list.id # 0 /\ n.native = "closed"
  /\ n.native # "none" /\ n.begun = now.begun
  /\ Fits(x, s, n) /\ AllGood(x, w)

(* Any such call keeps the invariant.                                      *)
LEMMA RecordsKeep ==
  ASSUME IInv, ~resetting, NEW x, NEW s, NEW n, NEW w, Recorded(x, s, n, w), Records(x, s, n, w),
         UNCHANGED <<control, native, last_id>>, enabled' \in BOOLEAN
  PROVE  IInv'
<1>0. /\ Types /\ NumbersFit /\ NativeFits /\ BegunFits
      /\ enabled' \in BOOLEAN /\ epoch' = epoch /\ floor' = floor /\ mask' = mask /\ session' = session
      /\ changes' = changes /\ resetting' = resetting /\ sampled' = sampled /\ last_id' = last_id
  BY DEF IInv, control, native
<1>1. /\ list' \in Lists /\ list'.id = x.id /\ list'.epoch = x.epoch /\ list'.ready = x.ready
      /\ list'.closing = x.closing /\ list'.closed = x.closed /\ list'.s_known = x.s_known /\ list'.adds = {}
      /\ scope' \in Scopes /\ scope'.generation = s.generation
      /\ now' \in Apps /\ now'.native = n.native /\ now'.begun = n.begun
      /\ Fits(list, scope, now)'
  <2>1. CASE Over(x, s)
    <3> DEFINE y == [NoList EXCEPT !.id = x.id, !.epoch = x.epoch, !.ready = x.ready, !.closing = x.closing,
                                   !.closed = x.closed, !.s_known = x.s_known]
    <3>1. /\ list' = [y EXCEPT !.adds = {}]
          /\ scope' = IF s.invalid THEN [NoScope EXCEPT !.generation = s.generation, !.invalid = TRUE] ELSE s
          /\ now' = [Fresh("away", "free") EXCEPT !.native = n.native, !.gap = TRUE, !.begun = n.begun]
      BY <2>1 DEF Records, Settled
    <3>2. x \in Lists
      BY DEF Recorded
    <3>3. y \in Lists
      BY <3>2, ListRenewed
    <3>4. [y EXCEPT !.adds = {}] \in Lists
      <4> HIDE DEF y
      <4>1. {} \in SUBSET Work /\ FALSE \in BOOLEAN
        OBVIOUS
      <4> QED BY <3>3, <4>1, StagingTypes
    <3>5. /\ list'.id = x.id /\ list'.epoch = x.epoch /\ list'.ready = x.ready /\ list'.closing = x.closing
          /\ list'.closed = x.closed /\ list'.s_known = x.s_known /\ list'.adds = {}
      BY <3>1 DEF NoList
    <3>6. scope' \in Scopes /\ scope'.generation = s.generation /\ scope'.invalid = s.invalid
      BY <3>1 DEF NoScope, Scopes, Recorded
    <3>7. now' \in Apps /\ now'.native = n.native /\ now'.begun = n.begun
      BY <3>1 DEF Fresh, Apps, Displays, Recorded
    <3>8. Over(list, scope)'
      BY <1>0, <2>1, <3>5, <3>6 DEF Over, recording_observed, Observing
    <3> HIDE DEF y
    <3> QED BY <3>1, <3>4, <3>5, <3>6, <3>7, <3>8 DEF Fits
  <2>2. CASE ~Over(x, s)
    <3>1. list' = [x EXCEPT !.adds = {}] /\ scope' = s /\ now' = n
      BY <2>2 DEF Records, Settled, Over
    <3>2. list' \in Lists
      <4>1. {} \in SUBSET Work /\ FALSE \in BOOLEAN
        OBVIOUS
      <4> QED BY <3>1, <4>1, StagingTypes DEF Recorded
    <3>3. /\ list'.id = x.id /\ list'.epoch = x.epoch /\ list'.ready = x.ready /\ list'.closing = x.closing
          /\ list'.closed = x.closed /\ list'.s_known = x.s_known /\ list'.adds = {}
          /\ list'.om = x.om /\ list'.dirty = x.dirty /\ list'.transition = x.transition /\ list'.pend_rt = x.pend_rt
          /\ list'.q_known = x.q_known /\ list'.open = x.open /\ list'.c_known = x.c_known /\ list'.seen = x.seen
          /\ list'.pending = x.pending /\ list'.ready_mode = x.ready_mode
      BY <3>1 DEF Recorded, Lists
    <3>4. Fits(list, scope, now)'
      BY <2>2, <3>1, <3>3 DEF Recorded, Fits, ScopeFits, ProofsFit, DrawnFits
    <3> QED BY <3>1, <3>2, <3>3, <3>4 DEF Recorded
  <2> QED BY <2>1, <2>2
<1>2. Types' /\ NumbersFit' /\ NativeFits'
  <2>1. planned' = "no"
    BY DEF Records
  <2> QED BY <1>0, <1>1, <2>1 DEF Types, NumbersFit, NativeFits, Recorded
<1>3. BegunFits'
  BY <1>0, <1>1 DEF BegunFits, Recorded
<1>4. AddsFitTheRecording' /\ AddsAreObserved'
  BY DEF Records, Recorded, AllGood, Good, AddsFitTheRecording, AddsAreObserved
<1>5. PlansAreCurrent' /\ SealedIsClosed'
  BY <1>1 DEF Records, Recorded, PlansAreCurrent, SealedIsClosed
<1> QED BY <1>1, <1>2, <1>3, <1>4, <1>5 DEF IInv

(* A call on an open list, which stays one.                                *)
LEMMA CallsKeep ==
  ASSUME IInv, Open, NEW x, NEW s \in Scopes, NEW n \in Apps, NEW w,
         Later(list, x), s.generation = scope.generation, n.native = now.native, n.begun = now.begun,
         Fits(x, s, n), AllGood(x, w), Records(x, s, n, w),
         UNCHANGED <<control, native, last_id>>, enabled' \in BOOLEAN
  PROVE  IInv'
<1>1. Recorded(x, s, n, w)
  BY DEF Recorded, Later, IInv, NativeFits, SealedIsClosed, Open
<1> QED BY <1>1, RecordsKeep DEF Open

(* A call that went by unobserved matters only to recordings that are      *)
(* over.                                                                   *)
LEMMA GapEffect ==
  ASSUME NEW n \in Apps
  PROVE  /\ Gap(n) \in Apps
         /\ Gap(n).native = n.native /\ Gap(n).display = n.display /\ Gap(n).pass = n.pass /\ Gap(n).hold = n.hold
         /\ Gap(n).q = n.q /\ Gap(n).bound = n.bound /\ Gap(n).begun = n.begun /\ Gap(n).blind = n.blind
         /\ Observing => Gap(n).gap = n.gap
         /\ \A x, s : Fits(x, s, n) => Fits(x, s, Gap(n))
<1>1. Gap(n) \in Apps
  <2> DEFINE b == n.gap \/ ~Observing
  <2>1. Gap(n) = [n EXCEPT !.gap = b] /\ b \in BOOLEAN
    BY DEF Gap, Apps
  <2>2. \A c \in BOOLEAN : [n EXCEPT !.gap = c] \in Apps
    BY Zenon DEF Apps
  <2> HIDE DEF b
  <2> QED BY <2>1, <2>2
<1>2. /\ Gap(n).native = n.native /\ Gap(n).display = n.display /\ Gap(n).pass = n.pass /\ Gap(n).hold = n.hold
      /\ Gap(n).q = n.q /\ Gap(n).bound = n.bound /\ Gap(n).begun = n.begun /\ Gap(n).blind = n.blind
      /\ Observing => Gap(n).gap = n.gap
  BY DEF Gap, Apps
<1>3. ASSUME NEW x, NEW s, Fits(x, s, n) PROVE Fits(x, s, Gap(n))
  <2>1. ~Over(x, s) => Observing
    BY DEF Over, recording_observed
  <2> QED BY <1>2, <1>3, <2>1 DEF Fits, ScopeFits, ProofsFit, DrawnFits
<1> QED BY <1>1, <1>2, <1>3

(* Work outside passes lets the scope know that no pass is suspended.      *)
LEMMA WorkEffect ==
  ASSUME NEW s \in Scopes, NEW n \in Apps
  PROVE  /\ observe_work(s) \in Scopes /\ observe_work(s).generation = s.generation
         /\ observe_work(s).invalid = s.invalid
         /\ ScopeFits(s, n) /\ (n.hold # "suspended" \/ n.pass # "none") => ScopeFits(observe_work(s), n)
BY DEF observe_work, Scopes, ScopeFits, Apps

(* The boundary's doubts of the scope, by themselves.                      *)
LEMMA ScopeDoubts ==
  ASSUME IInv, NEW works \in BOOLEAN
  PROVE  LET y == invalidate(list, scope, scope_invalidation(scope), works)
         IN  Keeps(list, y) /\ Fits(y, scope, now)
<1>1. CASE scope_invalidation(scope) = {}
  <2>1. invalidate(list, scope, scope_invalidation(scope), works) = list
    BY <1>1 DEF invalidate
  <2> QED BY <2>1, KeepsItself DEF IInv, Types
<1>2. CASE scope_invalidation(scope) # {}
  <2>1. scope_invalidation(scope) # {"pass_begin"}
    <3>1. "pass_begin" \notin scope_invalidation(scope)
      BY DEF scope_invalidation
    <3> QED BY <3>1
  <2> QED BY <1>2, <2>1, DoubtEffect DEF IInv, Types, NumbersFit, NativeFits, Fits
<1> QED BY <1>1, <1>2

(* draw, with after_draw.                                                  *)
LEMMA DrawKeeps ==
  ASSUME IInv, NEW works \in BOOLEAN, draw(works)
  PROVE  IInv'
<1> DEFINE y == invalidate(list, scope, scope_invalidation(scope), works)
           allowed == enabled /\ ~scope.active /\ ~scope.suspended /\ ~scope.invalid
           z == IF y.om = "off" THEN y ELSE IF allowed THEN proof_draw(y) ELSE [y EXCEPT !.c_known = FALSE]
           marked == allowed /\ y.om # "off"
           shown == IF scope.generation # list.id \/ list.id = 0 \/ ~y.ready \/ ~recording_observed(y) THEN y
                    ELSE [z EXCEPT !.dirty = marked, !.transition = FALSE]
<1>1. Records(shown, observe_work(scope), Gap(now), now) /\ Open /\ Free /\ (now.bound => now.display \in Render)
      /\ UNCHANGED <<enabled, control, native, last_id>>
  BY Zenon DEF draw
<1>2. Keeps(list, y) /\ Fits(y, scope, now)
  BY ScopeDoubts
<1>3. marked \in BOOLEAN /\ y.om \in {"off", "bound", "snapshot"}
  BY <1>2 DEF Keeps, Later, Lists
<1> HIDE DEF y, marked
<1>4. Keeps(y, z) /\ z.om = y.om /\ (ProofsFit(y, now) => ProofsFit(z, now))
  <2>0. y \in Lists /\ "unknown" \in Known
    BY <1>2 DEF Keeps, Later, Known
  <2>1. CASE y.om = "off"
    BY <2>0, <2>1, KeepsItself
  <2>2. CASE y.om # "off" /\ allowed
    BY <2>0, <2>2, ProofDrawEffect
  <2>3. CASE y.om # "off" /\ ~allowed
    <3>1. z = [y EXCEPT !.c_known = FALSE]
      BY <2>3
    <3>2. z \in Lists
      BY <2>0, <3>1, ProofTypes
    <3> HIDE DEF z
    <3> QED BY <2>0, <3>1, <3>2 DEF Keeps, Later, Lists, ProofsFit
  <2> QED BY <2>1, <2>2, <2>3
<1> HIDE DEF z
<1>5. Keeps(y, shown) /\ Fits(shown, scope, now)
  <2>0. z \in Lists /\ y \in Lists
    BY <1>2, <1>4 DEF Keeps, Later
  <2>1. CASE shown = y
    BY <1>2, <2>0, <2>1, KeepsItself
  <2>2. CASE shown = [z EXCEPT !.dirty = marked, !.transition = FALSE]
    <3> HIDE DEF shown
    <3>1. shown \in Lists
      BY <1>3, <2>0, <2>2, StagingTypes
    <3>2. Keeps(z, shown) /\ shown.om = z.om /\ shown.dirty = marked /\ shown.pend_rt = z.pend_rt
          /\ shown.q_known = z.q_known /\ shown.open = z.open /\ shown.c_known = z.c_known /\ shown.seen = z.seen
          /\ shown.pending = z.pending /\ shown.ready_mode = z.ready_mode
      BY <2>0, <2>2, <3>1 DEF Keeps, Later, Lists
    <3>3. z.pend_rt = y.pend_rt
      BY <2>0 DEF z, proof_draw, Lists
    <3>4. marked => y.om # "off"
      BY DEF marked
    <3>5. Keeps(y, shown)
      BY <1>4, <3>2, KeepsOn
    <3>6. ProofsFit(y, now) /\ DrawnFits(y, now) => ProofsFit(shown, now) /\ DrawnFits(shown, now)
      BY <1>1, <1>4, <3>2, <3>3, <3>4 DEF ProofsFit, DrawnFits
    <3> QED BY <1>2, <3>5, <3>6, OverStays DEF Fits, Keeps
  <2> QED BY <2>1, <2>2
<1> HIDE DEF shown
<1>6. scope \in Scopes /\ now \in Apps /\ list.adds = {}
  BY DEF IInv, Types
<1>7. Fits(shown, observe_work(scope), now)
  BY <1>1, <1>5, <1>6, WorkEffect DEF Fits, Over, Free
<1>8. Fits(shown, observe_work(scope), Gap(now))
  BY <1>6, <1>7, GapEffect
<1>9. Later(list, shown) /\ AllGood(shown, now)
  BY <1>2, <1>5, <1>6, KeepsOn DEF Keeps, AllGood
<1>10. enabled' \in BOOLEAN /\ UNCHANGED <<control, native, last_id>>
  BY <1>1 DEF IInv, Types
<1> QED BY <1>1, <1>6, <1>8, <1>9, <1>10, GapEffect, WorkEffect, CallsKeep

(* Before the display leaves the render-target state: m is the application *)
(* after the call.                                                         *)
LEMMA CopyPendingEffect ==
  ASSUME NEW x \in Lists, NEW s \in Scopes, NEW m \in Apps, NEW api \in Modes, NEW works \in BOOLEAN,
         Fits(x, s, m), x.adds = {}, x.ready => m.native = "recording", same_safe(s),
         ~Over(x, s) => (x.dirty => x.transition)
  PROVE  LET y == copy_pending_pfd(x, s, api, works)
         IN  /\ Later(x, y) /\ Fits(y, s, m)
             /\ \A a \in y.adds : a = <<"copy", api>> /\ ~Over(x, s)
<1> DEFINE v == stage_pfd(x, s)
           y == copy_pending_pfd(x, s, api, works)
           c == IF mask = "camera" /\ works THEN {<<"copy", api>>} ELSE {}
           live == v.id # 0 /\ v.ready /\ recording_observed(v) /\ same_safe(s)
<1>1. Adds(x, v, s, m) /\ v.adds = {}
  BY StageEffect
<1>2. v \in Lists
  BY <1>1 DEF Adds, Later
<1>3. CASE ~Observing \/ mask = "off"
  <2>1. y = x
    BY <1>3 DEF copy_pending_pfd
  <2> QED BY <2>1, LaterItself
<1>4. CASE ~(~Observing \/ mask = "off") /\ ~live
  <2>1. y = v
    BY <1>4 DEF copy_pending_pfd
  <2> QED BY <1>1, <2>1 DEF Adds
<1>5. CASE ~(~Observing \/ mask = "off") /\ live
  <2> HIDE DEF v
  <2>1. y = [v EXCEPT !.pend = FALSE, !.pend_rt = FALSE, !.adds = c]
    <3>1. y = [v EXCEPT !.pend = FALSE, !.pend_rt = FALSE,
                        !.adds = IF mask = "camera" /\ works THEN v.adds \cup {<<"copy", api>>} ELSE v.adds]
      BY <1>5, Zenon DEF copy_pending_pfd, v
    <3>2. (IF mask = "camera" /\ works THEN v.adds \cup {<<"copy", api>>} ELSE v.adds) = c
      BY <1>1
    <3> QED BY <3>1, <3>2
  <2>2. c \in SUBSET Work /\ (\A a \in c : a = <<"copy", api>>)
    BY DEF Work
  <2> HIDE DEF c, y
  <2>3. y \in Lists
    <3>1. FALSE \in BOOLEAN
      OBVIOUS
    <3> QED BY <1>2, <2>1, <2>2, <3>1, StagingTypes
  <2>4. /\ Later(v, y) /\ y.adds = c /\ ~y.pend_rt /\ y.om = v.om /\ y.dirty = v.dirty /\ y.transition = v.transition
        /\ y.q_known = v.q_known /\ y.open = v.open /\ y.c_known = v.c_known /\ y.seen = v.seen
        /\ y.pending = v.pending /\ y.ready_mode = v.ready_mode
    BY <1>2, <2>1, <2>3 DEF Later, Lists
  <2>5. Fits(y, s, m)
    BY <1>1, <2>4, OverStays DEF Adds, Fits, ProofsFit, DrawnFits
  <2>6. ~Over(x, s)
    <3>1. ~Over(v, s)
      BY <1>5 DEF Over, same_safe
    <3> QED BY <1>1, <3>1, OverStays DEF Adds
  <2> QED BY <1>1, <2>2, <2>4, <2>5, <2>6, LaterOn DEF Adds, y
<1> QED BY <1>3, <1>4, <1>5

(* Where a barrier takes the display.                                      *)
LEMMA MoveType ==
  \A n \in Apps, d \in Displays : [n EXCEPT !.display = d] \in Apps
BY Zenon DEF Apps

LEMMA StepTypes ==
  \A d \in Displays, api \in Modes, b \in Elements :
    Steps(d, api, b) # "invalid" => Steps(d, api, b) \in Displays
BY DEF Steps, Displays, Modes, Elements, RT

(* The metadata of all barriers of a call, before the boundary's doubts.   *)
LEMMA BatchEffect ==
  ASSUME IInv, NEW api \in Modes, NEW steps \in Batches, NEW m,
         After(now.display, api, steps) # "invalid", m = [now EXCEPT !.display = After(now.display, api, steps)]
  PROVE  LET l == [list EXCEPT !.s_known = @ /\ api = "legacy"]
             a == IF scope.generation = 0 THEN list ELSE observe_barrier(l, scope, api, steps[1])
             b == IF scope.generation = 0 \/ Len(steps) = 1 THEN a ELSE observe_barrier(a, scope, api, steps[2])
         IN  /\ Keeps(list, b) /\ m \in Apps
             /\ ~Over(list, scope) => ScopeFits(scope, m) /\ ProofsFit(b, m)
             /\ ~Over(list, scope) /\ "alias" \notin {steps[k] : k \in DOMAIN steps} =>
                  DrawnFits(b, m) /\ (b.dirty => b.transition)
<1> DEFINE l == [list EXCEPT !.s_known = @ /\ api = "legacy"]
           a == IF scope.generation = 0 THEN list ELSE observe_barrier(l, scope, api, steps[1])
           b == IF scope.generation = 0 \/ Len(steps) = 1 THEN a ELSE observe_barrier(a, scope, api, steps[2])
           first == Steps(now.display, api, steps[1])
           aliased == "alias" \in {steps[k] : k \in DOMAIN steps}
<1> SUFFICES /\ Keeps(list, b) /\ m \in Apps
             /\ ~Over(list, scope) => ScopeFits(scope, m) /\ ProofsFit(b, m)
             /\ ~Over(list, scope) /\ ~aliased => DrawnFits(b, m) /\ (b.dirty => b.transition)
  OBVIOUS
<1>t. list \in Lists /\ scope \in Scopes /\ now \in Apps /\ now.display \in Displays
  BY DEF IInv, Types, Apps
<1>1. \/ \E e \in Elements : steps = <<e>>
      \/ steps = <<"exit", "entry">> \/ steps = <<"entry", "exit">> \/ steps = <<"alias", "exit">>
  BY DEF Batches
<1>2. Len(steps) \in {1, 2} /\ steps[1] \in Elements /\ (Len(steps) = 2 => steps[2] \in Elements)
      /\ {steps[k] : k \in DOMAIN steps} = IF Len(steps) = 1 THEN {steps[1]} ELSE {steps[1], steps[2]}
  <2>1. ASSUME NEW e, steps = <<e>> PROVE Len(steps) = 1 /\ steps[1] = e /\ {steps[k] : k \in DOMAIN steps} = {e}
    BY <2>1
  <2>2. ASSUME NEW e, NEW f, steps = <<e, f>>
        PROVE  Len(steps) = 2 /\ steps[1] = e /\ steps[2] = f /\ {steps[k] : k \in DOMAIN steps} = {e, f}
    BY <2>2
  <2>3. ASSUME NEW e \in Elements, steps = <<e>>
        PROVE  Len(steps) \in {1, 2} /\ steps[1] \in Elements /\ (Len(steps) = 2 => steps[2] \in Elements)
               /\ {steps[k] : k \in DOMAIN steps} = IF Len(steps) = 1 THEN {steps[1]} ELSE {steps[1], steps[2]}
    BY <2>1, <2>3
  <2>4. ASSUME NEW e \in Elements, NEW f \in Elements, steps = <<e, f>>
        PROVE  Len(steps) \in {1, 2} /\ steps[1] \in Elements /\ (Len(steps) = 2 => steps[2] \in Elements)
               /\ {steps[k] : k \in DOMAIN steps} = IF Len(steps) = 1 THEN {steps[1]} ELSE {steps[1], steps[2]}
    BY <2>2, <2>4
  <2>5. "exit" \in Elements /\ "entry" \in Elements /\ "alias" \in Elements
    BY DEF Elements
  <2> QED BY <1>1, <2>3, <2>4, <2>5
<1>a. aliased <=> steps[1] = "alias" \/ (Len(steps) = 2 /\ steps[2] = "alias")
  BY <1>2
<1> HIDE DEF aliased
<1>3. first # "invalid" /\ first \in Displays
  <2>1. first # "invalid"
    BY DEF After
  <2> QED BY <1>t, <1>2, <2>1, StepTypes
<1>4. After(now.display, api, steps) = IF Len(steps) = 1 THEN first ELSE Steps(first, api, steps[2])
  BY <1>3 DEF After
<1>5. Len(steps) = 2 => steps[1] # "alias"
  <2>1. steps # <<"alias", "exit">>
    <3>1. ASSUME steps = <<"alias", "exit">> PROVE FALSE
      <4>1. steps[1] = "alias" /\ steps[2] = "exit" /\ Len(steps) = 2
        BY <3>1
      <4>2. first = "away" /\ Steps("away", api, "exit") = "invalid"
        BY <4>1 DEF Steps, RT, Modes
      <4> QED BY <1>4, <4>1, <4>2
    <3> QED BY <3>1
  <2>2. ASSUME NEW e, steps = <<e>> PROVE Len(steps) = 1
    BY <2>2
  <2>3. ASSUME NEW e, NEW f, steps = <<e, f>> PROVE steps[1] = e
    BY <2>3
  <2> QED BY <1>1, <2>1, <2>2, <2>3
<1>6. After(now.display, api, steps) \in Displays
  BY <1>2, <1>3, <1>4, StepTypes
<1>7. m \in Apps
  BY <1>t, <1>6, MoveType
<1>8. m.display = After(now.display, api, steps) /\ m.bound = now.bound /\ m.q = now.q /\ (ScopeFits(scope, now) => ScopeFits(scope, m))
  BY <1>t DEF Apps, ScopeFits
<1>9. CASE scope.generation = 0
  <2>1. Over(list, scope) /\ b = list
    BY <1>9 DEF IInv, NativeFits, NumbersFit, Over
  <2> QED BY <1>t, <1>7, <2>1, KeepsItself
<1>10. CASE scope.generation # 0
  <2> DEFINE d == list.s_known /\ api = "legacy"
  <2>1. d \in BOOLEAN /\ l = [list EXCEPT !.s_known = d]
    BY <1>t DEF Lists
  <2> HIDE DEF d, l
  <2>2. l \in Lists
    <3>1. "unknown" \in Known
      BY DEF Known
    <3> QED BY <1>t, <2>1, <3>1, ProofTypes
  <2>3. Keeps(list, l) /\ (~Over(list, scope) => ScopeFits(scope, now) /\ ProofsFit(l, now)) /\ (l.ready => l.id # 0)
    <3>1. d => list.s_known
      BY DEF d
    <3>2. Keeps(list, l)
      BY <1>t, <2>1, <2>2, <3>1 DEF Keeps, Later, Lists
    <3>3. ProofsFit(list, now) => ProofsFit(l, now)
      BY <1>t, <2>1 DEF ProofsFit, Lists
    <3> QED BY <3>2, <3>3 DEF IInv, Fits, NativeFits, Keeps, Later
  <2>4. Over(l, scope) <=> Over(list, scope)
    BY <2>3, OverStays DEF Keeps
  <2>5. a = observe_barrier(l, scope, api, steps[1])
    BY <1>10
  <2> HIDE DEF a
  <2>6. ASSUME NEW n1, n1 = [now EXCEPT !.display = first]
        PROVE  /\ Keeps(l, a) /\ (~Over(list, scope) => ProofsFit(a, n1))
               /\ ~Over(list, scope) /\ steps[1] # "alias" => DrawnFits(a, n1) /\ (a.dirty => a.transition)
    <3>1. n1.bound = now.bound /\ n1.q = now.q /\ n1.display = first
      BY <1>t, <2>6 DEF Apps
    <3> HIDE DEF first
    <3>2. n1.display = Steps(now.display, api, steps[1])
      BY <3>1 DEF first
    <3> QED BY <1>t, <1>2, <1>3, <2>2, <2>3, <2>4, <2>5, <3>1, <3>2, BarrierEffect
  <2>7. CASE Len(steps) = 1
    <3>1. b = a /\ m = [now EXCEPT !.display = first]
      BY <1>4, <2>7
    <3> HIDE DEF first
    <3>2. Keeps(list, b)
      BY <2>3, <2>6, <3>1, KeepsOn
    <3> QED BY <1>a, <1>7, <1>8, <2>3, <2>6, <2>7, <3>1, <3>2
  <2>8. CASE Len(steps) = 2
    <3> DEFINE n1 == [now EXCEPT !.display = first]
    <3>1. n1 \in Apps /\ n1.display = first /\ n1.bound = now.bound /\ n1.q = now.q
      <4> HIDE DEF first
      <4>1. n1 \in Apps
        BY <1>t, <1>3, MoveType
      <4> QED BY <1>t, <4>1 DEF Apps
    <3>2. Keeps(l, a) /\ (~Over(list, scope) => ProofsFit(a, n1))
      BY <2>6
    <3>3. b = observe_barrier(a, scope, api, steps[2]) /\ m.display = Steps(n1.display, api, steps[2])
      BY <1>4, <1>8, <1>10, <2>8, <3>1
    <3> HIDE DEF b, n1, first
    <3>4. a \in Lists /\ (Over(a, scope) <=> Over(list, scope)) /\ (a.ready => a.id # 0)
      BY <2>3, <2>4, <3>2, OverStays DEF Keeps, Later
    <3>5. /\ Keeps(a, b) /\ (~Over(a, scope) => ProofsFit(b, m))
          /\ ~Over(a, scope) /\ steps[2] # "alias" => DrawnFits(b, m) /\ (b.dirty => b.transition)
      <4>1. m.bound = n1.bound /\ m.q = n1.q /\ m.display # "invalid" /\ steps[2] \in Elements
        BY <1>2, <1>8, <2>8, <3>1
      <4> QED BY <1>t, <3>1, <3>2, <3>3, <3>4, <4>1, BarrierEffect
    <3>6. Keeps(list, b)
      BY <2>3, <3>2, <3>5, KeepsOn
    <3> QED BY <1>a, <1>7, <1>8, <2>3, <2>8, <3>4, <3>5, <3>6
  <2> QED BY <1>2, <2>7, <2>8
<1> QED BY <1>9, <1>10

(* barrier: the copy is added before the call, with the display still      *)
(* where leads found it.                                                   *)
LEMMA BarrierKeeps ==
  ASSUME IInv, NEW api \in Modes, NEW steps \in Batches, NEW works \in BOOLEAN, barrier(api, steps, works)
  PROVE  IInv'
<1> DEFINE m == [now EXCEPT !.display = After(now.display, api, steps)]
           kinds == {steps[k] : k \in DOMAIN steps}
           doubt == scope_invalidation(scope) \cup (IF "alias" \in kinds THEN {"alias"} ELSE {})
                      \cup (IF kinds \cap {"split_exit", "split_entry"} # {} THEN {"split"} ELSE {})
           l == [list EXCEPT !.s_known = @ /\ api = "legacy"]
           a == IF scope.generation = 0 THEN list ELSE observe_barrier(l, scope, api, steps[1])
           b == IF scope.generation = 0 \/ Len(steps) = 1 THEN a ELSE observe_barrier(a, scope, api, steps[2])
           c == invalidate(b, scope, doubt, works)
           x == IF same_safe(scope) /\ leads(steps) THEN copy_pending_pfd(c, scope, api, works) ELSE c
<1>1. /\ Open /\ now.pass = "none" /\ After(now.display, api, steps) # "invalid"
      /\ Records(x, scope, Gap(m), now) /\ UNCHANGED <<enabled, control, native, last_id>>
  BY Zenon DEF barrier
<1>2. /\ Keeps(list, b) /\ m \in Apps
      /\ ~Over(list, scope) => ScopeFits(scope, m) /\ ProofsFit(b, m)
      /\ ~Over(list, scope) /\ "alias" \notin kinds => DrawnFits(b, m) /\ (b.dirty => b.transition)
  BY <1>1, BatchEffect
<1>3. /\ scope \in Scopes /\ now \in Apps /\ list.adds = {} /\ scope.generation = list.id /\ (list.ready => list.id # 0)
      /\ Fits(list, scope, now)
  BY DEF IInv, Types, NumbersFit, NativeFits
<1>4. "alias" \in kinds => doubt # {}
  OBVIOUS
<1>5. doubt # {"pass_begin"}
  <2>1. "pass_begin" \notin doubt
    BY DEF scope_invalidation
  <2> QED BY <2>1
<1>6. m.native = now.native /\ m.begun = now.begun
  BY <1>3 DEF Apps
<1>8. leads(steps) => now.display = RT(api)
  <2>1. leads(steps) => Steps(now.display, api, "exit") # "invalid"
    BY <1>1 DEF leads, After
  <2> QED BY <2>1 DEF Steps
<1> HIDE DEF a, b, doubt, kinds, m
<1>9. Keeps(b, c) /\ Fits(c, scope, m) /\ (~Over(list, scope) => (c.dirty => c.transition))
  <2>1. b \in Lists /\ b.id = list.id /\ b.ready = list.ready /\ (Over(b, scope) <=> Over(list, scope))
    BY <1>2, OverStays DEF Keeps, Later
  <2>2. CASE doubt = {}
    <3>1. c = b
      BY <2>2 DEF invalidate
    <3> QED BY <1>2, <1>4, <2>1, <2>2, <3>1, KeepsItself DEF Fits
  <2>3. CASE doubt # {}
    BY <1>2, <1>3, <1>5, <2>1, <2>3, DoubtEffect
  <2> QED BY <2>2, <2>3
<1> HIDE DEF c
<1>10. c \in Lists /\ c.adds = {} /\ Later(list, c) /\ (c.ready => m.native = "recording")
       /\ (Over(c, scope) <=> Over(list, scope))
  <2>1. Keeps(list, c)
    BY <1>2, <1>9, KeepsOn
  <2> QED BY <1>1, <1>3, <1>6, <2>1, OverStays DEF Keeps, Later, Open
<1>11. Later(list, x) /\ Fits(x, scope, m) /\ AllGood(x, now)
  <2>1. CASE ~(same_safe(scope) /\ leads(steps))
    BY <1>9, <1>10, <2>1 DEF AllGood
  <2>2. CASE same_safe(scope) /\ leads(steps)
    <3> DEFINE y == copy_pending_pfd(c, scope, api, works)
    <3>1. Later(c, y) /\ Fits(y, scope, m) /\ (\A e \in y.adds : e = <<"copy", api>> /\ ~Over(c, scope))
      BY <1>2, <1>3, <1>9, <1>10, <2>2, CopyPendingEffect
    <3>2. x = y
      BY <2>2
    <3>3. ~Over(c, scope) => Good(<<"copy", api>>, now)
      <4>1. ~Over(c, scope) => now.pass = "none" /\ now.hold = "free" /\ ~now.gap
        BY <1>3, <1>10, <2>2, SafePlace
      <4>2. now.native = "recording" /\ now.display = RT(api) /\ RT(api) \in Render
        BY <1>1, <1>8, <2>2 DEF Open, RT, Render
      <4> QED BY <4>1, <4>2 DEF Good
    <3> HIDE DEF y, x
    <3>4. AllGood(x, now)
      BY <3>1, <3>2, <3>3 DEF AllGood
    <3> QED BY <1>10, <3>1, <3>2, <3>4, LaterOn
  <2> QED BY <2>1, <2>2
<1> HIDE DEF x
<1>12. Gap(m) \in Apps /\ Gap(m).native = now.native /\ Gap(m).begun = now.begun /\ Fits(x, scope, Gap(m))
  BY <1>2, <1>6, <1>11, GapEffect
<1>13. enabled' \in BOOLEAN /\ UNCHANGED <<control, native, last_id>>
  BY <1>1 DEF IInv, Types
<1> QED BY <1>1, <1>3, <1>11, <1>12, <1>13, CallsKeep

(* bind_targets: what was drawn into the old targets is staged first.      *)
LEMMA BindKeeps ==
  ASSUME IInv, NEW display \in BOOLEAN, NEW known \in BOOLEAN, NEW snap \in BOOLEAN, NEW works \in BOOLEAN,
         bind_targets(display, known, snap, works)
  PROVE  IInv'
<1> DEFINE v == flush_pfd(list, scope, works)
           x == IF list.id = 0 THEN list ELSE Bound(v, display, known, snap)
           n == [Gap(now) EXCEPT !.bound = display]
<1>1. Open /\ Records(x, scope, n, now) /\ UNCHANGED <<enabled, control, native, last_id>>
  BY Zenon DEF bind_targets
<1>2. /\ list \in Lists /\ scope \in Scopes /\ now \in Apps /\ list.adds = {} /\ (list.ready => list.id # 0)
      /\ (list.ready => now.native = "recording") /\ Fits(list, scope, now)
  BY DEF IInv, Types, NativeFits
<1>3. Adds(list, v, scope, now)
  BY <1>2, FlushEffect
<1>4. n \in Apps /\ n.native = now.native /\ n.begun = now.begun /\ n.display = now.display /\ n.q = now.q /\ n.bound = display
      /\ (Observing /\ ScopeFits(scope, now) => ScopeFits(scope, n))
  <2>1. \A k \in Apps : [k EXCEPT !.bound = display] \in Apps
    BY Zenon DEF Apps
  <2>2. Gap(now) \in Apps
    BY <1>2, GapEffect
  <2>3. n.native = Gap(now).native /\ n.begun = Gap(now).begun /\ n.display = Gap(now).display /\ n.q = Gap(now).q
        /\ n.bound = display /\ n.gap = Gap(now).gap /\ n.blind = Gap(now).blind /\ n.hold = Gap(now).hold /\ n.pass = Gap(now).pass
    BY <2>2 DEF Apps
  <2> HIDE DEF n
  <2>4. n \in Apps
    BY <2>1, <2>2 DEF n
  <2> QED BY <1>2, <2>3, <2>4, GapEffect DEF ScopeFits
<1> HIDE DEF v, n
<1>5. Later(list, x) /\ Fits(x, scope, n) /\ AllGood(x, now)
  <2>1. CASE list.id = 0
    <3>1. x = list /\ Over(list, scope)
      BY <1>2, <2>1 DEF Over
    <3> QED BY <1>2, <3>1, LaterItself DEF Fits, AllGood
  <2>2. CASE list.id # 0
    <3>1. x = Bound(v, display, known, snap) /\ v \in Lists
      BY <1>3, <2>2 DEF Adds, Later
    <3> HIDE DEF x
    <3>2. Keeps(v, x) /\ (ProofsFit(v, now) /\ DrawnFits(v, now) => ProofsFit(x, n) /\ DrawnFits(x, n))
      BY <1>4, <3>1, BoundEffect
    <3>3. Later(list, x) /\ AllGood(x, now)
      BY <1>2, <1>3, <3>2, LaterOn DEF Adds, Keeps, AllGood
    <3>4. (Over(x, scope) <=> Over(v, scope)) /\ (~Over(v, scope) => Observing)
      BY <3>2, OverStays DEF Keeps, Over, recording_observed
    <3> QED BY <1>3, <1>4, <3>2, <3>3, <3>4 DEF Adds, Fits
  <2> QED BY <2>1, <2>2
<1> HIDE DEF x
<1>6. enabled' \in BOOLEAN /\ UNCHANGED <<control, native, last_id>>
  BY <1>1 DEF IInv, Types
<1> QED BY <1>1, <1>2, <1>4, <1>5, <1>6, CallsKeep

(* What every call on an open list starts from.                            *)
Start ==
  /\ list \in Lists /\ scope \in Scopes /\ now \in Apps /\ list.adds = {} /\ scope.generation = list.id
  /\ list.ready => list.id # 0 /\ now.native = "recording"
  /\ Fits(list, scope, now)

LEMMA Starts ==
  ASSUME IInv
  PROVE  Start
BY DEF IInv, Types, NumbersFit, NativeFits, Start

(* The other setters touch no proof.                                       *)
LEMMA SetterKeeps ==
  ASSUME IInv, NEW complete \in BOOLEAN, setter(complete)
  PROVE  IInv'
<1> DEFINE g == IF complete THEN "complete" ELSE list.graphics
           x == IF Observing /\ list.id # 0 /\ list.graphics # "invalid" THEN [list EXCEPT !.graphics = g] ELSE list
<1>1. Open /\ Records(x, scope, Gap(now), now) /\ UNCHANGED <<enabled, control, native, last_id>>
  BY Zenon DEF setter
<1>2. Start
  BY Starts
<1>3. x \in Lists
  <2>1. g \in {"partial", "complete", "invalid"} /\ TRUE \in BOOLEAN /\ "off" \in {"off", "bound", "snapshot"}
    BY <1>2 DEF Start, Lists
  <2>2. [list EXCEPT !.graphics = g] \in Lists
    <3> HIDE DEF g
    <3> QED BY <1>2, <2>1, RecordTypes DEF Start
  <2> QED BY <1>2, <2>2 DEF Start
<1> HIDE DEF g
<1>4. /\ Later(list, x) /\ x.adds = {} /\ x.om = list.om /\ x.dirty = list.dirty /\ x.transition = list.transition
      /\ x.pend_rt = list.pend_rt /\ x.q_known = list.q_known /\ x.open = list.open /\ x.c_known = list.c_known
      /\ x.seen = list.seen /\ x.pending = list.pending /\ x.ready_mode = list.ready_mode
  BY <1>2, <1>3 DEF Later, Lists, Start
<1> HIDE DEF x
<1>5. Fits(x, scope, now) /\ AllGood(x, now)
  BY <1>2, <1>4, OverStays DEF Start, Fits, ProofsFit, DrawnFits, AllGood
<1>6. enabled' \in BOOLEAN /\ UNCHANGED <<control, native, last_id>>
  BY <1>1 DEF IInv, Types
<1> QED BY <1>1, <1>2, <1>4, <1>5, <1>6, GapEffect, CallsKeep DEF Start

(* ClearState drops every proof of a known list.                           *)
LEMMA ClearKeeps ==
  ASSUME IInv, ClearState
  PROVE  IInv'
<1> DEFINE g == IF list.ready THEN "partial" ELSE "invalid"
           x == IF list.id = 0 THEN list
                ELSE [list EXCEPT !.c_known = FALSE, !.dirty = FALSE, !.pend = FALSE, !.pend_rt = FALSE,
                                  !.transition = FALSE, !.om = "off", !.graphics = g]
           n == [Gap(now) EXCEPT !.bound = FALSE]
<1>1. Open /\ Records(x, scope, n, now) /\ UNCHANGED <<enabled, control, native, last_id>>
  BY Zenon DEF ClearState
<1>2. Start
  BY Starts
<1>3. [list EXCEPT !.c_known = FALSE, !.dirty = FALSE, !.pend = FALSE, !.pend_rt = FALSE,
                   !.transition = FALSE, !.om = "off", !.graphics = g] \in Lists
  <2>1. g \in {"partial", "complete", "invalid"} /\ TRUE \in BOOLEAN /\ "off" \in {"off", "bound", "snapshot"}
    OBVIOUS
  <2> HIDE DEF g
  <2> QED BY <1>2, <2>1, RecordTypes DEF Start
<1> HIDE DEF g
<1>4. Later(list, x) /\ x.adds = {}
  BY <1>2, <1>3, LaterItself DEF Later, Lists, Start
<1>5. ~Over(list, scope) => /\ x.om = "off" /\ ~x.dirty /\ ~x.pend_rt /\ ~x.c_known
                            /\ x.q_known = list.q_known /\ x.open = list.open
  BY <1>2, <1>3 DEF Start, Over, Lists
<1>6. n \in Apps /\ n.native = now.native /\ n.begun = now.begun /\ n.q = now.q
      /\ (Observing /\ ScopeFits(scope, now) => ScopeFits(scope, n))
  <2>1. \A k \in Apps : [k EXCEPT !.bound = FALSE] \in Apps
    BY Zenon DEF Apps
  <2>2. Gap(now) \in Apps
    BY <1>2, GapEffect DEF Start
  <2>3. n.native = Gap(now).native /\ n.begun = Gap(now).begun /\ n.q = Gap(now).q
        /\ n.gap = Gap(now).gap /\ n.blind = Gap(now).blind /\ n.hold = Gap(now).hold /\ n.pass = Gap(now).pass
    BY <2>2 DEF Apps
  <2> HIDE DEF n
  <2>4. n \in Apps
    BY <2>1, <2>2 DEF n
  <2> QED BY <1>2, <2>3, <2>4, GapEffect DEF ScopeFits, Start
<1> HIDE DEF x, n
<1>7. Fits(x, scope, n) /\ AllGood(x, now)
  <2>1. (Over(x, scope) <=> Over(list, scope)) /\ (~Over(x, scope) => Observing)
    BY <1>4, OverStays DEF Over, recording_observed
  <2> QED BY <1>2, <1>4, <1>5, <1>6, <2>1 DEF Start, Fits, ProofsFit, DrawnFits, AllGood
<1>8. enabled' \in BOOLEAN /\ UNCHANGED <<control, native, last_id>>
  BY <1>1 DEF IInv, Types
<1> QED BY <1>1, <1>2, <1>4, <1>6, <1>7, <1>8, CallsKeep DEF Start

(* Unsupported work ends the recording for the bridge.                     *)
LEMMA UnsupportedKeeps ==
  ASSUME IInv, NEW works \in BOOLEAN, unsupported(works)
  PROVE  IInv'
<1> DEFINE v == [list EXCEPT !.c_known = FALSE, !.s_known = FALSE, !.graphics = "invalid"]
           x == IF list.id = 0 THEN list ELSE invalidate(v, scope, {"work"}, works)
           s == IF list.id = 0 THEN scope ELSE invalidate_scope(scope)
<1>1. Open /\ Records(x, s, Gap(now), now) /\ UNCHANGED <<enabled, control, native, last_id>>
  BY Zenon DEF unsupported
<1>2. Start
  BY Starts
<1>3. v \in Lists
  <2>1. "invalid" \in {"partial", "complete", "invalid"} /\ TRUE \in BOOLEAN /\ "off" \in {"off", "bound", "snapshot"}
    OBVIOUS
  <2> QED BY <1>2, <2>1, RecordTypes DEF Start
<1>4. Keeps(list, v) /\ (ProofsFit(list, now) => ProofsFit(v, now))
  BY <1>2, <1>3 DEF Keeps, Later, Lists, Start, ProofsFit
<1> HIDE DEF v
<1>5. Keeps(v, invalidate(v, scope, {"work"}, works))
  <2>1. {"work"} # {} /\ {"work"} # {"pass_begin"}
    BY Zenon
  <2>2. (Over(v, scope) <=> Over(list, scope)) /\ v.id = list.id /\ v.ready = list.ready
    BY <1>4, OverStays DEF Keeps, Later
  <2> QED BY <1>2, <1>3, <1>4, <2>1, <2>2, DoubtEffect DEF Start, Fits
<1>6. Later(list, x) /\ x.adds = {}
  <2>1. Keeps(list, x)
    BY <1>2, <1>4, <1>5, KeepsOn, KeepsItself DEF Start
  <2> QED BY <1>2, <2>1 DEF Keeps, Start
<1>7. s \in Scopes /\ s.generation = scope.generation /\ Over(x, s)
  <2>1. CASE list.id = 0
    BY <1>2, <1>6, <2>1 DEF Start, Over, Later
  <2>2. CASE list.id # 0
    <3>1. s = [scope EXCEPT !.invalid = TRUE]
      BY <1>2, <2>2 DEF Start, invalidate_scope
    <3> QED BY <1>2, <3>1 DEF Start, Over, Scopes
  <2> QED BY <2>1, <2>2
<1> HIDE DEF x, s
<1>8. Fits(x, s, Gap(now)) /\ AllGood(x, now)
  BY <1>6, <1>7 DEF Fits, AllGood
<1>9. enabled' \in BOOLEAN /\ UNCHANGED <<control, native, last_id>>
  BY <1>1 DEF IInv, Types
<1> QED BY <1>1, <1>2, <1>6, <1>7, <1>8, <1>9, GapEffect, CallsKeep DEF Start

(* begin_query, end_query: what waited for the query to end is drained     *)
(* after it.                                                               *)
LEMMA QueryKeeps ==
  ASSUME IInv, begin_query \/ \E works \in BOOLEAN : end_query(works)
  PROVE  IInv'
<1>1. Start /\ (enabled' = enabled => enabled' \in BOOLEAN)
  BY Starts DEF IInv, Types
<1>2. ASSUME NEW k \in {0, 1}
      PROVE  LET n == [now EXCEPT !.q = k]
             IN  /\ n \in Apps /\ n.native = now.native /\ n.begun = now.begun /\ n.q = k
                 /\ n.bound = now.bound /\ n.display = now.display /\ (ScopeFits(scope, now) => ScopeFits(scope, n))
  <2>1. [now EXCEPT !.q = k] \in Apps
    BY <1>1, Zenon DEF Start, Apps
  <2> QED BY <1>1, <2>1 DEF Start, Apps, ScopeFits
<1>3. CASE begin_query
  <2> DEFINE n == [now EXCEPT !.q = 1]
             x == IF list.id = 0 THEN list ELSE query_begin(list)
  <2>1. Open /\ now.q = 0 /\ Records(x, scope, n, now) /\ UNCHANGED <<enabled, control, native, last_id>>
    BY <1>3, Zenon DEF begin_query
  <2>2. n \in Apps /\ n.native = now.native /\ n.begun = now.begun /\ n.q = 1
        /\ n.bound = now.bound /\ n.display = now.display /\ (ScopeFits(scope, now) => ScopeFits(scope, n))
    BY <1>2
  <2> HIDE DEF n
  <2>3. Keeps(list, x)
    BY <1>1, <2>2, QueryEffect, KeepsItself DEF Start
  <2>4. ~Over(list, scope) => x = query_begin(list)
    BY <1>1 DEF Start, Over
  <2>5. Fits(x, scope, n) /\ Later(list, x) /\ AllGood(x, now)
    BY <1>1, <2>1, <2>2, <2>3, <2>4, QueryEffect, OverStays DEF Start, Fits, Keeps, AllGood
  <2> HIDE DEF x
  <2> QED BY <1>1, <2>1, <2>2, <2>5, CallsKeep DEF Start
<1>4. CASE \E works \in BOOLEAN : end_query(works)
  <2>0. PICK works \in BOOLEAN : end_query(works)
    BY <1>4
  <2> DEFINE n == [now EXCEPT !.q = 0]
             y == query_end(list)
             x == IF list.id = 0 THEN list ELSE IF known_empty(y) THEN drain_pfds(y, scope, FALSE, works) ELSE y
  <2>1. Open /\ now.q = 1 /\ Records(x, scope, n, n) /\ UNCHANGED <<enabled, control, native, last_id>>
    BY <2>0, Zenon DEF end_query
  <2>2. n \in Apps /\ n.native = now.native /\ n.begun = now.begun /\ n.q = 0
        /\ n.bound = now.bound /\ n.display = now.display /\ (ScopeFits(scope, now) => ScopeFits(scope, n))
    BY <1>2
  <2> HIDE DEF n
  <2>3. Keeps(list, y)
    BY <1>1, <2>2, QueryEffect DEF Start
  <2>4. Fits(y, scope, n) /\ y \in Lists /\ (y.ready => n.native = "recording") /\ y.adds = {}
    BY <1>1, <2>1, <2>2, <2>3, QueryEffect, OverStays DEF Start, Fits, Keeps, Later
  <2> HIDE DEF y
  <2>5. Adds(y, drain_pfds(y, scope, FALSE, works), scope, n)
    BY <1>1, <2>2, <2>4, DrainEffect DEF Start
  <2>6. CASE list.id = 0
    <3>1. x = list /\ Over(list, scope)
      BY <1>1, <2>6 DEF Start, Over
    <3> HIDE DEF x
    <3>2. Fits(x, scope, n) /\ Later(list, x) /\ AllGood(x, n)
      BY <1>1, <3>1, LaterItself DEF Start, Fits, AllGood
    <3> QED BY <1>1, <2>1, <2>2, <3>2, CallsKeep DEF Start
  <2>7. CASE list.id # 0
    <3>1. Adds(y, x, scope, n)
      BY <2>4, <2>5, <2>7, AddsItself
    <3> HIDE DEF x
    <3>2. Fits(x, scope, n) /\ Later(list, x) /\ AllGood(x, n)
      BY <2>3, <2>4, <3>1, LaterOn DEF Adds, Keeps, AllGood
    <3> QED BY <1>1, <2>1, <2>2, <3>2, CallsKeep DEF Start
  <2> QED BY <2>6, <2>7
<1> QED BY <1>3, <1>4

(* begin_pass: what is staged is only remembered, for the scope is active  *)
(* by then.                                                                *)
LEMMA BeginPassKeeps ==
  ASSUME IInv, NEW works \in BOOLEAN
  PROVE  \A suspending, resuming, ordinary, display, known, installs \in BOOLEAN :
           begin_pass(suspending, resuming, ordinary, display, known, installs, works) => IInv'
<1> SUFFICES ASSUME NEW suspending \in BOOLEAN, NEW resuming \in BOOLEAN, NEW ordinary \in BOOLEAN,
                    NEW display \in BOOLEAN, NEW known \in BOOLEAN, NEW installs \in BOOLEAN,
                    begin_pass(suspending, resuming, ordinary, display, known, installs, works)
             PROVE  IInv'
  OBVIOUS
<1> DEFINE i == scope.invalid \/ scope.active \/ ~ordinary \/ (scope.suspended /\ ~resuming)
           s == IF scope.generation = 0 THEN scope
                ELSE [scope EXCEPT !.invalid = @ \/ scope.active \/ ~ordinary \/ (scope.suspended /\ ~resuming),
                                   !.active = TRUE, !.suspended = suspending]
           v == [list EXCEPT !.q_known = FALSE, !.pend_rt = FALSE]
           y == IF scope.generation = 0 \/ list.id # scope.generation THEN list
                ELSE Bound(stage_pfd(v, s), display, known, FALSE)
           why == {"pass_begin"} \cup scope_invalidation(scope)
                    \cup (IF s.invalid \/ s.suspended \/ resuming THEN {"pass_state"} ELSE {})
           lost == scope.generation # 0 /\ ~installs
           x == invalidate(y, s, why, works)
           t == IF lost THEN invalidate_scope(s) ELSE s
           p == IF suspending THEN "suspending" ELSE "open"
           h == IF ordinary THEN "free" ELSE "local"
           n == [now EXCEPT !.pass = p, !.bound = display, !.hold = h, !.blind = ~installs]
           m == [now EXCEPT !.pass = p, !.bound = display, !.hold = h, !.blind = FALSE]   \* had it been seen
<1>1. /\ Open /\ now.pass = "none" /\ ((now.hold = "suspended") <=> resuming) /\ Records(x, t, n, now)
      /\ enabled' = (enabled /\ ~lost) /\ UNCHANGED <<control, native, last_id>>
  BY Zenon DEF begin_pass
<1>2. Start
  BY Starts
<1>3. /\ n \in Apps /\ n.native = now.native /\ n.begun = now.begun /\ (installs => n = m)
      /\ m \in Apps /\ m.native = now.native /\ m.pass = p /\ m.bound = display /\ m.hold = h
      /\ ~m.blind /\ m.gap = now.gap /\ m.display = now.display /\ m.q = now.q
  <2>1. p \in {"none", "open", "suspending"} /\ h \in {"free", "suspended", "local"} /\ (~installs) \in BOOLEAN
    OBVIOUS
  <2> DEFINE entered(k, b, c, d, e) == [k EXCEPT !.pass = d, !.bound = b, !.hold = e, !.blind = c]
  <2>2. \A k \in Apps, b, c \in BOOLEAN, d \in {"none", "open", "suspending"}, e \in {"free", "suspended", "local"} :
          entered(k, b, c, d, e) \in Apps
    BY ZenonT(40) DEF Apps
  <2> HIDE DEF p, h
  <2>4. now \in Apps
    BY <1>2 DEF Start
  <2>3. n \in Apps /\ m \in Apps
    <3>1. n = entered(now, display, ~installs, p, h) /\ m = entered(now, display, FALSE, p, h)
      OBVIOUS
    <3> HIDE DEF n, m, entered
    <3> QED BY <2>1, <2>2, <2>4, <3>1
  <2>5. n.native = now.native /\ n.begun = now.begun /\ (installs => n = m)
    BY <2>4 DEF Apps
  <2>6. m.native = now.native /\ m.pass = p /\ m.bound = display /\ m.hold = h
    BY <2>4 DEF Apps
  <2>7. ~m.blind /\ m.gap = now.gap /\ m.display = now.display /\ m.q = now.q
    BY <2>4 DEF Apps
  <2> QED BY <2>3, <2>5, <2>6, <2>7
<1>4. s \in Scopes /\ s.generation = list.id
      /\ (list.id # 0 => s.active /\ (s.invalid <=> i) /\ (s.suspended <=> suspending))
  BY <1>2 DEF Start, Scopes
<1>5. ~Over(list, s) => ~Over(list, scope) /\ ScopeFits(s, m)
  <2>1. ASSUME ~Over(list, s) PROVE ~Over(list, scope) /\ ScopeFits(s, m)
    <3>1. list.id # 0 /\ ~s.invalid
      BY <1>2, <2>1 DEF Over, Start
    <3>2. ~i
      BY <1>4, <3>1
    <3>3. ~Over(list, scope) /\ ScopeFits(scope, now)
      BY <1>2, <2>1, <3>2 DEF Over, Start, Fits
    <3> QED BY <1>1, <1>3, <1>4, <3>1, <3>2, <3>3 DEF ScopeFits
  <2> QED BY <2>1
<1> HIDE DEF n, m, p, h, s
<1>6. Keeps(list, y) /\ (~Over(list, s) => ProofsFit(y, m) /\ DrawnFits(y, m))
  <2>1. CASE scope.generation = 0
    <3>1. y = list /\ Over(list, s)
      BY <1>2, <2>1 DEF Start, Over
    <3> QED BY <1>2, <3>1, KeepsItself DEF Start
  <2>2. CASE scope.generation # 0
    <3> DEFINE w == stage_pfd(v, s)
    <3>1. v \in Lists
      <4>1. FALSE \in BOOLEAN /\ {} \in SUBSET Work
        OBVIOUS
      <4> QED BY <1>2, <4>1, StagingTypes DEF Start
    <3>2. Keeps(list, v) /\ (ProofsFit(list, now) /\ DrawnFits(list, now) => ProofsFit(v, now) /\ DrawnFits(v, now))
      BY <1>2, <3>1 DEF Keeps, Later, Lists, Start, ProofsFit, DrawnFits
    <3>3. ~same_safe(s) /\ Keeps(v, w)
      \* nothing is added: the scope is active
      <4>1. ~same_safe(s)
        BY <1>2, <1>4, <2>2 DEF same_safe, Start
      <4> HIDE DEF v
      <4>2. w = v \/ w = [v EXCEPT !.dirty = FALSE]
            \/ w = [v EXCEPT !.dirty = FALSE, !.pend = TRUE, !.pend_rt = ~v.transition /\ v.om = "snapshot", !.adds = v.adds]
        BY <4>1 DEF stage_pfd
      <4>3. [v EXCEPT !.dirty = FALSE] \in Lists
            /\ [v EXCEPT !.dirty = FALSE, !.pend = TRUE, !.pend_rt = ~v.transition /\ v.om = "snapshot", !.adds = v.adds] \in Lists
        <5> DEFINE b == ~v.transition /\ v.om = "snapshot"
        <5>1. b \in BOOLEAN /\ v.adds \in SUBSET Work
          BY <3>1 DEF Lists
        <5> HIDE DEF b
        <5>2. [v EXCEPT !.dirty = FALSE] \in Lists
              /\ [v EXCEPT !.dirty = FALSE, !.pend = TRUE, !.pend_rt = b, !.adds = v.adds] \in Lists
          BY <3>1, <5>1, StagingTypes
        <5> QED BY <5>2 DEF b
      <4> HIDE DEF w
      <4>4. CASE w = v
        BY <3>1, <4>1, <4>4, KeepsItself
      <4>5. CASE w = [v EXCEPT !.dirty = FALSE]
        BY <3>1, <4>1, <4>3, <4>5 DEF Keeps, Later, Lists
      <4>6. CASE w = [v EXCEPT !.dirty = FALSE, !.pend = TRUE, !.pend_rt = ~v.transition /\ v.om = "snapshot", !.adds = v.adds]
        <5> DEFINE b == ~v.transition /\ v.om = "snapshot"
        <5>1. w = [v EXCEPT !.dirty = FALSE, !.pend = TRUE, !.pend_rt = b, !.adds = v.adds] /\ w \in Lists
          BY <4>3, <4>6
        <5> HIDE DEF b
        <5>2. w.id = v.id /\ w.epoch = v.epoch /\ w.ready = v.ready /\ w.closing = v.closing /\ w.closed = v.closed
              /\ w.s_known = v.s_known /\ w.adds = v.adds
          BY <3>1, <5>1 DEF Lists
        <5> QED BY <4>1, <5>1, <5>2 DEF Keeps, Later
      <4> QED BY <4>2, <4>4, <4>5, <4>6
    <3>4. ProofsFit(v, now) /\ DrawnFits(v, now) => ProofsFit(w, now) /\ DrawnFits(w, now)
      BY <3>1, <3>3 DEF stage_pfd, ProofsFit, DrawnFits, Lists
    <3> HIDE DEF w, v
    <3>5. y = Bound(w, display, known, FALSE) /\ w \in Lists
      BY <1>2, <2>2, <3>3 DEF Start, Keeps, Later, w, v
    <3> HIDE DEF y
    <3>6. Keeps(w, y) /\ (ProofsFit(w, now) /\ DrawnFits(w, now) => ProofsFit(y, m) /\ DrawnFits(y, m))
      BY <1>3, <3>5, BoundEffect
    <3> QED BY <1>2, <1>5, <3>2, <3>3, <3>4, <3>6, KeepsOn DEF Start, Fits
  <2> QED BY <2>1, <2>2
<1> HIDE DEF y
<1>7. Keeps(y, x) /\ Fits(x, s, m)
  <2>1. y \in Lists /\ y.id = list.id /\ y.ready = list.ready /\ (Over(y, s) <=> Over(list, s))
    BY <1>6, OverStays DEF Keeps, Later
  <2>2. Fits(y, s, m)
    BY <1>5, <1>6, <2>1 DEF Fits
  <2>3. why # {}
    OBVIOUS
  <2>4. (y.ready => y.id # 0) /\ s.generation = y.id /\ (s.active \/ ~y.ready) /\ (y.ready => m.native = "recording")
    BY <1>2, <1>3, <1>4, <2>1 DEF Start
  <2> HIDE DEF why
  <2> QED BY <1>3, <1>4, <2>1, <2>2, <2>3, <2>4, PassEffect
<1> HIDE DEF x
<1>8. t \in Scopes /\ t.generation = scope.generation /\ Fits(x, t, n)
  <2>1. CASE lost
    <3>1. t \in Scopes /\ t.generation = s.generation /\ t.invalid
      BY <1>2, <1>4, <2>1 DEF invalidate_scope, Scopes, Start
    <3> QED BY <1>2, <1>4, <3>1 DEF Fits, Over, Start
  <2>2. CASE ~lost /\ scope.generation = 0
    <3>1. t = s /\ Over(x, t)
      BY <1>2, <1>6, <1>7, <2>2 DEF Over, Keeps, Later, Start
    <3> QED BY <1>2, <1>4, <3>1 DEF Fits, Start
  <2>3. CASE ~lost /\ scope.generation # 0
    BY <1>2, <1>3, <1>4, <1>7, <2>3 DEF Start
  <2> QED BY <2>1, <2>2, <2>3
<1>9. Later(list, x) /\ AllGood(x, now)
  BY <1>2, <1>6, <1>7, KeepsOn DEF Keeps, AllGood, Start
<1> HIDE DEF t
<1>10. enabled' \in BOOLEAN /\ UNCHANGED <<control, native, last_id>>
  BY <1>1 DEF IInv, Types
<1> QED BY <1>1, <1>3, <1>8, <1>9, <1>10, CallsKeep

(* end_pass, and the one that was not seen.                                *)
LEMMA EndPassKeeps ==
  ASSUME IInv, NEW works \in BOOLEAN, end_pass(works)
  PROVE  IInv'
<1> DEFINE why == IF ~scope.active \/ scope.suspended \/ scope.invalid \/ ~enabled THEN {"pass_state"} ELSE {}
           y == invalidate(list, scope, why, works)
           f == flush_pfd(y, scope, works)
           z == IF y.id = 0 \/ y.id # scope.generation THEN y
                ELSE [f EXCEPT !.dirty = FALSE, !.om = "off", !.pend_rt = FALSE]
           i == scope.invalid \/ ~scope.active
           s == [scope EXCEPT !.invalid = @ \/ ~scope.active, !.active = FALSE]
           t == IF scope.generation = 0 THEN scope
                ELSE [s EXCEPT !.prior_work = @ \/ (~s.invalid /\ ~s.suspended)]
           h == IF now.pass = "suspending" /\ now.hold = "free" THEN "suspended" ELSE now.hold
           n == [now EXCEPT !.pass = "none", !.bound = FALSE, !.blind = FALSE, !.hold = h]
<1>1. /\ Open /\ now.pass # "none"
      /\ IF now.blind THEN Records(list, scope, n, now) ELSE Records(z, t, n, now)
      /\ UNCHANGED <<enabled, control, native, last_id>>
  <2>1. n = [now EXCEPT !.pass = "none", !.bound = FALSE, !.blind = FALSE,
                        !.hold = IF now.pass = "suspending" /\ now.hold = "free" THEN "suspended" ELSE @]
    OBVIOUS
  <2> HIDE DEF n
  <2> QED BY <2>1, Zenon DEF end_pass
<1>2. Start
  BY Starts
<1>3. /\ n \in Apps /\ n.native = now.native /\ n.begun = now.begun /\ n.pass = "none" /\ ~n.bound /\ n.hold = h
      /\ ~n.blind /\ n.gap = now.gap /\ n.display = now.display /\ n.q = now.q
  <2>1. h \in {"free", "suspended", "local"} /\ FALSE \in BOOLEAN /\ "none" \in {"none", "open", "suspending"}
    BY <1>2 DEF Start, Apps
  <2> DEFINE left(k, b, c, d, e) == [k EXCEPT !.pass = d, !.bound = b, !.blind = c, !.hold = e]
  <2>2. \A k \in Apps, b, c \in BOOLEAN, d \in {"none", "open", "suspending"}, e \in {"free", "suspended", "local"} :
          left(k, b, c, d, e) \in Apps
    BY ZenonT(40) DEF Apps
  <2> HIDE DEF h
  <2>3. now \in Apps
    BY <1>2 DEF Start
  <2>4. n \in Apps
    <3>1. n = left(now, FALSE, FALSE, "none", h)
      OBVIOUS
    <3> HIDE DEF n, left
    <3> QED BY <2>1, <2>2, <2>3, <3>1
  <2>5. n.native = now.native /\ n.begun = now.begun /\ n.pass = "none" /\ ~n.bound /\ n.hold = h
    BY <2>3 DEF Apps
  <2>6. ~n.blind /\ n.gap = now.gap /\ n.display = now.display /\ n.q = now.q
    BY <2>3 DEF Apps
  <2> QED BY <2>4, <2>5, <2>6
<1> HIDE DEF n
<1>4. enabled' \in BOOLEAN /\ UNCHANGED <<control, native, last_id>>
  BY <1>1 DEF IInv, Types
<1>5. CASE now.blind
  <2>1. Over(list, scope)
    BY <1>2, <1>5 DEF Start, Fits, ScopeFits
  <2>2. Fits(list, scope, n) /\ AllGood(list, now) /\ Later(list, list) /\ Records(list, scope, n, now)
    BY <1>1, <1>2, <1>5, <2>1, LaterItself DEF Fits, AllGood, Start
  <2> QED BY <1>1, <1>2, <1>3, <1>4, <2>2, CallsKeep DEF Start
<1>6. CASE ~now.blind
  <2>1. Keeps(list, y) /\ Fits(y, scope, now)
    <3>1. CASE why = {}
      <4>1. y = list
        BY <3>1 DEF invalidate
      <4> QED BY <1>2, <4>1, KeepsItself DEF Start
    <3>2. CASE why # {}
      <4>1. why # {"pass_begin"}
        BY Zenon
      <4> HIDE DEF why
      <4> QED BY <1>2, <3>2, <4>1, DoubtEffect DEF Start, Fits
    <3> QED BY <3>1, <3>2
  <2> HIDE DEF y
  <2>2. y \in Lists /\ y.id = list.id /\ (y.ready => now.native = "recording") /\ y.adds = {}
    BY <1>2, <2>1 DEF Keeps, Later, Start
  <2>3. Adds(y, f, scope, now)
    BY <1>2, <2>1, <2>2, FlushEffect DEF Start
  <2>4. CASE list.id = 0
    <3>1. z = y /\ t = scope /\ Over(y, t)
      BY <1>2, <2>1, <2>2, <2>4 DEF Start, Over, Keeps, Later
    <3> HIDE DEF z, t
    <3>2. Later(list, z) /\ Fits(z, scope, n) /\ AllGood(z, now) /\ Records(z, scope, n, now)
      BY <1>1, <1>6, <2>1, <2>2, <3>1 DEF Keeps, Fits, AllGood
    <3> QED BY <1>1, <1>2, <1>3, <1>4, <3>2, CallsKeep DEF Start
  <2>5. CASE list.id # 0
    <3>1. z = [f EXCEPT !.dirty = FALSE, !.om = "off", !.pend_rt = FALSE]
      BY <1>2, <2>2, <2>5 DEF Start
    <3> HIDE DEF z, f
    <3>2. f \in Lists /\ Later(list, f) /\ AllGood(f, now)
      BY <2>1, <2>2, <2>3, LaterOn DEF Adds, Later, Keeps, AllGood
    <3>3. z \in Lists
      <4>1. FALSE \in BOOLEAN /\ {} \in SUBSET Work
        OBVIOUS
      <4> QED BY <3>1, <3>2, <4>1, StagingTypes
    <3>4. /\ Later(f, z) /\ z.adds = f.adds /\ z.om = "off" /\ ~z.dirty /\ ~z.pend_rt
          /\ z.q_known = f.q_known /\ z.open = f.open /\ z.c_known = f.c_known /\ z.seen = f.seen
          /\ z.pending = f.pending /\ z.ready_mode = f.ready_mode
      BY <3>1, <3>2, <3>3 DEF Later, Lists
    <3>5. Later(list, z) /\ AllGood(z, now)
      BY <3>2, <3>4, LaterOn DEF AllGood
    <3>6. /\ t \in Scopes /\ t.generation = scope.generation /\ (t.invalid <=> i) /\ ~t.active
          /\ (t.suspended <=> scope.suspended)
      BY <1>2, <2>5 DEF Start, Scopes
    <3> HIDE DEF t
    <3>7. Fits(z, t, n)
      <4> SUFFICES ASSUME ~Over(z, t) PROVE ScopeFits(t, n) /\ ProofsFit(z, n) /\ DrawnFits(z, n)
        BY DEF Fits
      <4>1. scope.active /\ ~scope.invalid
        BY <1>2, <3>6 DEF Over, Start, Scopes
      <4>2. ~Over(list, scope) /\ ~Over(f, scope)
        BY <3>2, <3>5, <4>1 DEF Over, Later, recording_observed
      <4>3. ScopeFits(scope, now) /\ ProofsFit(f, now)
        BY <1>2, <2>3, <4>2 DEF Start, Fits, Adds
      <4>4. ScopeFits(t, n)
        BY <1>2, <1>3, <3>6, <4>1, <4>3 DEF ScopeFits, Start, Apps
      <4>5. ProofsFit(z, n) /\ DrawnFits(z, n)
        BY <1>3, <3>4, <4>3 DEF ProofsFit, DrawnFits
      <4> QED BY <4>4, <4>5
    <3> QED BY <1>1, <1>2, <1>3, <1>4, <1>6, <3>5, <3>6, <3>7, CallsKeep DEF Start
  <2> QED BY <2>4, <2>5
<1> QED BY <1>5, <1>6

(* close: the last addition, to a list that is still recording.            *)
LEMMA CloseKeeps ==
  ASSUME IInv, NEW succeeds \in BOOLEAN, NEW works \in BOOLEAN, close(succeeds, works)
  PROVE  IInv'
<1> DEFINE v == stage_pfd(list, scope)
           y == drain_pfds(v, scope, TRUE, works)
           u == [y EXCEPT !.closing = TRUE, !.ready = FALSE, !.dirty = FALSE, !.pend = FALSE,
                          !.pend_rt = FALSE, !.graphics = "invalid"]
           z == IF list.id # 0 /\ list.ready /\ ~list.closing THEN u ELSE list
           c == succeeds /\ list.id # 0
           x == [z EXCEPT !.closed = c]
           k == IF succeeds THEN "closed" ELSE "failed"
           n == [now EXCEPT !.native = k]
<1>1. now.native # "none" /\ ~resetting /\ Records(x, scope, n, now) /\ UNCHANGED <<enabled, control, native, last_id>>
  <2> HIDE DEF y
  <2> QED BY Zenon DEF close, y
<1>2. Start
  BY Starts
<1>3. n \in Apps /\ n.native = k /\ n.begun = now.begun
  <2>1. \A m \in Apps, e \in {"none", "recording", "closed", "failed"} : [m EXCEPT !.native = e] \in Apps
    BY Zenon DEF Apps
  <2>2. k \in {"none", "recording", "closed", "failed"}
    OBVIOUS
  <2> HIDE DEF k
  <2>3. n \in Apps
    BY <1>2, <2>1, <2>2 DEF Start
  <2> QED BY <1>2, <2>3 DEF Start, Apps
<1>4. Later(list, y) /\ AllGood(y, now)
  <2>1. Adds(list, v, scope, now)
    BY <1>2, StageEffect DEF Start
  <2>2. v \in Lists /\ Fits(v, scope, now) /\ (v.ready => now.native = "recording")
    BY <1>2, <2>1 DEF Adds, Later, Start
  <2> HIDE DEF v
  <2>3. Adds(v, y, scope, now)
    BY <1>2, <2>2, DrainEffect DEF Start
  <2> QED BY <1>2, <2>1, <2>3, LaterOn DEF Adds, AllGood, Start
<1> HIDE DEF y
<1>5. /\ z \in Lists /\ z.id = list.id /\ z.epoch = list.epoch /\ ~z.ready /\ (z.s_known => list.s_known)
      /\ AllGood(z, now)
  <2>1. list.ready => list.id # 0 /\ ~list.closing
    BY DEF IInv, NativeFits
  <2>2. CASE list.ready
    <3>1. z = u /\ y \in Lists
      BY <1>4, <2>1, <2>2 DEF Later
    <3>2. u \in Lists
      <4>1. TRUE \in BOOLEAN /\ "off" \in {"off", "bound", "snapshot"} /\ "invalid" \in {"partial", "complete", "invalid"}
        OBVIOUS
      <4> QED BY <3>1, <4>1, RecordTypes
    <3>3. u.id = y.id /\ u.epoch = y.epoch /\ ~u.ready /\ u.s_known = y.s_known /\ u.adds = y.adds
      BY <3>1 DEF Lists
    <3> QED BY <1>4, <3>1, <3>2, <3>3 DEF Later, AllGood
  <2>3. CASE ~list.ready
    <3>1. z = list
      BY <2>3
    <3> QED BY <1>2, <2>3, <3>1 DEF Start, AllGood
  <2> QED BY <2>2, <2>3
<1> HIDE DEF z
<1>6. /\ x \in Lists /\ x.id = list.id /\ x.epoch = list.epoch /\ ~x.ready /\ (x.s_known => list.s_known)
      /\ AllGood(x, now) /\ (x.closed => c)
  <2>1. c \in BOOLEAN /\ "off" \in {"off", "bound", "snapshot"} /\ "invalid" \in {"partial", "complete", "invalid"}
    BY <1>2 DEF Start, Lists
  <2> HIDE DEF c
  <2>2. x \in Lists
    BY <1>5, <2>1, RecordTypes
  <2>3. x.id = z.id /\ x.epoch = z.epoch /\ x.ready = z.ready /\ x.s_known = z.s_known /\ x.adds = z.adds /\ x.closed = c
    BY <1>5 DEF Lists
  <2> QED BY <1>5, <2>2, <2>3 DEF AllGood
<1> HIDE DEF x, n
<1>7. Recorded(x, scope, n, now)
  BY <1>2, <1>3, <1>6 DEF Recorded, Fits, Over, Start
<1>8. enabled' \in BOOLEAN
  BY <1>1 DEF IInv, Types
<1> QED BY <1>1, <1>7, <1>8, RecordsKeep

(* A list met for the first time: nothing can be added to it before its    *)
(* Reset.                                                                  *)
LEMMA UnobservedEffect ==
  ASSUME IInv, NEW s, s = [NoScope EXCEPT !.generation = last_id + 1, !.invalid = TRUE]
  PROVE  /\ Unobserved \in Lists /\ Unobserved.id = last_id + 1 /\ Unobserved.epoch = 0 /\ ~Unobserved.ready
         /\ ~Unobserved.closing /\ ~Unobserved.closed /\ ~Unobserved.s_known /\ Unobserved.adds = {}
         /\ s \in Scopes /\ s.generation = last_id + 1 /\ s.invalid
<1>1. last_id + 1 \in Nat /\ last_id \in Nat
  BY DEF IInv, Types
<1>2. \A i \in Nat : [NoList EXCEPT !.id = i] \in Lists
  BY NewLists
<1>3. Unobserved \in Lists
  BY <1>1, <1>2 DEF Unobserved
<1>4. s \in Scopes /\ s.generation = last_id + 1 /\ s.invalid
  BY <1>1 DEF NoScope, Scopes
<1>5. /\ Unobserved.id = last_id + 1 /\ Unobserved.epoch = 0 /\ ~Unobserved.ready
      /\ ~Unobserved.closing /\ ~Unobserved.closed /\ ~Unobserved.s_known /\ Unobserved.adds = {}
  BY DEF Unobserved, NoList
<1> QED BY <1>3, <1>4, <1>5

(* ensure_list: a list met in the middle of its recording.                 *)
LEMMA EnsureListKeeps ==
  ASSUME IInv, ensure_list
  PROVE  IInv'
<1> DEFINE s == [NoScope EXCEPT !.generation = last_id + 1, !.invalid = TRUE]
<1>1. /\ Open /\ list.id = 0 /\ last_id < MaxLists /\ last_id' = last_id + 1 /\ Records(Unobserved, s, now, now)
      /\ UNCHANGED <<enabled, control, native>>
  BY Zenon DEF ensure_list
<1>2. /\ Unobserved \in Lists /\ Unobserved.id = last_id + 1 /\ Unobserved.epoch = 0 /\ ~Unobserved.ready
      /\ ~Unobserved.closing /\ ~Unobserved.closed /\ ~Unobserved.s_known /\ Unobserved.adds = {}
      /\ s \in Scopes /\ s.generation = last_id + 1 /\ s.invalid
  BY UnobservedEffect
<1> HIDE DEF s
<1>3. Over(Unobserved, s)
  BY <1>2 DEF Over
<1>4. /\ list' \in Lists /\ list'.id = last_id + 1 /\ list'.epoch = 0 /\ ~list'.ready
      /\ ~list'.closing /\ ~list'.closed /\ ~list'.s_known /\ list'.adds = {}
  <2> DEFINE y == [NoList EXCEPT !.id = Unobserved.id, !.epoch = Unobserved.epoch, !.ready = Unobserved.ready,
                                 !.closing = Unobserved.closing, !.closed = Unobserved.closed,
                                 !.s_known = Unobserved.s_known]
  <2>1. list' = [y EXCEPT !.adds = {}]
    BY <1>1, <1>3 DEF Records, Settled
  <2>2. y \in Lists
    BY <1>2, ListRenewed
  <2>3. /\ y.id = Unobserved.id /\ y.epoch = Unobserved.epoch /\ y.ready = Unobserved.ready
        /\ y.closing = Unobserved.closing /\ y.closed = Unobserved.closed /\ y.s_known = Unobserved.s_known
    BY DEF NoList
  <2> HIDE DEF y
  <2>4. list' \in Lists
    <3>1. FALSE \in BOOLEAN /\ {} \in SUBSET Work
      OBVIOUS
    <3> QED BY <2>1, <2>2, <3>1, StagingTypes
  <2> QED BY <1>2, <2>1, <2>2, <2>3, <2>4 DEF Lists
<1>5. /\ scope' \in Scopes /\ scope'.generation = last_id + 1
      /\ now' \in Apps /\ now'.native = now.native /\ now'.begun = now.begun
      /\ injected' = {} /\ planned' = "no"
  <2>1. scope' = [NoScope EXCEPT !.generation = s.generation, !.invalid = TRUE] /\ last_id + 1 \in Nat
    BY <1>1, <1>2 DEF Records, IInv, Types
  <2>2. now' = [Fresh("away", "free") EXCEPT !.native = now.native, !.gap = TRUE, !.begun = now.begun]
    BY <1>1, <1>3 DEF Records
  <2>3. now' \in Apps /\ now'.native = now.native /\ now'.begun = now.begun
    BY <2>2 DEF Fresh, Apps, Displays, IInv, Types
  <2>4. injected' = {}
    BY <1>1, <1>2 DEF Records
  <2> QED BY <1>1, <1>2, <2>1, <2>3, <2>4 DEF Records, NoScope, Scopes
<1>6. UNCHANGED <<enabled, epoch, floor, mask, session, changes, resetting, sampled>>
  BY <1>1 DEF control, native
<1>7. Types' /\ NumbersFit'
  <2>1. last_id \in Nat /\ MaxLists \in Nat /\ epoch \in Nat
    BY PfdRecordingAssumption DEF IInv, Types
  <2>2. Types'
    BY <1>1, <1>4, <1>5, <1>6, <2>1 DEF IInv, Types
  <2>3. last_id' <= MaxLists /\ last_id' = last_id + 1
    BY <1>1, <2>1
  <2> QED BY <1>4, <1>5, <1>6, <2>1, <2>2, <2>3 DEF IInv, NumbersFit
<1>8. NativeFits' /\ BegunFits' /\ Fits(list, scope, now)'
  BY <1>1, <1>4, <1>5, <1>6 DEF IInv, NativeFits, BegunFits, Fits, Over, Open
<1>9. AddsFitTheRecording' /\ AddsAreObserved' /\ PlansAreCurrent' /\ SealedIsClosed'
  BY <1>4, <1>5 DEF AddsFitTheRecording, AddsAreObserved, PlansAreCurrent, SealedIsClosed
<1> QED BY <1>7, <1>8, <1>9 DEF IInv

(* A list whose recording is over: what is left to check of it.            *)
LEMMA OverKeeps ==
  ASSUME Types', NumbersFit', Over(list, scope)', BegunFits', NativeFits', SealedIsClosed',
         injected' = {}, planned' = "no"
  PROVE  IInv'
<1>1. Fits(list, scope, now)'
  BY DEF Fits
<1>2. AddsFitTheRecording' /\ AddsAreObserved' /\ PlansAreCurrent'
  BY DEF AddsFitTheRecording, AddsAreObserved, PlansAreCurrent
<1> QED BY <1>1, <1>2 DEF IInv

(* The application's state at the beginning of a recording.                *)
LEMMA FreshTypes ==
  ASSUME NEW display \in Displays, NEW hold \in {"free", "suspended"}
  PROVE  LET n == Fresh(display, hold)
         IN  /\ n \in Apps /\ n.native = "recording" /\ n.pass = "none" /\ ~n.blind /\ n.q = 0
             /\ n.hold = hold /\ ~n.bound /\ ~n.gap /\ n.begun
BY DEF Fresh, Apps

(* reset: the demand is sampled, nothing is published yet.                 *)
LEMMA ResetKeeps ==
  ASSUME IInv, NEW succeeds \in BOOLEAN, NEW display \in Displays, NEW hold \in {"free", "suspended"},
         reset(succeeds, display, hold)
  PROVE  IInv'
<1> DEFINE s == [NoScope EXCEPT !.generation = last_id + 1, !.invalid = TRUE]
<1>0. /\ now.native \in {"closed", "failed"} /\ ~resetting /\ resetting' = TRUE /\ sampled' = epoch
      /\ \/ list.id # 0 /\ list' = [list EXCEPT !.closed = FALSE] /\ UNCHANGED <<scope, last_id>>
         \/ list.id = 0 /\ UNCHANGED <<list, scope, last_id>>
         \/ list.id = 0 /\ last_id < MaxLists /\ last_id' = last_id + 1 /\ list' = Unobserved /\ scope' = s
      /\ now' = IF succeeds THEN Fresh(display, hold) ELSE [now EXCEPT !.native = "failed"]
      /\ injected' = {} /\ planned' = "no" /\ UNCHANGED <<enabled, epoch, floor, mask, session, changes>>
  BY DEF reset, control
<1> HIDE DEF s
<1>1. Start /\ ~list.ready
  BY <1>0, Starts DEF IInv, NativeFits
<1>2. /\ now' \in Apps /\ (now'.native = "recording" \/ now'.native = "failed")
      /\ now'.native = "recording" => ~now'.gap /\ now'.pass = "none" /\ ~now'.blind /\ now'.q = 0
                                      /\ now'.hold # "local" /\ ~now'.bound /\ now'.begun
      /\ now'.native = "failed" => now'.begun = now.begun
  <2>1. CASE succeeds
    BY <1>0, <2>1, FreshTypes
  <2>2. CASE ~succeeds
    <3>1. now' = [now EXCEPT !.native = "failed"]
      BY <1>0, <2>2
    <3> QED BY <1>1, <3>1 DEF Start, Apps
  <2> QED BY <2>1, <2>2
<1>3. /\ list' \in Lists /\ list'.adds = {} /\ ~list'.ready /\ ~list'.closed /\ (list'.s_known => list.s_known)
      /\ scope' \in Scopes /\ scope'.generation = list'.id /\ list'.epoch <= epoch
      /\ (list'.s_known => list'.epoch = list.epoch /\ list'.id # 0)
      /\ list'.id <= last_id' /\ last_id' <= MaxLists /\ last_id' \in Nat
  <2>0. /\ list.id <= last_id /\ last_id <= MaxLists /\ last_id \in Nat /\ list.epoch <= epoch
        /\ epoch \in Nat /\ MaxLists \in Nat /\ (list.id = 0 => ~list.closed /\ ~list.s_known)
    BY PfdRecordingAssumption DEF IInv, Types, NumbersFit, NativeFits
  <2>1. CASE list.id # 0 /\ list' = [list EXCEPT !.closed = FALSE] /\ UNCHANGED <<scope, last_id>>
    <3>1. list' \in Lists
      <4>1. FALSE \in BOOLEAN /\ "off" \in {"off", "bound", "snapshot"} /\ "invalid" \in {"partial", "complete", "invalid"}
        OBVIOUS
      <4> QED BY <1>1, <2>1, <4>1, RecordTypes DEF Start
    <3>2. /\ list'.adds = list.adds /\ list'.ready = list.ready /\ ~list'.closed /\ list'.s_known = list.s_known
          /\ list'.id = list.id /\ list'.epoch = list.epoch
      BY <1>1, <2>1 DEF Start, Lists
    <3> QED BY <1>1, <2>0, <2>1, <3>1, <3>2 DEF Start
  <2>2. CASE list.id = 0 /\ UNCHANGED <<list, scope, last_id>>
    BY <1>1, <2>0, <2>2 DEF Start
  <2>3. CASE last_id < MaxLists /\ last_id' = last_id + 1 /\ list' = Unobserved /\ scope' = s
    <3>1. /\ Unobserved \in Lists /\ Unobserved.id = last_id + 1 /\ Unobserved.epoch = 0 /\ ~Unobserved.ready
          /\ ~Unobserved.closing /\ ~Unobserved.closed /\ ~Unobserved.s_known /\ Unobserved.adds = {}
          /\ s \in Scopes /\ s.generation = last_id + 1 /\ s.invalid
      BY UnobservedEffect DEF s
    <3> QED BY <2>0, <2>3, <3>1
  <2> QED BY <1>0, <2>1, <2>2, <2>3
<1>4. Types' /\ NumbersFit'
  BY <1>0, <1>2, <1>3 DEF IInv, Types, NumbersFit
<1>5. NativeFits' /\ SealedIsClosed' /\ Over(list, scope)'
  BY <1>0, <1>2, <1>3 DEF NativeFits, SealedIsClosed, Over
<1>6. BegunFits'
  BY <1>0, <1>2, <1>3 DEF IInv, BegunFits
<1> QED BY <1>0, <1>4, <1>5, <1>6, OverKeeps

(* A published recording: nothing is known of it but its beginning.        *)
LEMMA PublishedEffect ==
  ASSUME NEW x, x.id \in Nat, sampled \in Nat, epoch \in Nat
  PROVE  LET y == Published(x)
         IN  /\ y \in Lists /\ y.adds = {} /\ y.id = x.id /\ y.ready /\ ~y.closing /\ ~y.closed
             /\ y.epoch = (IF sampled = epoch THEN sampled ELSE 0)
             /\ y.om = "off" /\ ~y.dirty /\ ~y.pend_rt /\ y.open = 0 /\ ~y.seen /\ y.ready_mode = "unknown"
<1> DEFINE e == IF sampled = epoch THEN sampled ELSE 0
           y == Published(x)
<1>1. y = [NoList EXCEPT !.id = x.id, !.epoch = e, !.ready = TRUE, !.q_known = TRUE, !.c_known = TRUE, !.s_known = TRUE]
  BY DEF Published
<1>2. e \in Nat
  OBVIOUS
<1> HIDE DEF e, y
<1>3. y \in Lists
  BY <1>1, <1>2, NewLists
<1>4. /\ y.adds = {} /\ y.id = x.id /\ y.ready /\ ~y.closing /\ ~y.closed /\ y.epoch = e
      /\ y.om = "off" /\ ~y.dirty /\ ~y.pend_rt /\ y.open = 0 /\ ~y.seen /\ y.ready_mode = "unknown"
  BY <1>1 DEF NoList
<1> QED BY <1>3, <1>4 DEF y, e

(* The scope of a list that was reset.                                     *)
LEMMA ResetScope ==
  ASSUME NEW s \in Scopes, s.generation # 0, enabled \in BOOLEAN
  PROVE  LET t == successful_reset(s)
         IN  t \in Scopes /\ t.generation = s.generation /\ ~t.active /\ ~t.suspended /\ ~t.prior_work
BY DEF successful_reset, Scopes, NoScope

(* publish: the sampled epoch counts only if it is still the epoch.        *)
LEMMA PublishKeeps ==
  ASSUME IInv, NEW works \in BOOLEAN, publish(works)
  PROVE  IInv'
<1> DEFINE e == IF sampled = epoch THEN sampled ELSE 0
           v == [NoList EXCEPT !.id = list.id, !.closing = list.closing, !.epoch = e, !.graphics = "invalid"]
           y == invalidate(v, scope, {"reset_failed"}, works)
<1>1. /\ resetting /\ resetting' = FALSE /\ sampled' = 0 /\ injected' = {} /\ planned' = "no"
      /\ UNCHANGED <<enabled, epoch, floor, mask, session, changes, last_id, now>>
      /\ \/ list.id = 0 /\ UNCHANGED <<list, scope>>
         \/ list.id # 0 /\ now.native = "recording" /\ list' = Published(list) /\ scope' = successful_reset(scope)
         \/ list.id # 0 /\ now.native # "recording" /\ list' = [y EXCEPT !.adds = {}] /\ scope' = invalidate_scope(scope)
  <2> HIDE DEF y
  <2> QED BY DEF publish, control, y
<1>2. /\ Start /\ Types /\ NumbersFit /\ NativeFits /\ BegunFits /\ ~list.ready /\ list.id \in Nat /\ e \in Nat /\ e <= epoch
      /\ (list.closed => FALSE)
  BY <1>1, Starts DEF IInv, NativeFits, Types, NumbersFit, Lists, SealedIsClosed
<1>3. CASE list.id = 0 /\ UNCHANGED <<list, scope>>
  <2>1. Types' /\ NumbersFit'
    <3>0. epoch \in Nat /\ 0 \in Nat
      BY <1>2 DEF Types
    <3>1. Types'
      BY <1>1, <1>2, <1>3, <3>0 DEF Types
    <3>2. NumbersFit'
      BY <1>1, <1>2, <1>3, <3>0 DEF NumbersFit
    <3> QED BY <3>1, <3>2
  <2>2. NativeFits' /\ SealedIsClosed' /\ Over(list, scope)' /\ BegunFits'
    BY <1>1, <1>2, <1>3 DEF NativeFits, SealedIsClosed, Over, BegunFits
  <2> QED BY <1>1, <2>1, <2>2, OverKeeps
<1>4. CASE list.id # 0 /\ now.native = "recording" /\ list' = Published(list) /\ scope' = successful_reset(scope)
  <2>1. /\ list' \in Lists /\ list'.adds = {} /\ list'.id = list.id /\ list'.ready /\ ~list'.closing /\ ~list'.closed
        /\ list'.epoch = e
        /\ list'.om = "off" /\ ~list'.dirty /\ ~list'.pend_rt /\ list'.open = 0 /\ ~list'.seen /\ list'.ready_mode = "unknown"
    BY <1>2, <1>4, PublishedEffect DEF Types
  <2>2. scope' \in Scopes /\ scope'.generation = list.id /\ ~scope'.active /\ ~scope'.suspended /\ ~scope'.prior_work
    BY <1>2, <1>4, ResetScope DEF Types, Start
  <2>3. ~now.gap /\ now.pass = "none" /\ ~now.blind /\ now.q = 0 /\ now.hold # "local"
    BY <1>1, <1>2, <1>4 DEF NativeFits
  <2>4. Types' /\ NumbersFit'
    <3>0. epoch \in Nat /\ 0 \in Nat
      BY <1>2 DEF Types
    <3>1. Types'
      BY <1>1, <1>2, <2>1, <2>2, <3>0 DEF Types
    <3>2. NumbersFit'
      BY <1>1, <1>2, <2>1, <2>2, <3>0 DEF NumbersFit
    <3> QED BY <3>1, <3>2
  <2>5. NativeFits' /\ SealedIsClosed'
    BY <1>1, <1>2, <1>4, <2>1 DEF NativeFits, SealedIsClosed
  <2>6. BegunFits'
    BY <1>1, <1>2, <1>4, <2>1 DEF BegunFits, Types
  <2>7. Fits(list, scope, now)'
    <3>1. scope' \in Scopes /\ ~now'.gap /\ ~now'.blind /\ now'.hold # "local" /\ now'.pass = "none" /\ now'.q = 0
      BY <1>1, <2>2, <2>3
    <3>2. ScopeFits(scope, now)' /\ ProofsFit(list, now)' /\ DrawnFits(list, now)'
      BY <2>1, <2>2, <3>1 DEF ScopeFits, ProofsFit, DrawnFits, Scopes
    <3> QED BY <3>2 DEF Fits
  <2>8. AddsFitTheRecording' /\ AddsAreObserved' /\ PlansAreCurrent'
    BY <1>1 DEF AddsFitTheRecording, AddsAreObserved, PlansAreCurrent
  <2> QED BY <2>4, <2>5, <2>6, <2>7, <2>8 DEF IInv
<1>5. CASE list.id # 0 /\ now.native # "recording" /\ list' = [y EXCEPT !.adds = {}] /\ scope' = invalidate_scope(scope)
  <2>1. v \in Lists /\ v.id = list.id /\ v.epoch = e /\ ~v.ready /\ ~v.closed /\ ~v.s_known
    <3>1. list.closing \in BOOLEAN
      BY <1>2 DEF Start, Lists
    <3> HIDE DEF e
    <3>2. v \in Lists
      BY <1>2, <3>1, NewLists
    <3> QED BY <3>2 DEF NoList
  <2> HIDE DEF v
  <2>2. Later(v, y)
    <3>1. {"reset_failed"} # {} /\ {"reset_failed"} # {"pass_begin"}
      BY Zenon
    <3>2. Over(v, scope)
      BY <2>1 DEF Over
    <3> QED BY <1>2, <2>1, <3>1, <3>2, DoubtEffect DEF Keeps, Start
  <2> HIDE DEF y
  <2>3. /\ list' \in Lists /\ list'.adds = {} /\ list'.id = list.id /\ list'.epoch = e /\ ~list'.ready /\ ~list'.closed
        /\ ~list'.s_known
    <3>1. y \in Lists /\ FALSE \in BOOLEAN /\ {} \in SUBSET Work
      BY <2>2 DEF Later
    <3>2. list' \in Lists
      BY <1>5, <3>1, StagingTypes
    <3>3. /\ list'.adds = {} /\ list'.id = y.id /\ list'.epoch = y.epoch /\ list'.ready = y.ready /\ list'.closed = y.closed
          /\ list'.s_known = y.s_known
      BY <1>5, <3>1 DEF Lists
    <3> QED BY <2>1, <2>2, <3>2, <3>3 DEF Later
  <2>4. scope' \in Scopes /\ scope'.generation = list.id
    BY <1>2, <1>5 DEF invalidate_scope, Scopes, Start
  <2>5. Types' /\ NumbersFit'
    <3>0. epoch \in Nat /\ 0 \in Nat
      BY <1>2 DEF Types
    <3>1. Types'
      BY <1>1, <1>2, <2>3, <2>4, <3>0 DEF Types
    <3>2. NumbersFit'
      BY <1>1, <1>2, <2>3, <2>4, <3>0 DEF NumbersFit
    <3> QED BY <3>1, <3>2
  <2>6. NativeFits' /\ SealedIsClosed' /\ Over(list, scope)' /\ BegunFits'
    BY <1>1, <1>2, <1>5, <2>3 DEF NativeFits, SealedIsClosed, Over, BegunFits
  <2> QED BY <1>1, <2>5, <2>6, OverKeeps
<1> QED BY <1>1, <1>3, <1>4, <1>5

(* create: seen, the list is published at once; unseen, it is unknown.     *)
LEMMA CreateKeeps ==
  ASSUME IInv, NEW seen \in BOOLEAN, NEW state \in {"recording", "closed"}, NEW display \in Displays,
         create(seen, state, display)
  PROVE  IInv'
<1> DEFINE v == [NoList EXCEPT !.id = last_id + 1]
           s == [NoScope EXCEPT !.generation = last_id + 1]
           f == Fresh(display, "free")
<1>1. /\ now.native = "none" /\ ~resetting /\ resetting' = resetting /\ sampled' = sampled
      /\ \/ /\ last_id < MaxLists /\ last_id' = last_id + 1 /\ now' = f
            /\ list' = [Published(v) EXCEPT !.epoch = epoch] /\ scope' = successful_reset(s)
         \/ UNCHANGED <<list, scope, last_id>> /\ now' = [f EXCEPT !.native = state, !.gap = TRUE, !.begun = FALSE]
      /\ injected' = {} /\ planned' = "no" /\ UNCHANGED <<enabled, epoch, floor, mask, session, changes>>
  BY DEF create, control, native
<1>2. /\ Start /\ Types /\ NumbersFit /\ list.id = 0 /\ ~list.ready /\ ~list.closed /\ ~list.s_known
      /\ last_id \in Nat /\ MaxLists \in Nat /\ epoch \in Nat /\ sampled \in Nat
  BY <1>1, Starts, PfdRecordingAssumption DEF IInv, NativeFits, Types
<1>3. /\ f \in Apps /\ f.native = "recording" /\ f.pass = "none" /\ ~f.blind /\ f.q = 0
      /\ f.hold = "free" /\ ~f.bound /\ ~f.gap /\ f.begun
  BY FreshTypes
<1> HIDE DEF f
<1>4. CASE /\ last_id < MaxLists /\ last_id' = last_id + 1 /\ now' = f
           /\ list' = [Published(v) EXCEPT !.epoch = epoch] /\ scope' = successful_reset(s)
  <2>1. v.id = last_id + 1 /\ v.id \in Nat
    BY <1>2 DEF NoList
  <2> HIDE DEF v
  <2>2. /\ Published(v) \in Lists /\ Published(v).adds = {} /\ Published(v).id = v.id /\ Published(v).ready
        /\ ~Published(v).closing /\ ~Published(v).closed /\ Published(v).om = "off" /\ ~Published(v).dirty
        /\ ~Published(v).pend_rt /\ Published(v).open = 0 /\ ~Published(v).seen /\ Published(v).ready_mode = "unknown"
    BY <1>2, <2>1, PublishedEffect
  <2>3. list' \in Lists
    <3>1. \A x \in Lists, e \in Nat : [x EXCEPT !.epoch = e] \in Lists
      BY Zenon DEF Lists
    <3> QED BY <1>2, <1>4, <2>2, <3>1
  <2>4. /\ list'.adds = {} /\ list'.id = last_id + 1 /\ list'.ready /\ ~list'.closing /\ ~list'.closed
        /\ list'.epoch = epoch
        /\ list'.om = "off" /\ ~list'.dirty /\ ~list'.pend_rt /\ list'.open = 0 /\ ~list'.seen
        /\ list'.ready_mode = "unknown"
    BY <1>4, <2>1, <2>2 DEF Lists
  <2>5. s \in Scopes /\ s.generation = last_id + 1 /\ s.generation # 0
    <3>1. last_id + 1 \in Nat /\ last_id + 1 # 0
      BY <1>2
    <3>2. s \in Scopes /\ s.generation = last_id + 1
      BY <3>1 DEF NoScope, Scopes
    <3> QED BY <3>1, <3>2
  <2> HIDE DEF s
  <2>6. scope' \in Scopes /\ scope'.generation = last_id + 1 /\ ~scope'.active /\ ~scope'.suspended /\ ~scope'.prior_work
    BY <1>2, <1>4, <2>5, ResetScope DEF Types
  <2>7. Types'
    BY <1>1, <1>2, <1>3, <1>4, <2>3, <2>4, <2>6 DEF Types
  <2>8. NumbersFit'
    <3>1. last_id' <= MaxLists
      BY <1>2, <1>4
    <3> QED BY <1>1, <1>2, <1>4, <2>4, <2>6, <3>1 DEF NumbersFit
  <2>9. NativeFits' /\ SealedIsClosed' /\ BegunFits'
    BY <1>1, <1>2, <1>3, <1>4, <2>4 DEF NativeFits, SealedIsClosed, BegunFits
  <2>10. Fits(list, scope, now)'
    <3>1. ScopeFits(scope, now)' /\ ProofsFit(list, now)' /\ DrawnFits(list, now)'
      BY <1>3, <1>4, <2>4, <2>6 DEF ScopeFits, ProofsFit, DrawnFits, Scopes
    <3> QED BY <3>1 DEF Fits
  <2>11. AddsFitTheRecording' /\ AddsAreObserved' /\ PlansAreCurrent'
    BY <1>1 DEF AddsFitTheRecording, AddsAreObserved, PlansAreCurrent
  <2> QED BY <2>7, <2>8, <2>9, <2>10, <2>11 DEF IInv
<1>5. CASE UNCHANGED <<list, scope, last_id>> /\ now' = [f EXCEPT !.native = state, !.gap = TRUE, !.begun = FALSE]
  <2>1. now' \in Apps /\ now'.native = state
    BY <1>3, <1>5 DEF Apps
  <2>2. Types'
    BY <1>1, <1>2, <1>5, <2>1 DEF Types
  <2>3. NumbersFit'
    BY <1>1, <1>2, <1>5 DEF NumbersFit
  <2>4. NativeFits' /\ SealedIsClosed' /\ Over(list, scope)' /\ BegunFits'
    BY <1>1, <1>2, <1>5, <2>1 DEF NativeFits, SealedIsClosed, Over, BegunFits
  <2> QED BY <1>1, <2>2, <2>3, <2>4, OverKeeps
<1> QED BY <1>1, <1>4, <1>5

(* destroy: the list leaves the registry, and its number is not used       *)
(* again.                                                                  *)
LEMMA DestroyKeeps ==
  ASSUME IInv, destroy
  PROVE  IInv'
<1>1. /\ ~resetting /\ list' = NoList /\ scope' = NoScope /\ now' = [now EXCEPT !.native = "none"]
      /\ injected' = {} /\ planned' = "no"
      /\ UNCHANGED <<enabled, epoch, floor, mask, session, changes, resetting, sampled, last_id>>
  BY DEF destroy, control, native
<1>2. Start /\ Types /\ NumbersFit /\ last_id \in Nat /\ epoch \in Nat
  BY Starts DEF IInv, Types
<1>3. /\ list' \in Lists /\ list'.adds = {} /\ list'.id = 0 /\ list'.epoch = 0 /\ ~list'.ready /\ ~list'.closed
      /\ ~list'.s_known /\ scope' \in Scopes /\ scope'.generation = 0
  <2>1. NoList \in Lists /\ NoList.adds = {}
    BY NewLists
  <2> QED BY <1>1, <2>1 DEF NoList, NoScope, Scopes
<1>4. now' \in Apps /\ now'.native = "none"
  BY <1>1, <1>2 DEF Types, Apps
<1>5. Types'
  BY <1>1, <1>2, <1>3, <1>4 DEF Types
<1>6. NumbersFit'
  BY <1>1, <1>2, <1>3 DEF NumbersFit
<1>7. NativeFits' /\ SealedIsClosed' /\ Over(list, scope)' /\ BegunFits'
  BY <1>1, <1>3, <1>4 DEF NativeFits, SealedIsClosed, Over, BegunFits
<1> QED BY <1>1, <1>5, <1>6, <1>7, OverKeeps

(* A plan finds the floor of the session: what is older was not begun in it. *)
LEMMA PlanKeeps ==
  ASSUME IInv, plan
  PROVE  IInv'
<1>1. /\ now.native = "closed" /\ list.epoch >= floor /\ list.s_known /\ planned' = "yes" /\ injected' = {}
      /\ UNCHANGED <<list, scope, enabled, epoch, floor, mask, session, changes, resetting, sampled, last_id, now>>
  BY DEF plan, control, native
<1>2. now.begun
  BY <1>1 DEF IInv, BegunFits, Types, Lists
<1>3. Types' /\ NumbersFit' /\ NativeFits' /\ BegunFits' /\ SealedIsClosed'
  BY <1>1 DEF IInv, Types, NumbersFit, NativeFits, BegunFits, SealedIsClosed
<1>4. Fits(list, scope, now)'
  BY <1>1 DEF IInv, Fits, ScopeFits, ProofsFit, DrawnFits, Over, recording_observed, Observing
<1>5. AddsFitTheRecording' /\ AddsAreObserved' /\ PlansAreCurrent'
  BY <1>1, <1>2 DEF AddsFitTheRecording, AddsAreObserved, PlansAreCurrent
<1> QED BY <1>3, <1>4, <1>5 DEF IInv

(* The control thread: a new epoch ends every recording the bridge added to. *)
LEMMA EpochKeeps ==
  ASSUME IInv, set_graphics_observation_demand \/ reset_session
  PROVE  IInv'
<1>1. /\ (epoch' = epoch + 1 \/ epoch' = epoch + 2)
      /\ \/ floor' = floor /\ session' = session /\ now' = now
         \/ floor' = epoch' /\ session' = "clearing" /\ now' = [now EXCEPT !.begun = FALSE]
      /\ changes < MaxChanges /\ changes' = changes + 1 /\ injected' = {} /\ planned' = "no"
      /\ UNCHANGED <<list, scope, enabled, mask, resetting, sampled, last_id>>
  <2>1. CASE set_graphics_observation_demand
    BY <2>1 DEF set_graphics_observation_demand, disturb, native
  <2>2. CASE reset_session
    BY <2>2 DEF reset_session, disturb, native
  <2> QED BY <2>1, <2>2
<1>2. /\ Types /\ NumbersFit /\ NativeFits /\ BegunFits /\ SealedIsClosed /\ epoch \in Nat /\ floor \in Nat /\ changes \in Nat
      /\ MaxChanges \in Nat /\ sampled \in Nat /\ list.epoch \in Nat /\ now \in Apps
  BY PfdRecordingAssumption DEF IInv, Types, Lists
<1>3. /\ now' \in Apps /\ now'.native = now.native /\ now'.gap = now.gap /\ now'.pass = now.pass /\ now'.blind = now.blind
      /\ now'.q = now.q /\ now'.hold = now.hold /\ now'.bound = now.bound
      /\ (now'.begun = now.begun \/ floor' = epoch')
  BY <1>1, <1>2 DEF Apps
<1>4. epoch' \in Nat /\ floor' \in Nat /\ changes' \in Nat
  BY <1>1, <1>2
<1>5. Types'
  BY <1>1, <1>2, <1>3, <1>4 DEF Types
<1>6. NumbersFit'
  BY <1>1, <1>2, <1>4 DEF NumbersFit
<1>7. NativeFits' /\ SealedIsClosed'
  BY <1>1, <1>2, <1>3 DEF NativeFits, SealedIsClosed
<1>8. list.epoch < epoch' /\ sampled < epoch'
  BY <1>1, <1>2 DEF NumbersFit
<1>9. BegunFits'
  BY <1>1, <1>2, <1>3, <1>8 DEF BegunFits
<1>10. Over(list, scope)'
  BY <1>1, <1>2, <1>8 DEF Over, recording_observed
<1> QED BY <1>1, <1>5, <1>6, <1>7, <1>9, <1>10, OverKeeps

(* The other steps of that thread leave the epoch.                         *)
LEMMA ControlKeeps ==
  ASSUME IInv,
         clear_session \/ (\E m \in {"off", "camera", "calibrate"} : select(m)) \/ disable_capture \/ repaired
  PROVE  IInv'
<1>1. /\ injected' = {} /\ planned' = "no"
      /\ (changes' = changes \/ (changes < MaxChanges /\ changes' = changes + 1))
      /\ mask' \in {"off", "camera", "calibrate"} /\ session' \in {"no", "clearing"} /\ enabled' \in BOOLEAN
      /\ UNCHANGED <<list, epoch, floor, resetting, sampled, last_id, now>>
      /\ (scope' = scope \/ scope' = invalidate_scope(scope))
  <2>0. mask \in {"off", "camera", "calibrate"} /\ session \in {"no", "clearing"} /\ enabled \in BOOLEAN
    BY DEF IInv, Types
  <2>1. CASE clear_session
    BY <2>0, <2>1 DEF clear_session, native
  <2>2. CASE \E m \in {"off", "camera", "calibrate"} : select(m)
    BY <2>0, <2>2 DEF select, disturb, native
  <2>3. CASE disable_capture
    BY <2>0, <2>3 DEF disable_capture, disturb, native
  <2>4. CASE repaired
    BY <2>0, <2>4 DEF repaired, disturb, native
  <2> QED BY <2>1, <2>2, <2>3, <2>4
<1>2. /\ Types /\ NumbersFit /\ NativeFits /\ BegunFits /\ SealedIsClosed /\ changes \in Nat /\ MaxChanges \in Nat /\ epoch \in Nat
  BY PfdRecordingAssumption DEF IInv, Types
<1>3. scope' \in Scopes /\ scope'.generation = scope.generation /\ (scope' = scope \/ Over(list, scope'))
  BY <1>1, <1>2 DEF invalidate_scope, Types, NumbersFit, NativeFits, Over, Scopes
<1>4. Types'
  BY <1>1, <1>2, <1>3 DEF Types
<1>5. NumbersFit'
  BY <1>1, <1>2, <1>3 DEF NumbersFit
<1>6. NativeFits' /\ BegunFits' /\ SealedIsClosed'
  BY <1>1, <1>2 DEF NativeFits, BegunFits, SealedIsClosed
<1>7. Fits(list, scope, now)'
  BY <1>1, <1>3 DEF IInv, Fits, ScopeFits, ProofsFit, DrawnFits, Over, recording_observed, Observing
<1>8. AddsFitTheRecording' /\ AddsAreObserved' /\ PlansAreCurrent'
  BY <1>1 DEF AddsFitTheRecording, AddsAreObserved, PlansAreCurrent
<1> QED BY <1>4, <1>5, <1>6, <1>7, <1>8 DEF IInv
-----------------------------------------------------------------------------
(* The invariant holds at first ...                                        *)
LEMMA InitHolds == Init => IInv
<1> SUFFICES ASSUME Init PROVE IInv
  OBVIOUS
<1>1. /\ list = NoList /\ scope = NoScope /\ enabled = TRUE /\ epoch = 1 /\ floor = 0 /\ session = "no"
      /\ mask \in {"off", "camera", "calibrate"} /\ changes = 0 /\ resetting = FALSE /\ sampled = 0 /\ last_id = 0
      /\ now = [Fresh("away", "free") EXCEPT !.native = "none"] /\ injected = {} /\ planned = "no"
  BY DEF Init
<1>2. list \in Lists /\ list.adds = {} /\ list.id = 0 /\ list.epoch = 0 /\ ~list.ready /\ ~list.closed /\ ~list.s_known
  <2>1. NoList \in Lists /\ NoList.adds = {}
    BY NewLists
  <2> QED BY <1>1, <2>1 DEF NoList
<1>3. scope \in Scopes /\ scope.generation = 0
  BY <1>1 DEF NoScope, Scopes
<1>4. now \in Apps /\ now.native = "none"
  <2>1. Fresh("away", "free") \in Apps
    BY FreshTypes DEF Displays
  <2> QED BY <1>1, <2>1 DEF Apps
<1>5. Types
  BY <1>1, <1>2, <1>3, <1>4 DEF Types
<1>6. NumbersFit
  BY <1>1, <1>2, <1>3, PfdRecordingAssumption DEF NumbersFit
<1>7. NativeFits /\ BegunFits /\ Fits(list, scope, now)
  BY <1>1, <1>2, <1>4 DEF NativeFits, BegunFits, Fits, Over
<1>8. AddsFitTheRecording /\ AddsAreObserved /\ PlansAreCurrent /\ SealedIsClosed
  BY <1>1, <1>2 DEF AddsFitTheRecording, AddsAreObserved, PlansAreCurrent, SealedIsClosed
<1> QED BY <1>5, <1>6, <1>7, <1>8 DEF IInv

LEMMA StutterKeeps ==
  ASSUME IInv, UNCHANGED vars
  PROVE  IInv'
<1>1. UNCHANGED <<list, scope, enabled, epoch, floor, mask, session, changes, resetting, sampled, last_id, now, injected, planned>>
  BY DEF vars, control, native
<1>2. Types' /\ NumbersFit' /\ NativeFits' /\ BegunFits'
  BY <1>1 DEF IInv, Types, NumbersFit, NativeFits, BegunFits
<1>3. Fits(list, scope, now)'
  BY <1>1 DEF IInv, Fits, ScopeFits, ProofsFit, DrawnFits, Over, recording_observed, Observing
<1>4. AddsFitTheRecording' /\ AddsAreObserved' /\ PlansAreCurrent' /\ SealedIsClosed'
  BY <1>1 DEF IInv, AddsFitTheRecording, AddsAreObserved, PlansAreCurrent, SealedIsClosed
<1> QED BY <1>2, <1>3, <1>4 DEF IInv

(* ... every step keeps it ...                                             *)
LEMMA NextKeeps == IInv /\ [Next]_vars => IInv'
<1> SUFFICES ASSUME IInv, [Next]_vars PROVE IInv'
  OBVIOUS
<1>1. CASE Recording
  <2>1. CASE \E works \in IF mask = "camera" THEN BOOLEAN ELSE {TRUE} :
                \/ draw(works) \/ unsupported(works) \/ end_query(works) \/ end_pass(works)
                \/ \E api \in Modes, steps \in Batches : barrier(api, steps, works)
                \/ \E display, known, snap \in BOOLEAN : bind_targets(display, known, snap, works)
                \/ \E suspending, resuming, ordinary, display, known, installs \in BOOLEAN :
                     begin_pass(suspending, resuming, ordinary, display, known, installs, works)
                \/ \E succeeds \in BOOLEAN : close(succeeds, works)
                \/ publish(works)
    <3>0. PICK works \in IF mask = "camera" THEN BOOLEAN ELSE {TRUE} :
                \/ draw(works) \/ unsupported(works) \/ end_query(works) \/ end_pass(works)
                \/ \E api \in Modes, steps \in Batches : barrier(api, steps, works)
                \/ \E display, known, snap \in BOOLEAN : bind_targets(display, known, snap, works)
                \/ \E suspending, resuming, ordinary, display, known, installs \in BOOLEAN :
                     begin_pass(suspending, resuming, ordinary, display, known, installs, works)
                \/ \E succeeds \in BOOLEAN : close(succeeds, works)
                \/ publish(works)
      BY <2>1, Zenon
    <3>1. works \in BOOLEAN
      OBVIOUS
    <3>2. CASE draw(works)
      BY <3>1, <3>2, DrawKeeps
    <3>3. CASE unsupported(works)
      BY <3>1, <3>3, UnsupportedKeeps
    <3>4. CASE end_query(works)
      BY <3>1, <3>4, QueryKeeps
    <3>5. CASE end_pass(works)
      BY <3>1, <3>5, EndPassKeeps
    <3>6. CASE \E api \in Modes, steps \in Batches : barrier(api, steps, works)
      BY <3>1, <3>6, BarrierKeeps
    <3>7. CASE \E display, known, snap \in BOOLEAN : bind_targets(display, known, snap, works)
      BY <3>1, <3>7, BindKeeps
    <3>8. CASE \E suspending, resuming, ordinary, display, known, installs \in BOOLEAN :
                 begin_pass(suspending, resuming, ordinary, display, known, installs, works)
      <4> DEFINE flags == BOOLEAN
      <4>1. \A suspending, resuming, ordinary, display, known, installs \in flags :
              begin_pass(suspending, resuming, ordinary, display, known, installs, works) => IInv'
        BY <3>1, BeginPassKeeps, Zenon
      <4>2. \E suspending, resuming, ordinary, display, known, installs \in flags :
              begin_pass(suspending, resuming, ordinary, display, known, installs, works)
        BY <3>8
      <4> HIDE DEF flags
      <4> QED BY <4>1, <4>2, Zenon
    <3>9. CASE \E succeeds \in BOOLEAN : close(succeeds, works)
      BY <3>1, <3>9, CloseKeeps
    <3>10. CASE publish(works)
      BY <3>1, <3>10, PublishKeeps
    <3> QED BY <3>0, <3>2, <3>3, <3>4, <3>5, <3>6, <3>7, <3>8, <3>9, <3>10
  <2>3. CASE \E complete \in BOOLEAN : setter(complete)
    BY <2>3, SetterKeeps
  <2>4. CASE ensure_list \/ ClearState \/ begin_query \/ destroy
    BY <2>4, EnsureListKeeps, ClearKeeps, QueryKeeps, DestroyKeeps
  <2>5. CASE \E succeeds \in BOOLEAN, display \in Displays, hold \in {"free", "suspended"} : reset(succeeds, display, hold)
    BY <2>5, ResetKeeps
  <2>6. CASE \E seen \in BOOLEAN, state \in {"recording", "closed"}, display \in Displays : create(seen, state, display)
    BY <2>6, CreateKeeps
  <2> QED BY <1>1, <2>1, <2>3, <2>4, <2>5, <2>6, Zenon DEF Recording
<1>2. CASE plan
  BY <1>2, PlanKeeps
<1>3. CASE Control
  BY <1>3, EpochKeeps, ControlKeeps DEF Control
<1>4. CASE UNCHANGED vars
  BY <1>4, StutterKeeps
<1> QED BY <1>1, <1>2, <1>3, <1>4 DEF Next

(* ... and it gives what the run checks.                                   *)
LEMMA IInvGivesSafety == IInv => RecordingSafety
<1> SUFFICES ASSUME IInv PROVE TypeOK
  BY DEF RecordingSafety, IInv
<1>1. Types /\ NumbersFit /\ MaxLists \in Nat /\ MaxChanges \in Nat
  BY PfdRecordingAssumption DEF IInv
<1>2. /\ list.id \in 0..MaxLists /\ list.epoch \in Epochs /\ scope.generation \in 0..MaxLists /\ last_id \in 0..MaxLists
      /\ epoch \in Epochs /\ floor \in Epochs /\ sampled \in Epochs /\ changes \in 0..MaxChanges
  <2>1. /\ list.id \in Nat /\ list.epoch \in Nat /\ scope.generation \in Nat
    BY <1>1 DEF Types, Lists, Scopes
  <2>2. epoch <= 2 * MaxChanges + 1
    BY <1>1 DEF Types, NumbersFit
  <2> QED BY <1>1, <2>1, <2>2 DEF Types, NumbersFit, Epochs
<1>3. list \in [id : 0..MaxLists, epoch : Epochs, ready : BOOLEAN, closing : BOOLEAN,
                closed : BOOLEAN, dirty : BOOLEAN, transition : BOOLEAN, pend : BOOLEAN, pend_rt : BOOLEAN,
                om : {"off", "bound", "snapshot"}, graphics : {"partial", "complete", "invalid"},
                q_known : BOOLEAN, open : 0..1, c_known : BOOLEAN, seen : BOOLEAN,
                pending : Modes \cup {"unknown"}, ready_mode : Modes \cup {"unknown"},
                s_known : BOOLEAN, adds : {{}}]
  <2>1. list.open \in 0..1
    BY <1>1 DEF Types, Lists
  <2> QED BY <1>1, <1>2, <2>1 DEF Types, Lists, Known
<1>4. scope \in [generation : 0..MaxLists, active : BOOLEAN, suspended : BOOLEAN, invalid : BOOLEAN,
                 prior_work : BOOLEAN]
  BY <1>1, <1>2 DEF Types, Scopes
<1> QED BY <1>1, <1>2, <1>3, <1>4 DEF TypeOK, Types

(* In every behaviour, whatever is added to the simulator's list goes to a  *)
(* recording that was observed from its Reset, outside its passes, with the *)
(* display in the state the addition relies on; batches are planned over    *)
(* sealed recordings of this session (the hooks' work in bridge/d3d12_bridge *)
(* and hooks/render_boundary_observer).                                     *)
THEOREM RecordingSafe == Spec => []RecordingSafety
<1>1. Spec => []IInv
  BY InitHolds, NextKeeps, PTL DEF Spec
<1> QED BY <1>1, IInvGivesSafety, PTL
-----------------------------------------------------------------------------
(* A batch and its ledgers: what the variables are.                        *)
PassStates == {"none", "open", "suspending"}
PfdSlots == [seen : BOOLEAN, exit : BOOLEAN, prefix_exit : BOOLEAN, leading_exit : BOOLEAN,
          wrote : BOOLEAN, first_before : Submission!States, after : Submission!States]
Ledgers == [known : BOOLEAN, closed : BOOLEAN, active_pass : BOOLEAN, barrier_only : BOOLEAN,
            interference : BOOLEAN, slot : PfdSlots]

(* The display, as the application leaves it, and patches.                 *)
Displayed == [state : Submission!States, entry : Submission!States, pass : PassStates, hold : BOOLEAN, began : BOOLEAN,
             wrote : BOOLEAN, own : BOOLEAN]
Traces == [entry : Submission!States, exit : Submission!States, wrote : BOOLEAN, began : BOOLEAN, held : BOOLEAN]
Patches == [generation : Nat, target : BOOLEAN]

BatchTypes ==
  /\ proof \in Ledgers /\ batch \in Seq(Ledgers) /\ submission_now \in Displayed
        /\ trace \in Seq(Traces)
  /\ stage \in {"recording", "sampled", "planned", "submitted"} /\ generation \in Nat \ {0}
  /\ target \in BOOLEAN /\ active \in BOOLEAN /\ config \in Patches /\ patches \in Patches
  /\ submission_sampled \in [generation : Nat, patches : Patches]
        /\ submission_changes \in 0..MaxSelections
  /\ Len(batch) = Len(trace) /\ Len(batch) <= MaxBatch /\ generation <= submission_changes + 1

(* What a ledger says of its list: where the display was and where it is   *)
(* left, that every write shows, and that no ledger survives a list that   *)
(* begins or ends in a suspended pass, unless it is empty.                 *)
LedgerFits(p, state, entry, wrote, began, held) ==
  /\ held => began
  /\ began => held /\ ~p.slot.seen
  /\ p.slot.seen => p.slot.first_before = entry /\ p.slot.after = state
  /\ ~p.slot.seen => state = entry /\ ~wrote
  /\ wrote => p.slot.wrote /\ ~p.barrier_only

(* The ledger of the present list is true of the display, and of each      *)
(* closed one of what its list made of it.                                 *)
IsTrue(p, n) ==
  p.known =>
     /\ LedgerFits(p, n.state, n.entry, n.wrote, n.began, n.hold)
     /\ n.own => p.slot.seen
     /\ p.slot.seen /\ p.slot.after \in Submission!writable_gpu_state => p.slot.wrote
     /\ n.began => n.pass = "none"
     /\ n.pass # "suspending"
LedgerIsTrue == IsTrue(proof, submission_now)
BatchFits == \A n \in DOMAIN batch : Submission!complete(batch[n]) =>
   LET t == trace[n] IN LedgerFits(batch[n], t.exit, t.entry, t.wrote, t.began, t.held)

(* Whatever is of the present generation is of the present selection.      *)
PatchesFit ==
  /\ \A p \in {config, patches} : p.generation <= generation /\ (p.generation = generation
        => p.target = target)
  /\ submission_sampled.generation <= generation
  /\ submission_sampled.patches.generation = generation
        => submission_sampled.patches.target = target
  /\ submission_sampled.patches.generation <= generation

(* A plan is of this batch; it was made from patches of its generation.    *)
PlanFits ==
  submission_plan # Submission!NoPlan =>
    /\ stage \in {"planned", "submitted"} /\ submission_plan.site = Submission!batch_overlay
          /\ submission_plan.site # Submission!NoSite
    /\ submission_plan.generation <= generation /\ submission_plan.made = submission_plan.generation
    /\ submission_sampled.patches.generation = submission_plan.made
    /\ submission_plan.generation = generation => target
    /\ stage = "submitted" => submission_plan.generation = generation /\ active

BatchIInv == BatchTypes /\ LedgerIsTrue /\ BatchFits /\ PatchesFit /\ PlanFits

(* What the variables are, wherever it is of use.                          *)
USE DEF PfdSlots, Ledgers, Displayed, PassStates

(* The first values of a ledger are ledgers.                               *)
LEMMA ResetTypes == Submission!reset \in Ledgers /\ Submission!NoSlot \in PfdSlots
BY DEF Submission!reset, Submission!NoSlot, Submission!States

(* What Overwrites leaves of a slot.                                       *)
LEMMA OverwritesEffect == ASSUME NEW s \in PfdSlots
  PROVE Submission!Overwrites(s) \in PfdSlots /\ Submission!Overwrites(s).seen = s.seen
            /\ Submission!Overwrites(s).first_before = s.first_before
        /\ Submission!Overwrites(s).after = s.after /\ Submission!Overwrites(s).wrote
BY DEF Submission!Overwrites

(* A refused ledger knows nothing.                                         *)
LEMMA InvalidEffect == ASSUME NEW p \in Ledgers
  PROVE Submission!invalidate(p) \in Ledgers /\ ~Submission!invalidate(p).known
BY ResetTypes DEF Submission!invalidate, Submission!reset

(* GPU work ends the ledger of barriers; it may write what was COMMON.     *)
LEMMA GpuEffect == ASSUME NEW p \in Ledgers, NEW b \in BOOLEAN
  PROVE /\ Submission!gpu_work(p, b) \in Ledgers /\ Submission!gpu_work(p, b).known = p.known
        /\ Submission!gpu_work(p, b).active_pass = p.active_pass
        /\ p.known => ~Submission!gpu_work(p, b).barrier_only
              /\ Submission!gpu_work(p, b).slot \in {p.slot, Submission!Overwrites(p.slot)}
        /\ p.known /\ ~p.slot.seen => Submission!gpu_work(p, b).slot = p.slot
<1> DEFINE s == IF b /\ p.slot.seen /\ p.slot.after = "COMMON" THEN Submission!Overwrites(p.slot) ELSE p.slot
           i == p.interference \/ b
<1>1. s \in PfdSlots /\ i \in BOOLEAN /\ s \in {p.slot, Submission!Overwrites(p.slot)} /\ (~p.slot.seen => s = p.slot)
  BY OverwritesEffect
<1>2. Submission!gpu_work(p, b) =
        IF ~p.known THEN p ELSE [p EXCEPT !.barrier_only = FALSE, !.interference = i, !.slot = s]
  BY DEF Submission!gpu_work
<1> HIDE DEF s, i
<1>3. CASE ~p.known
  BY <1>2, <1>3
<1>4. CASE p.known
  <2>1. Submission!gpu_work(p, b) = [p EXCEPT !.barrier_only = FALSE, !.interference = i, !.slot = s]
    BY <1>2, <1>4
  <2> QED BY <1>1, <1>4, <2>1
<1> QED BY <1>3, <1>4

(* Compute work may write what is in a state of unordered access.          *)
LEMMA ComputeEffect == ASSUME NEW p \in Ledgers
  PROVE /\ Submission!compute_work(p) \in Ledgers /\ Submission!compute_work(p).known = p.known
        /\ p.known => ~Submission!compute_work(p).barrier_only
              /\ Submission!compute_work(p).slot \in {p.slot, Submission!Overwrites(p.slot)}
        /\ p.known /\ ~p.slot.seen => Submission!compute_work(p).slot = p.slot
        /\ p.known /\ p.slot.seen /\ p.slot.after = "UAV"
              => Submission!compute_work(p).slot = Submission!Overwrites(p.slot)
<1> DEFINE q == Submission!gpu_work(p, FALSE)
<1>1. q \in Ledgers /\ q.known = p.known /\ (p.known => ~q.barrier_only /\ q.slot = p.slot)
  <2>1. q = IF ~p.known THEN p ELSE [p EXCEPT !.barrier_only = FALSE, !.interference = @ \/ FALSE]
    BY DEF Submission!gpu_work
  <2> HIDE DEF q
  <2> QED BY <2>1
<1>2. Submission!compute_work(p) =
        IF q.known /\ q.slot.seen /\ q.slot.after \in {"COMMON", "UAV"}
          THEN [q EXCEPT !.slot = Submission!Overwrites(q.slot)] ELSE q
  BY DEF Submission!compute_work
<1> HIDE DEF q
<1>3. CASE q.known /\ q.slot.seen /\ q.slot.after \in {"COMMON", "UAV"}
  <2>1. Submission!compute_work(p) = [q EXCEPT !.slot = Submission!Overwrites(q.slot)]
    BY <1>2, <1>3
  <2>2. Submission!Overwrites(p.slot) \in PfdSlots /\ q.slot = p.slot /\ p.slot.seen /\ p.known
    BY <1>1, <1>3, OverwritesEffect
  <2> QED BY <1>1, <2>1, <2>2
<1>4. CASE ~(q.known /\ q.slot.seen /\ q.slot.after \in {"COMMON", "UAV"})
  <2>1. Submission!compute_work(p) = q
    BY <1>2, <1>4
  <2> QED BY <1>1, <1>4, <2>1
<1> QED BY <1>3, <1>4

(* A write that carries its state: afterwards the display is known to have *)
(* been written in it.                                                     *)
LEMMA NoteEffect == ASSUME NEW p \in Ledgers, NEW state \in Submission!States
  PROVE /\ Submission!note_carried_write(p, state) \in Ledgers
            /\ Submission!note_carried_write(p, state).known = p.known
        /\ Submission!note_carried_write(p, state).barrier_only = p.barrier_only
        /\ p.known /\ (p.slot.seen => p.slot.after = state) => 
             LET s == Submission!note_carried_write(p, state).slot IN
              /\ s.seen /\ s.wrote /\ s.after = state /\ s.first_before = IF p.slot.seen
                    THEN p.slot.first_before ELSE state
<1> DEFINE s == IF p.slot.seen THEN p.slot ELSE
      [Submission!NoSlot EXCEPT !.seen = TRUE, !.first_before = state, !.after = state]
<1>1. s \in PfdSlots /\ s.seen /\ (p.slot.seen => s = p.slot) /\ (~p.slot.seen
      => s.after = state /\ s.first_before = state)
  BY ResetTypes DEF Submission!NoSlot
<1> HIDE DEF s
<1>2. Submission!note_carried_write(p, state) = IF ~p.known \/ (p.slot.seen
      /\ p.slot.after # state) THEN p ELSE [p EXCEPT !.slot = Submission!Overwrites(s)]
  BY DEF Submission!note_carried_write, s
<1> QED BY <1>1, <1>2, OverwritesEffect

(* Only an ordinary pass keeps a ledger known.                             *)
LEMMA BeginEffect == ASSUME NEW p \in Ledgers, NEW ordinary \in BOOLEAN
  PROVE LET q == Submission!begin_pass(p, ordinary) IN
        /\ q \in Ledgers /\ (q.known => p.known /\ ordinary /\ ~q.barrier_only
              /\ q.slot \in {p.slot, Submission!Overwrites(p.slot)} /\ (~p.slot.seen
                    => q.slot = p.slot))
<1> DEFINE q == Submission!gpu_work(p, TRUE)
<1>1. q \in Ledgers /\ q.known = p.known /\ (p.known => ~q.barrier_only
      /\ q.slot \in {p.slot, Submission!Overwrites(p.slot)})
      /\ (p.known /\ ~p.slot.seen => q.slot = p.slot)
  BY GpuEffect
<1> HIDE DEF q
<1>2. Submission!begin_pass(p, ordinary) = IF ~q.known THEN q ELSE IF q.active_pass
      \/ ~ordinary THEN Submission!invalidate(q)
                                ELSE [q EXCEPT !.active_pass = TRUE]
  BY DEF Submission!begin_pass, q
<1>3. CASE ~q.known
  BY <1>1, <1>2, <1>3
<1>4. CASE q.known /\ (q.active_pass \/ ~ordinary)
  <2>1. Submission!begin_pass(p, ordinary) = Submission!invalidate(q)
    BY <1>2, <1>4
  <2> QED BY <1>1, <2>1, InvalidEffect
<1>5. CASE q.known /\ ~q.active_pass /\ ordinary
  <2>1. Submission!begin_pass(p, ordinary) = [q EXCEPT !.active_pass = TRUE]
    BY <1>2, <1>5
  <2> QED BY <1>1, <1>5, <2>1
<1> QED BY <1>3, <1>4, <1>5

(* The end of a pass.                                                      *)
LEMMA EndEffect == ASSUME NEW p \in Ledgers
  PROVE LET q == Submission!end_pass(p) IN q \in Ledgers /\ (q.known => p.known
            /\ q.barrier_only = p.barrier_only /\ q.slot = p.slot)
BY InvalidEffect DEF Submission!end_pass

(* The end of a list.                                                      *)
LEMMA CloseEffect == ASSUME NEW p \in Ledgers, NEW b \in BOOLEAN
  PROVE LET q == Submission!close(p, b) IN q \in Ledgers /\ (q.known => p.known
            /\ q.barrier_only = p.barrier_only /\ q.slot = p.slot)
BY InvalidEffect DEF Submission!close

(* A transition: the slot shows where it began and where it led, and a     *)
(* writable state counts as a write.                                       *)
LEMMA LedgerBarrierEffect == ASSUME NEW p \in Ledgers, NEW before \in Submission!States,
  NEW after \in Submission!States
  PROVE LET q == Submission!observe_legacy(p, before, after) IN
        /\ q \in Ledgers 
        /\ q.known => /\ p.known /\ q.slot.seen /\ q.slot.after = after
                      /\ q.slot.first_before = (IF p.slot.seen THEN p.slot.first_before ELSE before)
                      /\ q.barrier_only = p.barrier_only
                      /\ p.slot.wrote \/ after \in Submission!writable_gpu_state => q.slot.wrote
<1> DEFINE s == p.slot
           t == [seen |-> TRUE, after |-> after,
          first_before |-> IF s.seen THEN s.first_before ELSE before,
          exit |-> before = "RT" /\ after \in Submission!copy_restorable,
          leading_exit |-> s.leading_exit \/ (~s.seen /\ before = "RT"
                /\ after \in Submission!copy_restorable),
          prefix_exit |-> (s.prefix_exit \/ Submission!leading(p, before, after))
                /\ after \notin Submission!writable_gpu_state,
          wrote |-> s.wrote \/ after \in Submission!writable_gpu_state]
<1>1. t \in PfdSlots
  <2>1. Submission!leading(p, before, after) \in BOOLEAN
    BY DEF Submission!leading
  <2> QED BY <2>1
<1>2. t.seen /\ t.after = after /\ t.first_before = (IF p.slot.seen THEN p.slot.first_before
      ELSE before)
      /\ (p.slot.wrote \/ after \in Submission!writable_gpu_state => t.wrote)
  BY Zenon
<1> HIDE DEF t
<1>3. Submission!observe_legacy(p, before, after) = IF ~p.known THEN p ELSE IF p.active_pass
      \/ (p.slot.seen /\ p.slot.after # before) THEN Submission!invalidate(p)
        ELSE [p EXCEPT !.slot = t]
  BY DEF Submission!observe_legacy, t
<1> QED BY <1>1, <1>2, <1>3, InvalidEffect

(* A command, whose ledger is true of the display it leaves.               *)
LEMMA RecordedKeeps ==
  ASSUME BatchIInv, NEW p \in Ledgers, NEW n \in Displayed, IsTrue(p, n), Submission!Recorded(p, n)
  PROVE BatchIInv'
<1>1. proof' = p /\ submission_now' \in Displayed /\ (p.known => submission_now' = n)
      /\ UNCHANGED <<batch, trace, Submission!control, stage, submission_sampled, submission_plan>>
  BY DEF Submission!Recorded, Submission!States
<1>2. BatchTypes'
  BY <1>1 DEF BatchIInv, BatchTypes, Submission!control
<1>3. LedgerIsTrue'
  BY <1>1 DEF IsTrue, LedgerIsTrue
<1>4. BatchFits' /\ PatchesFit' /\ PlanFits'
  BY <1>1 DEF BatchIInv, BatchFits, PatchesFit, PlanFits, Submission!control,
        Submission!batch_overlay, Submission!Site
<1> QED BY <1>2, <1>3, <1>4 DEF BatchIInv

(* What a command may rely on.                                             *)
LEMMA StartsTrue == BatchIInv => proof \in Ledgers /\ submission_now \in Displayed /\ IsTrue(proof,
  submission_now)
BY DEF BatchIInv, BatchTypes, LedgerIsTrue, IsTrue

(* A transition of the display.                                            *)
LEMMA TransitionKeeps == ASSUME BatchIInv, NEW after \in Submission!States,
  Submission!transition(after) PROVE BatchIInv'
<1> DEFINE q == Submission!observe_legacy(proof, submission_now.state, after)
           n == [submission_now EXCEPT !.state = after, !.own = TRUE]
<1>1. submission_now.pass = "none" /\ ~submission_now.hold /\ Submission!Recorded(q, n)
  BY DEF Submission!transition
<1>2. q \in Ledgers
        /\ (q.known => /\ proof.known /\ q.slot.seen /\ q.slot.after = after
                      /\ q.slot.first_before = (IF proof.slot.seen
                            THEN proof.slot.first_before ELSE submission_now.state)
                      /\ q.barrier_only = proof.barrier_only
                      /\ (proof.slot.wrote \/ after \in Submission!writable_gpu_state
                            => q.slot.wrote))
  BY StartsTrue, LedgerBarrierEffect
<1>3. n \in Displayed /\ n.state = after /\ n.entry = submission_now.entry
      /\ n.wrote = submission_now.wrote /\ n.began = submission_now.began
      /\ n.hold = submission_now.hold /\ n.pass = submission_now.pass
  BY StartsTrue
<1>4. IsTrue(q, n)
  <2> HIDE DEF q, n
  <2> QED BY <1>1, <1>2, <1>3, StartsTrue DEF IsTrue, LedgerFits
<1> QED
  <2> HIDE DEF q, n
  <2> QED BY <1>1, <1>2, <1>3, <1>4, RecordedKeeps

(* What no ledger can follow.                                              *)
LEMMA UncertainKeeps == ASSUME BatchIInv, NEW after \in Submission!States,
  Submission!uncertain(after) PROVE BatchIInv'
<1>1. Submission!invalidate(proof) \in Ledgers /\ ~Submission!invalidate(proof).known /\
      [submission_now EXCEPT !.state = after] \in Displayed
  BY StartsTrue, InvalidEffect
<1>2. Submission!Recorded(Submission!invalidate(proof), [submission_now EXCEPT !.state = after])
  BY DEF Submission!uncertain
<1> QED BY <1>1, <1>2, RecordedKeeps DEF IsTrue

(* A list that was continued from a suspended pass is not known once       *)
(* something else was recorded into it.                                    *)
LEMMA FreeIsFresh == BatchIInv /\ Submission!Free /\ proof.known => ~submission_now.began
  /\ ~submission_now.hold
BY StartsTrue DEF Submission!Free, IsTrue, LedgerFits

(* A draw or clear.                                                        *)
LEMMA ListDrawKeeps == ASSUME BatchIInv, NEW display \in BOOLEAN, Submission!draw(display)
  PROVE BatchIInv'
<1> DEFINE g == Submission!gpu_work(proof, TRUE)
           q == IF display THEN Submission!note_carried_write(g, "RT") ELSE g
           n == [submission_now EXCEPT !.wrote = @ \/ display]
<1>1. Submission!Recorded(q, n) /\ Submission!Free /\ (display => submission_now.state = "RT")
  BY DEF Submission!draw
<1>2. g \in Ledgers /\ g.known = proof.known /\ (g.known => ~g.barrier_only
      /\ g.slot \in {proof.slot, Submission!Overwrites(proof.slot)})
      /\ (g.known /\ ~proof.slot.seen => g.slot = proof.slot)
  BY GpuEffect, StartsTrue
<1>3. n \in Displayed /\ n.state = submission_now.state /\ n.entry = submission_now.entry
      /\ n.began = submission_now.began
      /\ n.hold = submission_now.hold /\ n.pass = submission_now.pass
            /\ n.own = submission_now.own /\ (~display => n.wrote = submission_now.wrote)
  BY StartsTrue
<1> HIDE DEF n, g
<1>4. IsTrue(g, submission_now)
  BY <1>2, StartsTrue, OverwritesEffect DEF IsTrue, LedgerFits
<1>5. CASE display
  <2>1. q \in Ledgers /\ q.known = g.known /\ q.barrier_only = g.barrier_only
        /\ (g.known => q.slot.seen /\ q.slot.wrote /\ q.slot.after = "RT"
              /\ q.slot.first_before = IF g.slot.seen THEN g.slot.first_before ELSE "RT")
    <3>1. q = Submission!note_carried_write(g, "RT")
      BY <1>5
    <3>2. g \in Ledgers /\ "RT" \in Submission!States
      BY <1>2 DEF Submission!States
    <3>3. g.known => (g.slot.seen => g.slot.after = "RT")
      BY <1>1, <1>4, <1>5 DEF IsTrue, LedgerFits
    <3> HIDE DEF q
    <3> QED BY <3>1, <3>2, <3>3, NoteEffect
  <2> HIDE DEF q
  <2>2. IsTrue(q, n)
    BY <2>1, <1>1, <1>2, <1>3, <1>4, <1>5, FreeIsFresh DEF IsTrue, LedgerFits
  <2> QED BY <1>1, <1>3, <2>1, <2>2, RecordedKeeps
<1>6. CASE ~display
  <2>1. IsTrue(q, n)
    BY <1>3, <1>4, <1>6 DEF IsTrue
  <2> QED BY <1>1, <1>2, <1>3, <1>6, <2>1, RecordedKeeps
<1> QED BY <1>5, <1>6

(* A clear through unordered access.                                       *)
LEMMA UnorderedClearKeeps == ASSUME BatchIInv, Submission!clear_unordered_access PROVE BatchIInv'
<1> DEFINE g == Submission!compute_work(proof)
           q == Submission!note_carried_write(g, "UAV")
           n == [submission_now EXCEPT !.wrote = TRUE]
<1>1. Submission!Recorded(q, n) /\ Submission!Free /\ submission_now.state = "UAV"
  BY DEF Submission!clear_unordered_access
<1>2. g \in Ledgers /\ g.known = proof.known /\ (g.known => ~g.barrier_only
      /\ g.slot \in {proof.slot, Submission!Overwrites(proof.slot)})
      /\ (g.known /\ ~proof.slot.seen => g.slot = proof.slot)
  BY ComputeEffect, StartsTrue
<1>3. n \in Displayed /\ n.state = submission_now.state /\ n.entry = submission_now.entry
      /\ n.began = submission_now.began
      /\ n.hold = submission_now.hold /\ n.pass = submission_now.pass /\ n.own = submission_now.own
  BY StartsTrue
<1> HIDE DEF n
<1>4. IsTrue(g, submission_now)
  BY <1>2, StartsTrue, OverwritesEffect DEF IsTrue, LedgerFits
<1> HIDE DEF g
<1>5. q \in Ledgers /\ q.known = g.known /\ q.barrier_only = g.barrier_only
      /\ (g.known => q.slot.seen /\ q.slot.wrote /\ q.slot.after = "UAV"
            /\ q.slot.first_before = IF g.slot.seen THEN g.slot.first_before ELSE "UAV")
  BY <1>1, <1>2, <1>4, NoteEffect DEF Submission!States, IsTrue, LedgerFits
<1>6. IsTrue(q, n)
  BY <1>5, <1>1, <1>2, <1>3, <1>4, FreeIsFresh DEF IsTrue, LedgerFits
<1> QED BY <1>1, <1>3, <1>5, <1>6, RecordedKeeps

(* A dispatch.                                                             *)
LEMMA DispatchKeeps == ASSUME BatchIInv, NEW display \in BOOLEAN, Submission!dispatch(display)
  PROVE BatchIInv'
<1> DEFINE g == Submission!compute_work(proof)
           n == [submission_now EXCEPT !.wrote = @ \/ (display /\ submission_now.own)]
<1>1. Submission!Recorded(g, n) /\ Submission!Free /\ (display => submission_now.state = "UAV")
  BY DEF Submission!dispatch
<1>2. g \in Ledgers /\ g.known = proof.known /\ (g.known => ~g.barrier_only
      /\ g.slot \in {proof.slot, Submission!Overwrites(proof.slot)})
      /\ (g.known /\ ~proof.slot.seen => g.slot = proof.slot)
      /\ (g.known /\ proof.slot.seen /\ proof.slot.after = "UAV"
            => g.slot = Submission!Overwrites(proof.slot))
  BY ComputeEffect, StartsTrue
<1>3. n \in Displayed /\ n.state = submission_now.state /\ n.entry = submission_now.entry
      /\ n.began = submission_now.began
      /\ n.hold = submission_now.hold /\ n.pass = submission_now.pass
            /\ n.own = submission_now.own /\ (n.wrote => submission_now.wrote \/ (display
                  /\ submission_now.own))
  BY StartsTrue
<1> HIDE DEF n, g
<1>4. IsTrue(g, n)
  BY <1>1, <1>2, <1>3, StartsTrue, FreeIsFresh, OverwritesEffect DEF IsTrue, LedgerFits
<1> QED BY <1>1, <1>2, <1>3, <1>4, RecordedKeeps

(* A copy.                                                                 *)
LEMMA CopyKeeps == ASSUME BatchIInv, NEW display \in BOOLEAN, Submission!copy(display)
  PROVE BatchIInv'
<1> DEFINE g == Submission!gpu_work(proof, FALSE)
           n == [submission_now EXCEPT !.wrote = @ \/ (display /\ submission_now.own)]
<1>1. Submission!Recorded(g, n) /\ ~submission_now.hold /\ submission_now.pass = "none"
      /\ (display => submission_now.state = "COPY_DEST")
  BY DEF Submission!copy
<1>2. g \in Ledgers /\ g.known = proof.known /\ (g.known => ~g.barrier_only
      /\ g.slot \in {proof.slot, Submission!Overwrites(proof.slot)})
      /\ (g.known /\ ~proof.slot.seen => g.slot = proof.slot)
  BY GpuEffect, StartsTrue
<1>3. n \in Displayed /\ n.state = submission_now.state /\ n.entry = submission_now.entry
      /\ n.began = submission_now.began
      /\ n.hold = submission_now.hold /\ n.pass = submission_now.pass
            /\ n.own = submission_now.own /\ (n.wrote => submission_now.wrote \/ (display
                  /\ submission_now.own))
  BY StartsTrue
<1> HIDE DEF n, g
<1>4. IsTrue(g, n)
  BY <1>1, <1>2, <1>3, StartsTrue, OverwritesEffect DEF IsTrue, LedgerFits,
        Submission!writable_gpu_state
<1> QED BY <1>1, <1>2, <1>3, <1>4, RecordedKeeps

(* The begin of a pass.                                                    *)
LEMMA PassBeginKeeps == ASSUME BatchIInv, NEW suspending \in BOOLEAN, NEW clears \in BOOLEAN,
  Submission!pass_begins(suspending, clears) PROVE BatchIInv'
<1> DEFINE b == Submission!begin_pass(proof, ~suspending /\ ~submission_now.hold)
           g == Submission!gpu_work(b, TRUE)
           q == IF clears THEN Submission!note_carried_write(g, "RT") ELSE b
           n == [submission_now EXCEPT !.pass = IF suspending THEN "suspending"
                 ELSE "open", !.hold = FALSE, !.wrote = @ \/ clears]
<1>1. Submission!Recorded(q, n) /\ submission_now.pass = "none" /\ (clears
      => submission_now.state = "RT")
  BY DEF Submission!pass_begins
<1>2. (~suspending /\ ~submission_now.hold) \in BOOLEAN
  OBVIOUS
<1>3. b \in Ledgers /\ (b.known => proof.known /\ ~suspending /\ ~submission_now.hold
      /\ ~b.barrier_only /\ b.slot \in {proof.slot, Submission!Overwrites(proof.slot)}
            /\ (~proof.slot.seen => b.slot = proof.slot))
  BY <1>2, StartsTrue, BeginEffect
<1>4. n \in Displayed /\ n.state = submission_now.state /\ n.entry = submission_now.entry
      /\ n.began = submission_now.began /\ ~n.hold
      /\ (~suspending => n.pass = "open") /\ n.own = submission_now.own /\ (~clears
            => n.wrote = submission_now.wrote)
  BY StartsTrue
<1> HIDE DEF n, b
<1>5. b.known => ~submission_now.began
  BY <1>3, StartsTrue DEF IsTrue, LedgerFits
<1>6. IsTrue(b, [submission_now EXCEPT !.pass = "open", !.hold = FALSE])
  BY <1>3, <1>5, StartsTrue, OverwritesEffect DEF IsTrue, LedgerFits
<1>7. CASE ~clears
  <2>1. IsTrue(b, n)
    BY <1>3, <1>4, <1>6, <1>7, StartsTrue DEF IsTrue
  <2> QED BY <1>1, <1>3, <1>4, <1>7, <2>1, RecordedKeeps
<1>8. CASE clears
  <2>1. g \in Ledgers /\ g.known = b.known /\ (g.known => ~g.barrier_only
        /\ g.slot \in {b.slot, Submission!Overwrites(b.slot)})
      /\ (g.known /\ ~b.slot.seen => g.slot = b.slot)
    BY GpuEffect, <1>3
  <2> HIDE DEF g
  <2>2. IsTrue(g, [submission_now EXCEPT !.pass = "open", !.hold = FALSE])
    BY <2>1, <1>3, <1>6, OverwritesEffect, StartsTrue DEF IsTrue, LedgerFits
  <2>3. q \in Ledgers /\ q.known = g.known /\ q.barrier_only = g.barrier_only
        /\ (g.known => q.slot.seen /\ q.slot.wrote /\ q.slot.after = "RT"
              /\ q.slot.first_before = IF g.slot.seen THEN g.slot.first_before ELSE "RT")
    <3>1. "RT" \in Submission!States /\ q = Submission!note_carried_write(g, "RT")
      BY <1>8 DEF Submission!States
    <3>2. g.known /\ g.slot.seen => g.slot.after = "RT"
      BY <1>1, <1>8, <2>2 DEF IsTrue, LedgerFits
    <3> HIDE DEF q
    <3> QED BY <2>1, <3>1, <3>2, NoteEffect
  <2>4. IsTrue(q, n)
    BY <2>3, <2>2, <2>1, <1>1, <1>3, <1>4, <1>5, <1>8, StartsTrue DEF IsTrue, LedgerFits
  <2> QED BY <1>1, <1>4, <2>3, <2>4, RecordedKeeps
<1> QED BY <1>7, <1>8

(* The end of a pass.                                                      *)
LEMMA PassEndKeeps == ASSUME BatchIInv, Submission!pass_ends PROVE BatchIInv'
<1> DEFINE q == Submission!end_pass(proof)
           n == [submission_now EXCEPT !.pass = "none", !.hold = submission_now.pass = "suspending"]
<1>1. Submission!Recorded(q, n) /\ submission_now.pass # "none"
  BY DEF Submission!pass_ends
<1>2. q \in Ledgers /\ (q.known => proof.known /\ q.barrier_only = proof.barrier_only
      /\ q.slot = proof.slot)
  BY EndEffect, StartsTrue
<1>3. n \in Displayed /\ n.state = submission_now.state /\ n.entry = submission_now.entry
      /\ n.began = submission_now.began /\ (n.hold => submission_now.pass = "suspending")
      /\ n.pass = "none" /\ n.own = submission_now.own /\ n.wrote = submission_now.wrote
  BY StartsTrue
<1> HIDE DEF q, n
<1>4. IsTrue(q, n)
  BY <1>1, <1>2, <1>3, StartsTrue DEF IsTrue, LedgerFits
<1> QED BY <1>1, <1>2, <1>3, <1>4, RecordedKeeps

(* The end of a list, which joins the batch or spoils it.                  *)
LEMMA ListCloseKeeps == ASSUME BatchIInv, NEW succeeds \in BOOLEAN,
  Submission!close_list(succeeds) PROVE BatchIInv'
<1> DEFINE p == Submission!close(proof, succeeds)
           t == [entry |-> submission_now.entry, exit |-> submission_now.state, wrote |-> submission_now.wrote, began |-> submission_now.began, held |-> submission_now.hold]
<1>1. p \in Ledgers /\ (p.known => proof.known /\ p.barrier_only = proof.barrier_only
      /\ p.slot = proof.slot)
  BY CloseEffect, StartsTrue
<1>2. t \in Traces /\ t.entry = submission_now.entry /\ t.exit = submission_now.state
      /\ t.wrote = submission_now.wrote /\ t.began = submission_now.began
            /\ t.held = submission_now.hold
  BY StartsTrue DEF Traces
<1>3. /\ IF Submission!complete(p) /\ \A n \in DOMAIN batch : Submission!complete(batch[n])
          THEN batch' = Append(batch, p) /\ trace' = Append(trace, t)
          ELSE batch' = <<Submission!invalidate(p)>> /\ trace' = <<Submission!NoTrace>>
      /\ proof' = Submission!reset /\ submission_now.pass = "none" /\ stage = "recording"
            /\ Len(batch) < MaxBatch
      /\ submission_now' =
            [submission_now EXCEPT !.entry = submission_now.state, !.wrote = FALSE, !.own = FALSE, !.began = submission_now.hold]
      /\ UNCHANGED <<Submission!control, stage, submission_sampled, submission_plan>>
  BY DEF Submission!close_list, Submission!Recording
<1> HIDE DEF p, t
<1>4. submission_now' \in Displayed /\ proof' \in Ledgers
  <2>1. submission_now' =
        [state |-> submission_now.state, entry |-> submission_now.state, pass |-> submission_now.pass, hold |-> submission_now.hold, began |-> submission_now.hold,
                wrote |-> FALSE, own |-> FALSE] /\ proof' = Submission!reset
    BY <1>3, StartsTrue
  <2> QED BY <2>1, ResetTypes, StartsTrue
<1>5. LedgerIsTrue'
  BY <1>3, StartsTrue DEF LedgerIsTrue, IsTrue, LedgerFits, Submission!reset, Submission!NoSlot
<1>6. batch \in Seq(Ledgers) /\ trace \in Seq(Traces) /\ Len(batch) = Len(trace)
      /\ MaxBatch \in Nat \ {0}
  BY AddedAssumption DEF BatchIInv, BatchTypes, Submission!PfdSubmissionAssumption
<1>7. /\ batch' \in Seq(Ledgers) /\ trace' \in Seq(Traces) /\ Len(batch') = Len(trace')
      /\ Len(batch') <= MaxBatch
      /\ BatchFits'
  <2>1. CASE Submission!complete(p) /\ \A n \in DOMAIN batch : Submission!complete(batch[n])
    <3>1. batch' = Append(batch, p) /\ trace' = Append(trace, t)
      BY <1>3, <2>1
    <3>2. batch' \in Seq(Ledgers) /\ trace' \in Seq(Traces) /\ Len(batch') = Len(trace')
          /\ Len(batch') <= MaxBatch
      BY <3>1, <1>1, <1>2, <1>3, <1>6
    <3>3. ASSUME NEW n \in DOMAIN batch', Submission!complete(batch'[n])
          PROVE LedgerFits(batch'[n], trace'[n].exit, trace'[n].entry, trace'[n].wrote, trace'[n].began, trace'[n].held)
      <4>1. CASE n \in DOMAIN batch
        <5>1. batch'[n] = batch[n] /\ trace'[n] = trace[n]
          BY <4>1, <3>1, <1>6
        <5> QED BY <5>1, <3>3, <4>1 DEF BatchIInv, BatchFits
      <4>2. CASE n = Len(batch) + 1
        <5>1. batch'[n] = p /\ trace'[n] = t
          BY <4>2, <3>1, <1>6
        <5> QED BY <5>1, <3>3, <1>1, <1>2, StartsTrue DEF Submission!complete, IsTrue, LedgerFits
      <4>3. n \in DOMAIN batch \/ n = Len(batch) + 1
        BY <3>1, <1>6
      <4> QED BY <4>1, <4>2, <4>3
    <3> QED BY <3>2, <3>3 DEF BatchFits
  <2>2. CASE ~(Submission!complete(p) /\ \A n \in DOMAIN batch : Submission!complete(batch[n]))
    <3>1. batch' = <<Submission!invalidate(p)>> /\ trace' = <<Submission!NoTrace>>
      BY <1>3, <2>2
    <3>2. Submission!NoTrace \in Traces /\ Submission!invalidate(p) \in Ledgers
          /\ ~Submission!invalidate(p).known
      BY <1>1, InvalidEffect DEF Submission!NoTrace, Traces, Submission!States
    <3>3. \A n \in DOMAIN batch' : ~Submission!complete(batch'[n])
      BY <3>1, <3>2 DEF Submission!complete
    <3> QED BY <3>1, <3>2, <3>3, <1>6 DEF BatchFits
  <2> QED BY <2>1, <2>2
<1>8. BatchTypes'
  BY <1>3, <1>4, <1>7 DEF BatchIInv, BatchTypes, Submission!control
<1>9. PatchesFit' /\ PlanFits'
  BY <1>3 DEF BatchIInv, PatchesFit, PlanFits, Submission!control
<1> QED BY <1>5, <1>7, <1>8, <1>9 DEF BatchIInv

(* What the batch is once it is closed.                                    *)
LEMMA BatchKept == ASSUME BatchIInv, UNCHANGED Submission!recorded
  PROVE BatchFits' /\ LedgerIsTrue' /\ Submission!batch_overlay' = Submission!batch_overlay
BY DEF BatchIInv, Submission!recorded, BatchFits, LedgerIsTrue, IsTrue, Submission!batch_overlay,
      Submission!Site

(* The empty plan and the empty patches.                                   *)
LEMMA VoidTypes == Submission!NoPatch \in Patches /\ Submission!NoPlan.site = Submission!NoSite
  /\ Submission!NoPatch.generation = 0
BY DEF Submission!NoPatch, Patches, Submission!NoPlan

(* The planner samples.                                                    *)
LEMMA PlanSamplesKeep == ASSUME BatchIInv, Submission!plan_samples PROVE BatchIInv'
<1>1. /\ stage = "recording" /\ stage' = "sampled"
      /\ submission_sampled' = [generation |-> generation, patches |-> IF active
            /\ patches.generation = generation THEN patches ELSE Submission!NoPatch]
      /\ UNCHANGED <<Submission!recorded, Submission!control, submission_plan>>
  BY DEF Submission!plan_samples
<1>2. BatchTypes'
  BY <1>1, VoidTypes DEF BatchIInv, BatchTypes, Submission!recorded, Submission!control
<1>3. PatchesFit'
  BY <1>1, VoidTypes DEF BatchIInv, BatchTypes, PatchesFit, Submission!control
<1>4. submission_plan' = Submission!NoPlan
  BY <1>1 DEF BatchIInv, PlanFits
<1> QED BY <1>1, <1>2, <1>3, <1>4, BatchKept DEF BatchIInv, PlanFits

(* The planner decides.                                                    *)
LEMMA DecidesKeep == ASSUME BatchIInv, NEW busy \in BOOLEAN, Submission!plan_decides(busy)
  PROVE BatchIInv'
<1>1. /\ stage = "sampled" /\ stage' = "planned"
      /\ UNCHANGED <<Submission!recorded, Submission!control, submission_sampled>>
      /\ submission_plan' = IF ~busy /\ Submission!Planned(Submission!batch_overlay)
               THEN [site |-> Submission!batch_overlay, generation |-> submission_sampled.generation, made |-> submission_sampled.patches.generation]
               ELSE Submission!NoPlan
  BY DEF Submission!plan_decides
<1>2. BatchTypes'
  BY <1>1 DEF BatchIInv, BatchTypes, Submission!recorded, Submission!control
<1>3. PatchesFit'
  BY <1>1 DEF BatchIInv, PatchesFit, Submission!control
<1>4. PlanFits'
  BY <1>1, BatchKept DEF BatchIInv, BatchTypes, PatchesFit, PlanFits, Submission!Planned,
        Submission!control
<1> QED BY <1>1, <1>2, <1>3, <1>4, BatchKept DEF BatchIInv

(* The batch is submitted, with a plan that is current or none.            *)
LEMMA SubmitKeeps == ASSUME BatchIInv, Submission!submit PROVE BatchIInv'
<1>1. /\ stage = "planned" /\ submission_plan # Submission!NoPlan /\ stage' = "submitted"
      /\ submission_plan' = (IF Submission!current THEN submission_plan ELSE Submission!NoPlan)
      /\ UNCHANGED <<Submission!recorded, Submission!control, submission_sampled>>
  BY DEF Submission!submit
<1>2. BatchTypes'
  BY <1>1 DEF BatchIInv, BatchTypes, Submission!recorded, Submission!control
<1>3. PatchesFit'
  BY <1>1 DEF BatchIInv, PatchesFit, Submission!control
<1>4. PlanFits'
  BY <1>1, BatchKept DEF BatchIInv, BatchTypes, PlanFits, Submission!current, Submission!control
<1> QED BY <1>1, <1>2, <1>3, <1>4, BatchKept DEF BatchIInv

(* The control thread changes nothing of a batch that was submitted, and   *)
(* a new selection is a new generation.                                    *)
LEMMA SelectionKeeps ==
  ASSUME BatchIInv, UNCHANGED <<Submission!recorded, stage, submission_sampled, submission_plan>>,
        stage \in {"sampled", "planned"}, BatchTypes',
         \/ generation' = generation /\ target' = target
         \/ generation' = generation + 1,
         \A p \in {config', patches'} : p.generation <= generation'
               /\ (p.generation = generation' => p.target = target')
  PROVE BatchIInv'
<1>1. PatchesFit'
  BY DEF BatchIInv, BatchTypes, PatchesFit, Patches
<1>2. PlanFits'
  BY BatchKept DEF BatchIInv, BatchTypes, PlanFits, Patches
<1> QED BY <1>1, <1>2, BatchKept DEF BatchIInv

(* The control thread.                                                     *)
LEMMA OthersKeep == ASSUME BatchIInv, Submission!refresh_selected
  \/ Submission!service_display_patches \/ Submission!publish_queue_patches
        \/ Submission!reset_session \/ Submission!resume_session
                    PROVE BatchIInv'
<1>1. submission_changes + 1 \in Nat /\ generation + 1 \in Nat \ {0}
      /\ submission_changes \in Nat /\ MaxSelections \in Nat
  BY AddedAssumption DEF BatchIInv, BatchTypes, Submission!PfdSubmissionAssumption
<1>2. \A p \in {config, patches} : p \in Patches /\ p.generation \in Nat
      /\ p.generation <= generation /\ (p.generation = generation => p.target = target)
  BY DEF BatchIInv, BatchTypes, PatchesFit, Patches
<1>3. CASE Submission!refresh_selected
  <2>1. BatchTypes'
    BY <1>1, <1>3 DEF BatchIInv, BatchTypes, Submission!refresh_selected, Submission!Changing,
          Submission!recorded
  <2> QED BY <1>2, <1>3, <2>1, SelectionKeeps DEF Submission!refresh_selected, Submission!Changing,
        BatchIInv, BatchTypes
<1>4. CASE Submission!service_display_patches
  <2>1. [generation |-> generation, target |-> target] \in Patches
    BY DEF BatchIInv, BatchTypes, Patches
  <2>2. BatchTypes'
    BY <1>1, <1>4, <2>1, VoidTypes DEF BatchIInv, BatchTypes, Submission!service_display_patches,
          Submission!Changing, Submission!recorded
  <2>3. generation' = generation /\ target' = target /\ stage \in {"sampled", "planned"}
        /\ UNCHANGED <<Submission!recorded, stage, submission_sampled, submission_plan>>
        /\ config' = [generation |-> generation, target |-> target]
              /\ patches' \in {patches, Submission!NoPatch}
    BY <1>4 DEF Submission!service_display_patches, Submission!Changing
  <2>4. \A p \in {config', patches'} : p.generation <= generation'
        /\ (p.generation = generation' => p.target = target')
    BY <1>2, <2>3, VoidTypes DEF BatchIInv, BatchTypes
  <2> QED BY <2>2, <2>3, <2>4, SelectionKeeps
<1>5. CASE Submission!publish_queue_patches
  <2>1. BatchTypes'
    BY <1>1, <1>5 DEF BatchIInv, BatchTypes, Submission!publish_queue_patches, Submission!recorded
  <2> QED BY <1>2, <1>5, <2>1, SelectionKeeps DEF Submission!publish_queue_patches
<1>6. CASE Submission!reset_session
  <2>1. BatchTypes'
    <3>1. /\ config' = Submission!NoPatch /\ patches' = Submission!NoPatch /\ target' = FALSE
          /\ active' = FALSE /\ generation' = generation + 1
          /\ submission_changes < MaxSelections /\ submission_changes' = submission_changes + 1
                /\ UNCHANGED <<proof, batch, submission_now, trace, stage, submission_sampled>>
      BY <1>6 DEF Submission!reset_session, Submission!Changing, Submission!recorded
    <3>2. config' \in Patches /\ patches' \in Patches /\ target' \in BOOLEAN /\ active' \in BOOLEAN
      BY <3>1, VoidTypes
    <3>3. generation' \in Nat \ {0} /\ submission_changes' \in 0..MaxSelections
          /\ generation' <= submission_changes' + 1
      BY <1>1, <3>1 DEF BatchIInv, BatchTypes
    <3> QED BY <3>1, <3>2, <3>3 DEF BatchIInv, BatchTypes
  <2>2. generation' = generation + 1 /\ stage \in {"sampled", "planned"}
        /\ UNCHANGED <<Submission!recorded, stage, submission_sampled, submission_plan>>
        /\ config' = Submission!NoPatch /\ patches' = Submission!NoPatch
    BY <1>6 DEF Submission!reset_session, Submission!Changing
  <2>3. \A p \in {config', patches'} : p.generation <= generation'
        /\ (p.generation = generation' => p.target = target')
    BY <2>2, VoidTypes DEF BatchIInv, BatchTypes
  <2> QED BY <2>1, <2>2, <2>3, SelectionKeeps
<1>7. CASE Submission!resume_session
  <2>1. BatchTypes'
    BY <1>1, <1>7 DEF BatchIInv, BatchTypes, Submission!resume_session, Submission!Changing,
          Submission!recorded
  <2> QED BY <1>2, <1>7, <2>1, SelectionKeeps DEF Submission!resume_session, Submission!Changing
<1> QED BY <1>3, <1>4, <1>5, <1>6, <1>7

(* Nothing happens.                                                        *)
LEMMA BatchStutterKeeps == ASSUME BatchIInv, UNCHANGED Submission!vars PROVE BatchIInv'
<1>1. UNCHANGED <<Submission!recorded, Submission!control, stage, submission_sampled, submission_plan>>
  BY DEF Submission!vars
<1>2. BatchTypes' /\ PatchesFit'
  BY <1>1 DEF BatchIInv, BatchTypes, PatchesFit, Submission!recorded, Submission!control
<1>3. PlanFits'
  BY <1>1, BatchKept DEF BatchIInv, PlanFits, Submission!control
<1> QED BY <1>1, <1>2, <1>3, BatchKept DEF BatchIInv

(* The invariant holds at first.                                           *)
LEMMA BatchInitFits == Submission!Init => BatchIInv
<1> SUFFICES ASSUME Submission!Init PROVE BatchIInv
  OBVIOUS
<1>1. submission_now \in Displayed /\ submission_now.state = submission_now.entry
      /\ submission_now.pass = "none" /\ submission_now.began = submission_now.hold
            /\ ~submission_now.wrote /\ ~submission_now.own
  BY DEF Submission!Init
<1>2. [generation |-> 1, target |-> TRUE] \in Patches /\
      [generation |-> 0, patches |-> Submission!NoPatch] \in [generation : Nat, patches : Patches]
  BY VoidTypes DEF Patches
<1>3. BatchTypes
  <2>1. /\ proof \in Ledgers /\ batch \in Seq(Ledgers) /\ submission_now \in Displayed
        /\ trace \in Seq(Traces)
        /\ Len(batch) = Len(trace) /\ Len(batch) <= MaxBatch
    BY <1>1, ResetTypes, AddedAssumption DEF Submission!Init, Submission!PfdSubmissionAssumption
  <2>2. config \in Patches /\ patches \in Patches /\ submission_sampled \in
        [generation : Nat, patches : Patches]
    BY <1>2, VoidTypes DEF Submission!Init
  <2>3. /\ stage = "recording" /\ generation = 1 /\ target \in BOOLEAN /\ active \in BOOLEAN
        /\ submission_changes \in 0..MaxSelections
        /\ generation <= submission_changes + 1
    BY AddedAssumption DEF Submission!Init, Submission!PfdSubmissionAssumption
  <2> QED BY <2>1, <2>2, <2>3 DEF BatchTypes
<1>4. LedgerIsTrue
  BY <1>1 DEF Submission!Init, LedgerIsTrue, IsTrue, LedgerFits, Submission!reset, Submission!NoSlot
<1>5. PatchesFit
  <2>1. generation = 1 /\ patches = config /\ target = TRUE /\ (config = Submission!NoPatch
        \/ config = [generation |-> 1, target |-> TRUE])
    BY DEF Submission!Init
  <2>2. submission_sampled.generation = 0 /\ submission_sampled.patches.generation = 0
    BY VoidTypes DEF Submission!Init
  <2>3. config.generation <= 1 /\ (config.generation = 1 => config.target = TRUE)
    BY <2>1, VoidTypes
  <2>4. \A p \in {config, patches} : p.generation <= generation /\ (p.generation = generation
        => p.target = target)
    BY <2>1, <2>3
  <2>5. /\ submission_sampled.generation <= generation
        /\ submission_sampled.patches.generation <= generation
        /\ submission_sampled.patches.generation # generation
    BY <2>1, <2>2
  <2> QED BY <2>4, <2>5 DEF PatchesFit
<1>6. BatchFits /\ PlanFits
  BY DEF Submission!Init, BatchFits, PlanFits
<1> QED BY <1>3, <1>4, <1>5, <1>6 DEF BatchIInv

(* Every step keeps the invariant.                                         *)
LEMMA BatchStepKeeps == ASSUME BatchIInv, Submission!Next PROVE BatchIInv'
BY TransitionKeeps, UncertainKeeps, ListDrawKeeps, DispatchKeeps, CopyKeeps, UnorderedClearKeeps,
      PassBeginKeeps, PassEndKeeps,
   ListCloseKeeps, PlanSamplesKeep, SubmitKeeps, DecidesKeep, OthersKeep DEF Submission!Next

(* The smallest of a set of naturals, and the largest of a bounded one.    *)
LEMMA Smallest ==
  ASSUME NEW BatchSafe \in SUBSET Nat, BatchSafe # {}
  PROVE \E k \in BatchSafe : \A m \in BatchSafe : k <= m
<1>1. IsWellFoundedOn(OpToRel(<, Nat), Nat)
  BY NatLessThanWellFounded
<1>2. \A x, y \in Nat : (<<y, x>> \in OpToRel(<, Nat)) <=> y < x
  BY DEF OpToRel
<1>3. \E R : IsWellFoundedOn(R, Nat) /\ \A x, y \in Nat : (<<y, x>> \in R) <=> y < x
  BY <1>1, <1>2, Zenon
<1>4. PICK R : IsWellFoundedOn(R, Nat) /\ \A x, y \in Nat : (<<y, x>> \in R) <=> y < x
  BY <1>3
<1>5. \E x \in BatchSafe : \A y \in BatchSafe : ~(<<y, x>> \in R)
  BY <1>4, WFMin
<1>6. PICK x \in BatchSafe : \A y \in BatchSafe : ~(<<y, x>> \in R)
  BY <1>5
<1>7. ASSUME NEW y \in BatchSafe PROVE x <= y
  <2>1. x \in Nat /\ y \in Nat
    OBVIOUS
  <2>2. ~(y < x)
    BY <2>1, <1>4, <1>6, Zenon
  <2> QED BY <2>1, <2>2
<1> QED BY <1>7

(* A bounded set of naturals has a largest member.                         *)
LEMMA Largest ==
  ASSUME NEW S \in SUBSET Nat, S # {}, NEW n \in Nat, \A i \in S : i <= n
  PROVE \E i \in S : \A j \in S : j <= i
<1> DEFINE BatchSafe == {k \in Nat : \E i \in S : k = n - i}
<1>1. BatchSafe \in SUBSET Nat /\ BatchSafe # {}
  <2>1. PICK i \in S : TRUE
    OBVIOUS
  <2>2. n - i \in Nat
    OBVIOUS
  <2> QED BY <2>2
<1>2. \E k \in BatchSafe : \A m \in BatchSafe : k <= m
  <2> HIDE DEF BatchSafe
  <2> QED BY <1>1, Smallest
<1>3. PICK k \in BatchSafe : \A m \in BatchSafe : k <= m
  BY <1>2
<1>4. PICK i \in S : k = n - i
  OBVIOUS
<1>5. ASSUME NEW j \in S PROVE j <= i
  <2>1. n - j \in BatchSafe
    OBVIOUS
  <2> QED BY <2>1, <1>3, <1>4
<1> QED BY <1>5
-----------------------------------------------------------------------------

(* Where the copy goes: a list whose ledger saw the display, after the last*)
(* write that can be followed, or such that no later list writes.          *)
LEMMA OverlayIs ==
  ASSUME BatchTypes, Submission!batch_overlay # Submission!NoSite
  PROVE \E n \in DOMAIN batch : LET site == Submission!batch_overlay IN
    /\ \A m \in DOMAIN batch : Submission!complete(batch[m])
    /\ site = Submission!Site(n, site.before, site.kind) /\ site.list = n
    /\ batch[n].slot.seen
    /\ \/ /\ site.kind = "suffix" /\ ~site.before
          /\ \A m \in DOMAIN batch : m > n => ~Submission!suffix_candidate(batch[m])
       \/ /\ site.kind = "safe"
          /\ \A m \in DOMAIN batch : m > n \/ (m = n /\ site.before)
                => ~Submission!overwrote(batch[m])
<1> DEFINE writes == {n \in DOMAIN batch : Submission!suffix_candidate(batch[n])}
           safe   == {n \in DOMAIN batch : Submission!candidate(batch[n])
                 \/ Submission!prefix_candidate(batch[n])}
<1>1. batch \in Seq(Ledgers) /\ DOMAIN batch = 1..Len(batch) /\ Len(batch) \in Nat
  BY DEF BatchTypes
<1>2. writes \in SUBSET Nat /\ safe \in SUBSET Nat /\ \A n \in writes : n <= Len(batch)
  BY <1>1
<1>3. \A m \in DOMAIN batch : Submission!complete(batch[m])
  BY Zenon DEF Submission!batch_overlay
<1>4. CASE writes # {}
  <2>1. Submission!Last(writes) \in writes /\ \A m \in writes : m <= Submission!Last(writes)
    <3>1. \E n \in writes : \A m \in writes : m <= n
      BY <1>1, <1>2, <1>4, Largest
    <3>2. \E n \in writes : \A m \in writes : n >= m
      BY <1>2, <3>1
    <3>3. Submission!Last(writes) \in writes /\ \A m \in writes : Submission!Last(writes) >= m
      BY <3>2 DEF Submission!Last
    <3> QED BY <3>3, <1>2
  <2>2. Submission!batch_overlay = Submission!Site(Submission!Last(writes), FALSE, "suffix")
    BY <1>3, <1>4 DEF Submission!batch_overlay
  <2> DEFINE n == Submission!Last(writes)
  <2> HIDE DEF n
  <2>3. n \in DOMAIN batch /\ Submission!suffix_candidate(batch[n])
        /\ \A m \in DOMAIN batch : m > n => ~Submission!suffix_candidate(batch[m])
    <3>1. n \in writes /\ \A m \in writes : m <= n
      BY <2>1 DEF n
    <3>2. ASSUME NEW m \in DOMAIN batch, m > n, Submission!suffix_candidate(batch[m]) PROVE FALSE
      <4>1. m <= n
        BY <3>1, <3>2
      <4> QED BY <4>1, <3>1, <3>2, <1>1
    <3> QED BY <3>1, <3>2
  <2>4. Submission!batch_overlay = Submission!Site(n, FALSE, "suffix")
    BY <2>2 DEF n
  <2>5. Submission!batch_overlay.list = n /\ Submission!batch_overlay.before = FALSE
        /\ Submission!batch_overlay.kind = "suffix"
    BY <2>4 DEF Submission!Site
  <2> QED BY <1>3, <2>3, <2>4, <2>5 DEF Submission!suffix_candidate
<1>5. CASE writes = {}
  <2>1. safe # {}
    BY <1>3, <1>5 DEF Submission!batch_overlay
  <2>2. Submission!First(safe) \in safe
    <3>1. \E n \in safe : \A m \in safe : n <= m
      BY <1>2, <2>1, Smallest
    <3> QED BY <3>1 DEF Submission!First
  <2> DEFINE n == Submission!First(safe)
             before == ~Submission!candidate(batch[n])
             later  == {m \in DOMAIN batch : m > n \/ (m = n /\ before)}
  <2>3. Submission!batch_overlay = IF \E m \in later : Submission!overwrote(batch[m])
        THEN Submission!NoSite ELSE Submission!Site(n, before, "safe")
    BY <1>3, <1>5, <2>1 DEF Submission!batch_overlay
  <2>4. (\A m \in later : ~Submission!overwrote(batch[m]))
        /\ Submission!batch_overlay = Submission!Site(n, before, "safe")
    BY <2>3, Zenon
  <2>5. n \in DOMAIN batch /\ batch[n].slot.seen
    BY <2>2 DEF Submission!candidate, Submission!prefix_candidate
  <2> HIDE DEF n
  <2>6. before \in BOOLEAN
    OBVIOUS
  <2> HIDE DEF before
  <2>7. Submission!batch_overlay.list = n /\ Submission!batch_overlay.before = before
        /\ Submission!batch_overlay.kind = "safe"
    BY <2>4 DEF Submission!Site
  <2> QED BY <1>3, <2>4, <2>5, <2>6, <2>7
<1> QED BY <1>4, <1>5

(* The invariant gives the safety.                                         *)
LEMMA BatchConsequences == BatchIInv => Submission!SubmissionSafety
<1> SUFFICES ASSUME BatchIInv PROVE Submission!SubmissionSafety
  OBVIOUS
<1>1. Submission!TypeOK
  BY AddedAssumption DEF BatchIInv, BatchTypes, Submission!TypeOK,
        Submission!PfdSubmissionAssumption
<1>2. CASE ~Submission!Copies
  BY <1>1, <1>2 DEF Submission!SubmissionSafety, Submission!CopyFindsItsState,
        Submission!CopyIsOutsidePasses, Submission!CopyComesLast, Submission!PatchFitsSelection
<1>3. CASE Submission!Copies
  <2>1. stage = "submitted" /\ submission_plan # Submission!NoPlan
        /\ submission_plan.site = Submission!batch_overlay
              /\ Submission!batch_overlay # Submission!NoSite
    BY <1>3 DEF Submission!Copies, BatchIInv, PlanFits
  <2> DEFINE site == Submission!batch_overlay
  <2>2. PICK n \in DOMAIN batch :
          /\ \A m \in DOMAIN batch : Submission!complete(batch[m])
          /\ site = Submission!Site(n, site.before, site.kind) /\ site.list = n
          /\ batch[n].slot.seen
          /\ \/ /\ site.kind = "suffix" /\ ~site.before
                /\ \A m \in DOMAIN batch : m > n => ~Submission!suffix_candidate(batch[m])
             \/ /\ site.kind = "safe"
                /\ \A m \in DOMAIN batch : m > n \/ (m = n /\ site.before)
                      => ~Submission!overwrote(batch[m])
    BY <2>1, OverlayIs DEF BatchIInv
  <2> HIDE DEF site
  <2>3. submission_plan.site = site
    BY <2>1 DEF site
  <2>4. site.state = IF site.before THEN batch[n].slot.first_before ELSE batch[n].slot.after
    BY <2>2 DEF Submission!Site
  <2>5. DOMAIN trace = DOMAIN batch
        /\ \A m \in DOMAIN batch : LedgerFits(batch[m], trace[m].exit, trace[m].entry, trace[m].wrote, trace[m].began, trace[m].held)
    BY <2>2 DEF BatchIInv, BatchTypes, BatchFits
  <2>6. Submission!CopyFindsItsState /\ Submission!CopyIsOutsidePasses
    BY <2>2, <2>3, <2>4, <2>5 DEF Submission!CopyFindsItsState, Submission!CopyIsOutsidePasses,
          LedgerFits
  <2>7. Submission!CopyComesLast
    <3> SUFFICES ASSUME NEW m \in DOMAIN trace, m > n \/ (m = n /\ site.before), trace[m].wrote
                 PROVE site.kind = "suffix" /\ trace[m].exit \notin Submission!insertable_after
      BY <2>2, <2>3 DEF Submission!CopyComesLast
    <3>1. LedgerFits(batch[m], trace[m].exit, trace[m].entry, trace[m].wrote, trace[m].began, trace[m].held) /\ m \in DOMAIN batch
      BY <2>5
    <3>2. Submission!overwrote(batch[m]) /\ batch[m].slot.after = trace[m].exit
          /\ ~batch[m].barrier_only
      BY <3>1 DEF LedgerFits, Submission!overwrote
    <3>3. site.kind = "suffix" /\ ~site.before /\ ~Submission!suffix_candidate(batch[m])
      BY <2>2, <3>1, <3>2
    <3> QED BY <3>2, <3>3 DEF Submission!suffix_candidate, Submission!overwrote
  <2>8. Submission!PatchFitsSelection
    BY <2>1 DEF Submission!PatchFitsSelection, BatchIInv, PlanFits, PatchesFit, BatchTypes
  <2> QED BY <1>1, <2>6, <2>7, <2>8 DEF Submission!SubmissionSafety
<1> QED BY <1>2, <1>3

(* The copy into a display finds it in the state it was planned for,       *)
(* outside passes, comes last, and is of the selection it is made under;   *)
(* for any batch and any changes of the selection while it is planned.     *)
LEMMA BatchSafe == Submission!Spec => []Submission!SubmissionSafety
<1>1. Submission!Init => BatchIInv
  BY BatchInitFits
<1>2. BatchIInv /\ [Submission!Next]_(Submission!vars) => BatchIInv'
  BY BatchStepKeeps, BatchStutterKeeps
<1>3. BatchIInv => Submission!SubmissionSafety
  BY BatchConsequences
<1> QED BY <1>1, <1>2, <1>3, PTL DEF Submission!Spec
-----------------------------------------------------------------------------
(* A list and the copy of its state: what the variables are.               *)
Pipelines   == Psos \cup {Stamp!None, Stamp!Own}
Given   == Values \cup {0}
Natives == [pso : Pipelines, bias : Given, samples : Given, root : Roots \cup {Stamp!None, Stamp!Own}, args : [Stamp!Slots -> Given],
          heaps : Heaps \cup {Stamp!None}, raster : Given \cup {Stamp!OwnRaster}]
StateCopies == [valid : BOOLEAN, observed : BOOLEAN, pso : Pipelines , bias : Given, samples : Given, root : Roots \cup {Stamp!None},
           layout : BOOLEAN, exact : BOOLEAN, undefined : SUBSET Stamp!Tables, args :
                 [Stamp!Slots -> Given],
           heaps : Heaps \cup {"unknown"}, raster : Given]
StampTypes == stamp_native \in Natives /\ st \in StateCopies /\ known_layouts \in BOOLEAN

(* A copy that saw everything since Reset: root arguments are known as     *)
(* long as their signature is, and a signature that is not known is of an  *)
(* unregistered one.                                                       *)
Follows(n, x) == x.valid /\ x.observed =>
  /\ n.pso = x.pso /\ n.bias = x.bias /\ n.samples = x.samples /\ n.raster = x.raster
  /\ x.root # Stamp!None => n.root = x.root /\ n.args = x.args /\ x.layout
  /\ x.root = Stamp!None => ~x.layout /\ n.root \in Unregistered \cup {Stamp!None}
        /\ x.args = Stamp!NoArgs
  /\ x.heaps = IF n.heaps = Stamp!None THEN "unknown" ELSE n.heaps

StampIInv == StampTypes /\ Follows(stamp_native, st) /\ Stamp!DrawsOnOwnState
USE DEF Pipelines, Given

(* The names that no application object has.                               *)
LEMMA StampNames == /\ Stamp!None \notin Roots /\ Stamp!Own \notin Roots
  /\ Stamp!None \notin Heaps /\ "unknown" \notin Heaps /\ Stamp!None # Stamp!Own
                    /\ Unregistered \subseteq Roots /\ Values \subseteq Nat \ {0}
                          /\ Stamp!NoArgs \in [Stamp!Slots -> Given] /\ Stamp!OwnRaster \notin Given
                    /\ Stamp!OwnRaster # 0 
BY AddedAssumption DEF Stamp!PfdStampAssumption, Stamp!None, Stamp!Own, Stamp!NoArgs,
      Stamp!OwnRaster

(* A copy that is given up, and one that begins.                           *)
LEMMA InvalidTypes == Stamp!Invalid \in StateCopies /\ ~Stamp!Invalid.valid
  /\ \A b \in BOOLEAN : Stamp!Fresh(b) \in StateCopies
BY StampNames DEF Stamp!Invalid, Stamp!Fresh, StateCopies, Stamp!None, Stamp!Tables

(* A list after its Reset.                                                 *)
LEMMA ClearedTypes == ASSUME NEW p \in Pipelines PROVE Stamp!Cleared(p) \in Natives
BY StampNames DEF Stamp!Cleared, Natives

(* A call on the list that its copy follows.                               *)
LEMMA SetterCallKeeps ==
  ASSUME StampIInv, NEW n \in Natives, NEW x \in StateCopies, stamp_native' = n, Stamp!Tracks(x),
        st.valid => Follows(n, x),
         UNCHANGED <<known_layouts, drawn>>
  PROVE StampIInv'
<1>1. StampTypes'
  BY DEF StampIInv, StampTypes, Stamp!Tracks
<1>2. Follows(stamp_native', st')
  BY DEF StampIInv, Stamp!Tracks, Follows
<1>3. Stamp!DrawsOnOwnState'
  BY DEF StampIInv, Stamp!DrawsOnOwnState
<1> QED BY <1>1, <1>2, <1>3 DEF StampIInv

(* What a call may rely on.                                                *)
LEMMA StartsFollowed == StampIInv => stamp_native \in Natives /\ st \in StateCopies
  /\ known_layouts \in BOOLEAN /\ Follows(stamp_native, st)
BY DEF StampIInv, StampTypes

(* A pipeline is bound.                                                    *)
LEMMA PipelineKeeps == ASSUME StampIInv, NEW p \in Psos, Stamp!sets_pipeline(p) PROVE StampIInv'
<1>1. Stamp!SetPso(stamp_native, p) \in Natives /\ Stamp!bind_pipeline(st, p) \in StateCopies
  <2>1. Stamp!SetPso(stamp_native, p) \in Natives
    BY StartsFollowed DEF Stamp!SetPso, Natives
  <2>2. Stamp!bind_pipeline(st, p) \in StateCopies
    BY StartsFollowed DEF Stamp!bind_pipeline, StateCopies
  <2> QED BY <2>1, <2>2
<1>2. Follows(Stamp!SetPso(stamp_native, p), Stamp!bind_pipeline(st, p))
  BY StartsFollowed DEF Stamp!SetPso, Stamp!bind_pipeline, Natives, StateCopies, Follows
<1> QED BY <1>1, <1>2, SetterCallKeeps DEF Stamp!sets_pipeline

(* The depth bias is set.                                                  *)
LEMMA BiasKeeps == ASSUME StampIInv, NEW v \in Values, Stamp!sets_bias(v) PROVE StampIInv'
<1>1. [stamp_native EXCEPT !.bias = v] \in Natives /\ [st EXCEPT !.bias = v] \in StateCopies
  BY StartsFollowed DEF Natives, StateCopies
<1>2. Follows([stamp_native EXCEPT !.bias = v], [st EXCEPT !.bias = v])
  BY StartsFollowed DEF Natives, StateCopies, Follows
<1> QED BY <1>1, <1>2, SetterCallKeeps DEF Stamp!sets_bias

(* The sample positions are set.                                           *)
LEMMA PositionsKeep == ASSUME StampIInv, NEW v \in Values \cup {0}, Stamp!sets_samples(v)
  PROVE StampIInv'
<1>1. [stamp_native EXCEPT !.samples = v] \in Natives /\ [st EXCEPT !.samples = v] \in StateCopies
  BY StartsFollowed DEF Natives, StateCopies
<1>2. Follows([stamp_native EXCEPT !.samples = v], [st EXCEPT !.samples = v])
  BY StartsFollowed DEF Natives, StateCopies, Follows
<1> QED BY <1>1, <1>2, SetterCallKeeps DEF Stamp!sets_samples

(* Topology, viewports and scissors are set.                               *)
LEMMA RasterKeeps == ASSUME StampIInv, NEW v \in Values, Stamp!sets_raster(v) PROVE StampIInv'
<1>1. [stamp_native EXCEPT !.raster = v] \in Natives /\ [st EXCEPT !.raster = v] \in StateCopies
  BY StartsFollowed DEF Natives, StateCopies
<1>2. Follows([stamp_native EXCEPT !.raster = v], [st EXCEPT !.raster = v])
  BY StartsFollowed DEF Natives, StateCopies, Follows
<1> QED BY <1>1, <1>2, SetterCallKeeps DEF Stamp!sets_raster

(* A root signature is bound; the same one again keeps the arguments.      *)
LEMMA RootKeeps == ASSUME StampIInv, NEW r \in Roots \ Unregistered, Stamp!sets_root(r)
  PROVE StampIInv'
<1>1. Stamp!SetRoot(stamp_native, r) \in Natives
  BY StartsFollowed, StampNames DEF Stamp!SetRoot, Natives
<1>2. Stamp!bind_root(st, r) \in StateCopies
  <2> DEFINE known == st.observed \/ known_layouts
             tables == IF st.observed /\ known_layouts THEN Stamp!Tables ELSE {}
             exact == st.observed
             y == [st EXCEPT !.root = r, !.layout = known, !.exact = exact, !.args = Stamp!NoArgs, !.undefined = tables]
  <2>1. known \in BOOLEAN /\ tables \in SUBSET Stamp!Tables /\ exact \in BOOLEAN
    BY StartsFollowed DEF StateCopies
  <2>2. Stamp!bind_root(st, r) \in {st, y}
    BY Zenon DEF Stamp!bind_root
  <2> HIDE DEF known, tables, exact
  <2>3. y \in StateCopies
    BY <2>1, StartsFollowed, StampNames DEF StateCopies
  <2> QED BY <2>2, <2>3, StartsFollowed
<1>3. st.valid => Follows(Stamp!SetRoot(stamp_native, r), Stamp!bind_root(st, r))
  BY StartsFollowed, StampNames DEF Stamp!SetRoot, Stamp!bind_root, Stamp!same_root, Natives,
        StateCopies, Follows
<1> QED BY <1>1, <1>2, <1>3, SetterCallKeeps DEF Stamp!sets_root

(* A root signature of unknown lifetime: nothing is known of its arguments.*)
LEMMA UnknownRootKeeps == ASSUME StampIInv, NEW r \in Unregistered, Stamp!sets_unknown_root(r)
  PROVE StampIInv'
<1> DEFINE y == [st EXCEPT !.root = Stamp!None, !.layout = FALSE, !.exact = FALSE, !.args = Stamp!NoArgs, !.undefined = {}]
<1>1. Stamp!SetRoot(stamp_native, r) \in Natives
  BY StartsFollowed, StampNames DEF Stamp!SetRoot, Natives
<1>2. y \in StateCopies
  BY StartsFollowed, StampNames DEF StateCopies
<1>3. Follows(Stamp!SetRoot(stamp_native, r), y)
  BY StartsFollowed, StampNames DEF Stamp!SetRoot, Natives, StateCopies, Follows
<1> QED BY <1>1, <1>2, <1>3, SetterCallKeeps DEF Stamp!sets_unknown_root

(* A root argument is set.                                                 *)
LEMMA ArgumentKeeps == ASSUME StampIInv, NEW s \in Stamp!Slots, NEW v \in Values,
  Stamp!sets_argument(s, v) PROVE StampIInv'
<1> DEFINE n == [stamp_native EXCEPT !.args[s] = v]
           y == [st EXCEPT !.args[s] = v, !.undefined = @ \ {s}]
<1>1. n \in Natives
  BY StartsFollowed DEF Natives
<1>2. y \in StateCopies
  BY StartsFollowed DEF StateCopies
<1>3. Stamp!argument(st, s, v) \in {Stamp!Invalid, y} /\ (~st.layout
      => Stamp!argument(st, s, v) = Stamp!Invalid)
  BY DEF Stamp!argument
<1>4. Stamp!argument(st, s, v) \in StateCopies
  BY <1>2, <1>3, InvalidTypes
<1>5. Follows(n, Stamp!argument(st, s, v))
  <2>1. CASE Stamp!argument(st, s, v) = Stamp!Invalid
    BY <2>1, InvalidTypes DEF Follows
  <2>2. CASE Stamp!argument(st, s, v) = y /\ st.layout
    BY <2>2, StartsFollowed DEF Natives, StateCopies, Follows
  <2> QED BY <1>3, <2>1, <2>2
<1> QED BY <1>1, <1>4, <1>5, SetterCallKeeps DEF Stamp!sets_argument

(* Descriptor heaps are bound; another set makes the tables undefined.     *)
LEMMA HeapsKeep == ASSUME StampIInv, NEW h \in Heaps, Stamp!sets_heaps(h) PROVE StampIInv'
<1> DEFINE a == [s \in Stamp!Slots |-> IF s \in Stamp!Tables THEN 0 ELSE stamp_native.args[s]]
           b == [s \in Stamp!Slots |-> IF s \in Stamp!Tables THEN 0 ELSE st.args[s]]
<1>1. a \in [Stamp!Slots -> Given] /\ b \in [Stamp!Slots -> Given]
      /\ (stamp_native.args = st.args => a = b) /\ (st.args = Stamp!NoArgs => b = Stamp!NoArgs)
  BY StartsFollowed DEF Natives, StateCopies, Stamp!NoArgs
<1> HIDE DEF a
<1>2. Stamp!SetHeaps(stamp_native, h) = IF stamp_native.heaps = h THEN stamp_native ELSE
      [stamp_native EXCEPT !.heaps = h, !.args = a]
  BY DEF Stamp!SetHeaps, a
<1> HIDE DEF b
<1>3. Stamp!descriptor_heaps(st, h) = IF st.heaps = h THEN st ELSE
        [st EXCEPT !.heaps = h, !.args = b, !.undefined = IF st.exact /\ known_layouts
              THEN Stamp!Tables ELSE {}]
  BY DEF Stamp!descriptor_heaps, b
<1>4. Stamp!SetHeaps(stamp_native, h) \in Natives
  BY <1>1, <1>2, StartsFollowed DEF Natives
<1>5. Stamp!descriptor_heaps(st, h) \in StateCopies
  <2> DEFINE u == IF st.exact /\ known_layouts THEN Stamp!Tables ELSE {}
  <2>1. u \in SUBSET Stamp!Tables
    OBVIOUS
  <2>2. Stamp!descriptor_heaps(st, h) = IF st.heaps = h THEN st ELSE [st EXCEPT !.heaps = h, !.args = b, !.undefined = u]
    BY <1>3
  <2> HIDE DEF u
  <2>3. CASE st.heaps = h
    BY <2>2, <2>3, StartsFollowed
  <2>4. CASE st.heaps # h
    <3>1. Stamp!descriptor_heaps(st, h) = [st EXCEPT !.heaps = h, !.args = b, !.undefined = u]
      BY <2>2, <2>4
    <3>2. st \in StateCopies /\ b \in [Stamp!Slots -> Given] /\ h \in Heaps \cup {"unknown"}
      BY <1>1, StartsFollowed
    <3> QED BY <2>1, <3>1, <3>2 DEF StateCopies
  <2> QED BY <2>3, <2>4
<1>6. Follows(Stamp!SetHeaps(stamp_native, h), Stamp!descriptor_heaps(st, h))
  BY <1>1, <1>2, <1>3, StartsFollowed, StampNames DEF Natives, StateCopies, Follows
<1> QED BY <1>4, <1>5, <1>6, SetterCallKeeps DEF Stamp!sets_heaps

(* The copy is given up.                                                   *)
LEMMA InvalidKeeps ==
  ASSUME StampIInv, stamp_native' \in Natives, st' = Stamp!Invalid, UNCHANGED <<known_layouts,
        drawn>> PROVE StampIInv'
BY InvalidTypes DEF StampIInv, StampTypes, Follows, Stamp!DrawsOnOwnState

(* A call that the copy cannot follow.                                     *)
LEMMA StampUnsupportedKeeps == ASSUME StampIInv, Stamp!unsupported PROVE StampIInv'
<1>1. PICK p \in Psos : stamp_native' \in {stamp_native, [Stamp!SetPso(stamp_native, p) EXCEPT !.raster = 0]}
  BY DEF Stamp!unsupported
<1>2. [Stamp!SetPso(stamp_native, p) EXCEPT !.raster = 0] \in Natives
  BY StartsFollowed DEF Stamp!SetPso, Natives
<1> QED BY <1>1, <1>2, StartsFollowed, InvalidKeeps DEF Stamp!unsupported

(* A recording begins.                                                     *)
LEMMA StampResetKeeps == ASSUME StampIInv, NEW p \in Psos \cup {Stamp!None}, NEW ready \in BOOLEAN,
  Stamp!resets(p, ready) PROVE StampIInv'
<1>1. stamp_native' \in Natives /\ stamp_native' = Stamp!Cleared(p)
      /\ UNCHANGED <<known_layouts, drawn>> /\ st' = Stamp!bind_pipeline(Stamp!Fresh(ready), p)
  BY ClearedTypes DEF Stamp!resets
<1>2. st' \in StateCopies
  <2>1. Stamp!Fresh(ready) \in StateCopies /\ p \in Pipelines /\ 0 \in Given
    BY InvalidTypes
  <2>2. \A x \in StateCopies : [x EXCEPT !.pso = p, !.bias = 0] \in StateCopies
    BY <2>1 DEF StateCopies
  <2> QED BY <1>1, <2>1, <2>2 DEF Stamp!bind_pipeline
<1>3. Follows(stamp_native', st')
  BY <1>1 DEF Stamp!Cleared, Stamp!bind_pipeline, Stamp!Fresh, Follows
<1>4. StampTypes' /\ Stamp!DrawsOnOwnState'
  BY <1>1, <1>2 DEF StampIInv, StampTypes, Stamp!DrawsOnOwnState
<1> QED BY <1>3, <1>4 DEF StampIInv

(* The stamp's own state, and what it restores.                            *)
LEMMA OwnState == ASSUME NEW n \in Natives, NEW group \in Stamp!Groups
  PROVE LET b == Stamp!Patched(n, group) IN
    /\ b.heaps = n.heaps /\ b.samples = n.samples /\ b.args \in [Stamp!Slots -> Given]
    /\ b \in [pso : Pipelines, bias : Given, samples : Given, root : Roots \cup {Stamp!None, Stamp!Own}, args : [Stamp!Slots -> Given],
              heaps : Heaps \cup {Stamp!None}, raster : Given \cup {Stamp!OwnRaster}]
    /\ Stamp!includes(group, "pipeline") => b.pso = Stamp!Own /\ b.bias = 0
    /\ ~Stamp!includes(group, "pipeline") => b.pso = n.pso /\ b.bias = n.bias
    /\ Stamp!includes(group, "root_bindings") => b.root = Stamp!Own /\ b.args = Stamp!NoArgs
    /\ ~Stamp!includes(group, "root_bindings") => b.root = n.root /\ b.args = n.args
    /\ Stamp!includes(group, "raster") => b.raster = Stamp!OwnRaster
    /\ ~Stamp!includes(group, "raster") => b.raster = n.raster
<1> DEFINE a == IF Stamp!includes(group, "pipeline") THEN Stamp!SetPso(n, Stamp!Own) ELSE n
           b == IF Stamp!includes(group, "root_bindings") THEN
                 [Stamp!SetRoot(a, Stamp!Own) EXCEPT !.args = Stamp!NoArgs] ELSE a
<1>1. /\ a \in Natives /\ a.root = n.root /\ a.args = n.args /\ a.raster = n.raster
      /\ a.heaps = n.heaps /\ a.samples = n.samples
      /\ Stamp!includes(group, "pipeline") => a.pso = Stamp!Own /\ a.bias = 0
      /\ ~Stamp!includes(group, "pipeline") => a.pso = n.pso /\ a.bias = n.bias
  BY DEF Stamp!SetPso, Natives
<1> HIDE DEF a
<1>2. /\ b \in Natives /\ b.pso = a.pso /\ b.bias = a.bias /\ b.raster = a.raster
      /\ b.heaps = a.heaps /\ b.samples = a.samples
      /\ Stamp!includes(group, "root_bindings") => b.root = Stamp!Own /\ b.args = Stamp!NoArgs
      /\ ~Stamp!includes(group, "root_bindings") => b.root = a.root /\ b.args = a.args
  <2>1. Stamp!SetRoot(a, Stamp!Own) \in Natives /\ Stamp!SetRoot(a, Stamp!Own).root = Stamp!Own
        /\ Stamp!SetRoot(a, Stamp!Own).pso = a.pso /\ Stamp!SetRoot(a, Stamp!Own).bias = a.bias
        /\ Stamp!SetRoot(a, Stamp!Own).raster = a.raster
              /\ Stamp!SetRoot(a, Stamp!Own).heaps = a.heaps
                    /\ Stamp!SetRoot(a, Stamp!Own).samples = a.samples
    <3>1. CASE a.root = Stamp!Own
      BY <1>1, <3>1 DEF Stamp!SetRoot
    <3>2. CASE a.root # Stamp!Own
      <4>1. Stamp!SetRoot(a, Stamp!Own) = [a EXCEPT !.root = Stamp!Own, !.args = Stamp!NoArgs]
        BY <3>2 DEF Stamp!SetRoot
      <4> QED BY <1>1, <4>1, StampNames DEF Natives
    <3> QED BY <3>1, <3>2
  <2> QED BY <1>1, <2>1, StampNames DEF Natives
<1> HIDE DEF b
<1>3. Stamp!Patched(n, group) = IF Stamp!includes(group, "raster") THEN
      [b EXCEPT !.raster = Stamp!OwnRaster] ELSE b
  BY Zenon DEF Stamp!Patched, b, a
<1> QED BY <1>1, <1>2, <1>3 DEF Natives

(* What the restore gives back.                                            *)
LEMMA Restores == ASSUME NEW n \in Natives, NEW x \in StateCopies, NEW group \in Stamp!Groups,
  x.root \in Roots
  PROVE LET c == Stamp!restore(n, x, group) IN
    /\ c \in Natives /\ c.heaps = n.heaps
    /\ Stamp!includes(group, "pipeline") => c.pso = x.pso /\ c.bias = x.bias
    /\ ~Stamp!includes(group, "pipeline") => c.pso = n.pso /\ c.bias = n.bias
    /\ Stamp!includes(group, "root_bindings") /\ n.root # x.root => c.root = x.root
          /\ c.args = x.args
    /\ ~Stamp!includes(group, "root_bindings") => c.root = n.root /\ c.args = n.args
    /\ Stamp!includes(group, "raster") => c.raster = x.raster /\ c.samples = x.samples
    /\ ~Stamp!includes(group, "raster") => c.raster = n.raster /\ c.samples = n.samples
<1> DEFINE a == IF Stamp!includes(group, "pipeline") THEN
      [Stamp!SetPso(n, x.pso) EXCEPT !.bias = x.bias] ELSE n
           r == Stamp!SetRoot(a, x.root)
           g == Stamp!Written(r.args, x.args)
           b == IF Stamp!includes(group, "root_bindings") THEN [r EXCEPT !.args = g] ELSE a
<1>1. /\ a \in Natives /\ a.root = n.root /\ a.args = n.args /\ a.raster = n.raster
      /\ a.heaps = n.heaps /\ a.samples = n.samples
      /\ Stamp!includes(group, "pipeline") => a.pso = x.pso /\ a.bias = x.bias
      /\ ~Stamp!includes(group, "pipeline") => a.pso = n.pso /\ a.bias = n.bias
  BY DEF Stamp!SetPso, Natives, StateCopies
<1> HIDE DEF a
<1>2. /\ r \in Natives /\ r.root = x.root /\ r.pso = a.pso /\ r.bias = a.bias
      /\ r.raster = a.raster /\ r.heaps = a.heaps /\ r.samples = a.samples
      /\ n.root # x.root => r.args = Stamp!NoArgs
  <2>1. CASE a.root = x.root
    BY <1>1, <2>1 DEF Stamp!SetRoot
  <2>2. CASE a.root # x.root
    <3>1. r = [a EXCEPT !.root = x.root, !.args = Stamp!NoArgs]
      BY <2>2 DEF Stamp!SetRoot
    <3> HIDE DEF r
    <3> QED BY <1>1, <3>1, StampNames DEF Natives
  <2> QED BY <2>1, <2>2
<1> HIDE DEF r
<1>3. g \in [Stamp!Slots -> Given] /\ (n.root # x.root => g = x.args)
  <2>1. x.args \in [Stamp!Slots -> Given] /\ r.args \in [Stamp!Slots -> Given]
    BY <1>2 DEF Natives, StateCopies
  <2>2. g \in [Stamp!Slots -> Given]
    BY <2>1 DEF Stamp!Written
  <2>3. ASSUME n.root # x.root PROVE g = x.args
    <3>1. \A s \in Stamp!Slots : r.args[s] = 0
      BY <1>2, <2>3 DEF Stamp!NoArgs
    <3> QED BY <2>1, <3>1 DEF Stamp!Written
  <2> QED BY <2>2, <2>3
<1> HIDE DEF g
<1>4. /\ b \in Natives /\ b.pso = a.pso /\ b.bias = a.bias /\ b.raster = a.raster
      /\ b.heaps = a.heaps /\ b.samples = a.samples
      /\ Stamp!includes(group, "root_bindings") /\ n.root # x.root => b.root = x.root
            /\ b.args = x.args
      /\ ~Stamp!includes(group, "root_bindings") => b.root = a.root /\ b.args = a.args
  BY <1>1, <1>2, <1>3 DEF Natives
<1> HIDE DEF b
<1>5. Stamp!restore(n, x, group) = IF Stamp!includes(group, "raster") THEN
      [b EXCEPT !.raster = x.raster, !.samples = x.samples] ELSE b
  BY Zenon DEF Stamp!restore, b, g, r, a
<1> DEFINE c == Stamp!restore(n, x, group)
<1>6. /\ c \in Natives /\ c.pso = b.pso /\ c.bias = b.bias /\ c.root = b.root /\ c.args = b.args
      /\ c.heaps = b.heaps
      /\ Stamp!includes(group, "raster") => c.raster = x.raster /\ c.samples = x.samples
      /\ ~Stamp!includes(group, "raster") => c.raster = b.raster /\ c.samples = b.samples
  <2>1. CASE Stamp!includes(group, "raster")
    <3>1. c = [b EXCEPT !.raster = x.raster, !.samples = x.samples]
      BY <1>5, <2>1
    <3>2. x.raster \in Given /\ x.samples \in Given
      BY DEF StateCopies
    <3> HIDE DEF c
    <3> QED BY <1>4, <2>1, <3>1, <3>2 DEF Natives
  <2>2. CASE ~Stamp!includes(group, "raster")
    <3>1. c = b
      BY <1>5, <2>2
    <3> HIDE DEF c
    <3> QED BY <1>4, <2>2, <3>1
  <2> QED BY <2>1, <2>2
<1> HIDE DEF c
<1>7. /\ c \in Natives /\ c.heaps = n.heaps
      /\ Stamp!includes(group, "pipeline") => c.pso = x.pso /\ c.bias = x.bias
      /\ ~Stamp!includes(group, "pipeline") => c.pso = n.pso /\ c.bias = n.bias
      /\ Stamp!includes(group, "root_bindings") /\ n.root # x.root => c.root = x.root
            /\ c.args = x.args
      /\ ~Stamp!includes(group, "root_bindings") => c.root = n.root /\ c.args = n.args
      /\ Stamp!includes(group, "raster") => c.raster = x.raster /\ c.samples = x.samples
      /\ ~Stamp!includes(group, "raster") => c.raster = n.raster /\ c.samples = n.samples
  BY <1>1, <1>4, <1>6
<1> QED BY <1>7 DEF c

(* The sample positions of the stamp.                                      *)
LEMMA NormalisedIs == ASSUME NEW n \in Natives, NEW group \in Stamp!Groups
  PROVE LET m == Stamp!Normalised(n, group) IN
    /\ m \in Natives /\ m.pso = n.pso /\ m.bias = n.bias /\ m.root = n.root /\ m.args = n.args
          /\ m.heaps = n.heaps /\ m.raster = n.raster
    /\ m.samples = IF Stamp!includes(group, "raster") THEN 0 ELSE n.samples
BY DEF Stamp!Normalised, Natives

(* A complete copy is exact.                                               *)
LEMMA CompleteIsExact == ASSUME StampIInv, Stamp!complete(st)
  PROVE /\ stamp_native.pso = st.pso /\ stamp_native.bias = st.bias
            /\ stamp_native.samples = st.samples /\ stamp_native.raster = st.raster
        /\ stamp_native.root = st.root /\ stamp_native.args = st.args /\ st.root \in Roots
BY StartsFollowed DEF Stamp!complete, Follows, StateCopies

(* Lists that hold the same are the same.                                  *)
LEMMA SameLists == ASSUME NEW m \in Natives, NEW n \in Natives, m.pso = n.pso, m.bias = n.bias,
  m.samples = n.samples, m.raster = n.raster,
                         m.root = n.root, m.args = n.args, m.heaps = n.heaps
                   PROVE m = n
BY DEF Natives

(* A draw of the stamp.                                                    *)
LEMMA DrawnIsOwn == ASSUME NEW n \in Natives, n.pso = Stamp!Own, n.bias = 0, n.samples = 0,
  n.root = Stamp!Own, n.args = Stamp!NoArgs, n.raster = Stamp!OwnRaster, drawn' = n
                    PROVE Stamp!DrawsOnOwnState'
<1> DEFINE c == Stamp!Cleared(Stamp!Own)
           e == [c EXCEPT !.root = n.root, !.heaps = n.heaps, !.raster = n.raster]
<1>1. c \in Natives /\ c.pso = Stamp!Own /\ c.bias = 0 /\ c.samples = 0 /\ c.args = Stamp!NoArgs
  BY ClearedTypes DEF Stamp!Cleared
<1> HIDE DEF c
<1>2. /\ e \in Natives /\ e.pso = Stamp!Own /\ e.bias = 0 /\ e.samples = 0 /\ e.args = Stamp!NoArgs
      /\ e.root = n.root /\ e.heaps = n.heaps /\ e.raster = n.raster
  BY <1>1 DEF Natives
<1> HIDE DEF e
<1>3. n = e
  BY <1>2, SameLists
<1> QED BY <1>3 DEF Stamp!DrawsOnOwnState, e, c

(* A stamp, drawn, diagnostic or refused, leaves the list as it was.       *)
LEMMA RecordBufferKeeps == ASSUME StampIInv, NEW group \in Stamp!Groups,
  Stamp!record_buffer(group) PROVE StampIInv'
<1> DEFINE n == Stamp!Normalised(stamp_native, group)
           p == Stamp!Patched(n, group)
           c == Stamp!restore(p, st, group)
           d == IF Stamp!includes(group, "raster") THEN [n EXCEPT !.samples = st.samples] ELSE n
<1>1. /\ Stamp!complete(st) /\ UNCHANGED <<st, known_layouts>>
      /\ \/ stamp_native' = c /\ drawn' = (IF group = "all" THEN p ELSE drawn)
         \/ stamp_native' = d /\ UNCHANGED drawn
  BY DEF Stamp!record_buffer
<1>2. /\ stamp_native.pso = st.pso /\ stamp_native.bias = st.bias
      /\ stamp_native.samples = st.samples /\ stamp_native.raster = st.raster
      /\ stamp_native.root = st.root /\ stamp_native.args = st.args /\ st.root \in Roots
            /\ st.root # Stamp!Own
  BY <1>1, CompleteIsExact, StampNames
<1>3. /\ n \in Natives /\ n.pso = stamp_native.pso /\ n.bias = stamp_native.bias
      /\ n.root = stamp_native.root /\ n.args = stamp_native.args
      /\ n.heaps = stamp_native.heaps /\ n.raster = stamp_native.raster
      /\ n.samples = IF Stamp!includes(group, "raster") THEN 0 ELSE stamp_native.samples
  BY NormalisedIs, StartsFollowed
<1> HIDE DEF n
<1>4. /\ p \in Natives /\ p.heaps = n.heaps /\ p.samples = n.samples
      /\ Stamp!includes(group, "pipeline") => p.pso = Stamp!Own /\ p.bias = 0
      /\ ~Stamp!includes(group, "pipeline") => p.pso = n.pso /\ p.bias = n.bias
      /\ Stamp!includes(group, "root_bindings") => p.root = Stamp!Own /\ p.args = Stamp!NoArgs
      /\ ~Stamp!includes(group, "root_bindings") => p.root = n.root /\ p.args = n.args
      /\ Stamp!includes(group, "raster") => p.raster = Stamp!OwnRaster
      /\ ~Stamp!includes(group, "raster") => p.raster = n.raster
  BY <1>3, OwnState DEF Natives
<1> HIDE DEF p
<1>5. c = stamp_native
  <2>1. /\ c \in Natives /\ c.heaps = p.heaps
        /\ Stamp!includes(group, "pipeline") => c.pso = st.pso /\ c.bias = st.bias
        /\ ~Stamp!includes(group, "pipeline") => c.pso = p.pso /\ c.bias = p.bias
        /\ Stamp!includes(group, "root_bindings") /\ p.root # st.root => c.root = st.root
              /\ c.args = st.args
        /\ ~Stamp!includes(group, "root_bindings") => c.root = p.root /\ c.args = p.args
        /\ Stamp!includes(group, "raster") => c.raster = st.raster /\ c.samples = st.samples
        /\ ~Stamp!includes(group, "raster") => c.raster = p.raster /\ c.samples = p.samples
    BY <1>2, <1>4, StartsFollowed, Restores
  <2> HIDE DEF c
  <2>2. c.pso = stamp_native.pso /\ c.bias = stamp_native.bias /\ c.heaps = stamp_native.heaps
    BY <2>1, <1>2, <1>3, <1>4
  <2>3. c.samples = stamp_native.samples /\ c.raster = stamp_native.raster
    BY <2>1, <1>2, <1>3, <1>4
  <2>4. c.root = stamp_native.root /\ c.args = stamp_native.args
    BY <2>1, <1>2, <1>3, <1>4
  <2> QED BY <2>1, <2>2, <2>3, <2>4, StartsFollowed, SameLists
<1>6. d = stamp_native
  <2>1. d \in Natives /\ d.pso = n.pso /\ d.bias = n.bias /\ d.root = n.root /\ d.args = n.args
        /\ d.heaps = n.heaps /\ d.raster = n.raster
        /\ d.samples = IF Stamp!includes(group, "raster") THEN st.samples ELSE n.samples
    BY <1>3, StartsFollowed DEF Natives, StateCopies
  <2> HIDE DEF d
  <2> QED BY <2>1, <1>2, <1>3, StartsFollowed, SameLists
<1>7. UNCHANGED <<stamp_native, st, known_layouts>>
  BY <1>1, <1>5, <1>6
<1>8. Stamp!DrawsOnOwnState'
  <2>1. CASE group = "all" /\ drawn' = p
    BY <2>1, <1>3, <1>4, DrawnIsOwn DEF Stamp!includes
  <2>2. CASE UNCHANGED drawn
    BY <2>2 DEF StampIInv, Stamp!DrawsOnOwnState
  <2> QED BY <1>1, <2>1, <2>2
<1> QED BY <1>7, <1>8 DEF StampIInv, StampTypes, Follows

(* The stamp before Close.                                                 *)
LEMMA FinalKeeps == ASSUME StampIInv, Stamp!record_final_buffer PROVE StampIInv'
<1> DEFINE n == Stamp!Normalised(stamp_native, "raster")
           p == Stamp!Patched(n, "all")
<1>1. drawn' = p /\ stamp_native' = p /\ st' = Stamp!Invalid /\ UNCHANGED known_layouts
  BY DEF Stamp!record_final_buffer
<1>2. n \in Natives /\ n.samples = 0
  BY NormalisedIs, StartsFollowed DEF Stamp!Groups, Stamp!includes
<1> HIDE DEF n
<1>3. p \in Natives /\ p.samples = 0 /\ p.pso = Stamp!Own /\ p.bias = 0 /\ p.root = Stamp!Own
      /\ p.args = Stamp!NoArgs /\ p.raster = Stamp!OwnRaster
  BY <1>2, OwnState DEF Stamp!Groups, Stamp!includes, Natives
<1> HIDE DEF p
<1>4. Stamp!DrawsOnOwnState'
  BY <1>1, <1>3, DrawnIsOwn
<1> QED BY <1>1, <1>3, <1>4, InvalidTypes DEF StampIInv, StampTypes, Follows

(* The invariant holds at first.                                           *)
LEMMA StampInitFits == Stamp!Init => StampIInv
<1> SUFFICES ASSUME Stamp!Init PROVE StampIInv
  OBVIOUS
<1>1. stamp_native \in Natives
  <2>1. CASE stamp_native = Stamp!Cleared(Stamp!None)
    BY <2>1, ClearedTypes
  <2>2. CASE stamp_native # Stamp!Cleared(Stamp!None)
    <3>1. PICK p \in Psos, r \in Roots, v \in Values :
            stamp_native = [Stamp!Cleared(p) EXCEPT !.root = r, !.args =
                  [s \in Stamp!Slots |-> v], !.raster = v]
      BY <2>2 DEF Stamp!Init
    <3>2. Stamp!Cleared(p) \in Natives
      BY ClearedTypes
    <3> QED BY <3>1, <3>2 DEF Natives
  <2> QED BY <2>1, <2>2
<1>2. st \in StateCopies /\ ~st.observed /\ known_layouts \in BOOLEAN
  <2>1. st = Stamp!Fresh(FALSE) /\ known_layouts \in BOOLEAN
    BY DEF Stamp!Init
  <2> QED BY <2>1, InvalidTypes DEF Stamp!Fresh
<1>3. Stamp!DrawsOnOwnState
  BY DEF Stamp!Init, Stamp!DrawsOnOwnState, Stamp!Cleared
<1> QED BY <1>1, <1>2, <1>3 DEF StampIInv, StampTypes, Follows

(* Every step keeps the invariant.                                         *)
LEMMA StampStepKeeps == ASSUME StampIInv, [Stamp!Next]_(Stamp!vars) PROVE StampIInv'
<1>1. CASE Stamp!Next
  BY <1>1, PipelineKeeps, BiasKeeps, PositionsKeep, RasterKeeps, RootKeeps, UnknownRootKeeps,
        ArgumentKeeps, HeapsKeep,
     StampUnsupportedKeeps, StampResetKeeps, RecordBufferKeeps, FinalKeeps DEF Stamp!Next
<1>2. CASE UNCHANGED Stamp!vars
  BY <1>2 DEF Stamp!vars, StampIInv, StampTypes, Follows, Stamp!DrawsOnOwnState
<1> QED BY <1>1, <1>2

(* The invariant gives the safety.                                         *)
LEMMA StampConsequences == StampIInv => Stamp!StampSafety
<1> SUFFICES ASSUME StampIInv PROVE Stamp!StampSafety
  OBVIOUS
<1>1. Stamp!TypeOK
  BY StartsFollowed DEF Stamp!TypeOK, Natives, StateCopies
<1>2. Stamp!CopyIsExact
  BY CompleteIsExact DEF Stamp!CopyIsExact
<1> QED BY <1>1, <1>2 DEF StampIInv, Stamp!StampSafety

(* What the stamp would restore is what the list holds, and its draw runs  *)
(* on its own state only; for any pipelines, signatures, heaps and values. *)
LEMMA StampSafe == Stamp!Spec => []Stamp!StampSafety
<1>1. Stamp!Init => StampIInv
  BY StampInitFits
<1>2. StampIInv /\ [Stamp!Next]_(Stamp!vars) => StampIInv'
  BY StampStepKeeps
<1>3. StampIInv => Stamp!StampSafety
  BY StampConsequences
<1> QED BY <1>1, <1>2, <1>3, PTL DEF Stamp!Spec
-----------------------------------------------------------------------------
(* Both: the copy planned over a batch and the stamp recorded into a list  *)
(* find and leave the state they were planned for.                         *)
THEOREM SubmissionSafe == Submission!Spec /\ Stamp!Spec => []SubmissionSafety
<1>1. SubmissionSafety <=> Submission!SubmissionSafety /\ Stamp!StampSafety
  BY DEF SubmissionSafety
<1> QED BY <1>1, BatchSafe, StampSafe, PTL
=============================================================================
