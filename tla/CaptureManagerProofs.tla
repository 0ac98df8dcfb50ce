------------------------ MODULE CaptureManagerProofs ------------------------
(***************************************************************************)
(* Proofs about CaptureManager, for any threads, queues, lists and packets *)
(* and with every fault: a packet is never reused under the GPU, receipts  *)
(* are serial and the GPU never waits for a signal nobody queued.          *)
(***************************************************************************)
EXTENDS CaptureManager, FiniteSetTheorems, WellFoundedInduction, TLAPS

(* The domains of TypeOK by name, and those of what it leaves open.        *)
Devices == [active : BOOLEAN, failed : BOOLEAN, session : 1..MaximumSession,
            session_active : BOOLEAN, last_signal : 0..MaximumSignal]
Items   == [registered : BOOLEAN, packets : SUBSET Packets, consumer : BOOLEAN,
            touched : BOOLEAN, awaiting : BOOLEAN, session : 0..MaximumSession]
Words   == [packets : SUBSET Packets, consumer : BOOLEAN, touched : BOOLEAN,
            awaiting : BOOLEAN, escaped : BOOLEAN]
Notices == [recordings : BOOLEAN, uncertain : BOOLEAN]
Records == [gpu : {"idle", "recorded", "retiring", "ready", "consuming", "failed"},
            assigned : BOOLEAN, retired : BOOLEAN, quarantined : BOOLEAN, leased : BOOLEAN,
            in_flight : 0..1, submitted : BOOLEAN, producer : AllQueues, order : Orders,
            session : 0..MaximumSession, token : 0..MaximumToken, consumer_value : 0..MaximumSignal]
Submissions == [pc : {"idle", "before", "bypass", "forward", "classify", "mark", "wake", "escape",
                      "after", "finish", "consume", "stopped"},
                queue : AllQueues, batch : Seq(Lists), frames : SUBSET Packets,
                nested : BOOLEAN, seen : SUBSET (Lists \X BOOLEAN), value : Nat]
Natives == [writes : SUBSET (Packets \X (0..MaximumToken)), reads_output : BOOLEAN,
            open : BOOLEAN, fresh : BOOLEAN]

Waits   == [op : {"wait"}, value : 1..MaximumSignal]
Marks   == [op : {"signal"}, value : 1..MaximumSignal]
Execs   == {c \in [op : {"exec"}, value : 0..MaximumSignal,
                   writes : SUBSET (Packets \X (0..MaximumToken) \X Nat), reads : SUBSET (Packets \X (0..MaximumToken)),
                   output : {"none", "read", "write"}] :
              \E n \in Nat : \A w \in c.writes : w[3] <= n}
Fences  == [op : {"fence"}, packets : SUBSET Packets]
Commands == Waits \cup Marks \cup Execs \cup Fences

AllLists      == [Lists -> Items]
AllWords      == [Lists -> Words]
AllPackets    == [Packets -> Records]
AllSubmissions == [AllThreads -> Submissions]
AllWork       == [AllQueues -> Seq(Commands)]
AllNatives    == [Lists -> Natives]
Receipts      == Transactions \cup {NoOne}

Types ==
  /\ device \in Devices /\ lists \in AllLists /\ published \in AllWords
  /\ deferred \in Notices /\ packets \in AllPackets /\ next_token \in 0..MaximumToken
  /\ transaction \in Receipts /\ thread \in AllSubmissions
  /\ gpu \in AllWork /\ completed \in 0..MaximumSignal
  /\ native \in AllNatives /\ content \in [Packets -> Orders]

(* The parts of the invariant take what they are about as parameters: an   *)
(* action under the mutex is several of the manager's steps one after the  *)
(* other, and each keeps them.                                             *)
Is(g, q, i, op) == i \in DOMAIN g[q] /\ g[q][i].op = op
Ordered(g, q, i) == Is(g, q, i, "exec") /\ g[q][i].value > 0

(* What stands at i in q executes only after signal v.                     *)
Passed(g, done, q, i, v) ==
  done >= v \/ \E j \in DOMAIN g[q] : j < i /\ Is(g, q, j, "wait") /\ g[q][j].value >= v
End(g, q) == Len(g[q]) + 1

(* Every value of the timeline that was promised and not reached is queued *)
(* as a signal, behind the commands of its receipt, which are on one queue *)
(* and behind a wait for the value before it.                              *)
Timeline(g, done, last, tr, failed) ==
  /\ done <= last
  /\ \A q \in AllQueues : \A i \in DOMAIN g[q] :
       /\ Is(g, q, i, "wait") => g[q][i].value <= last
       /\ Is(g, q, i, "signal") => /\ done < g[q][i].value /\ g[q][i].value <= last
                                   /\ Passed(g, done, q, i, g[q][i].value - 1)
       /\ Ordered(g, q, i) => /\ done < g[q][i].value /\ g[q][i].value <= last + 1
                              /\ Passed(g, done, q, i, g[q][i].value - 1)
                              /\ g[q][i].value = last + 1 => IF tr = NoOne THEN failed ELSE q = tr.queue
  /\ \A q, r \in AllQueues : \A i \in DOMAIN g[q], j \in DOMAIN g[r] :
       g[q][i].op # "fence" /\ g[r][j].op # "fence" /\ g[q][i].value = g[r][j].value =>
       /\ Is(g, q, i, "signal") /\ Is(g, r, j, "signal") => q = r /\ i = j
       /\ Is(g, q, i, "signal") /\ Ordered(g, r, j) => q = r /\ j < i
       /\ Ordered(g, q, i) /\ Ordered(g, r, j) => q = r
  /\ \A q \in AllQueues : \A i, j \in DOMAIN g[q] :
       j < i /\ Is(g, q, j, "wait") /\ Is(g, q, i, "signal") => g[q][j].value < g[q][i].value
  /\ \A v \in done + 1..last : \E q \in AllQueues : \E i \in DOMAIN g[q] :
       Is(g, q, i, "signal") /\ g[q][i].value = v
  /\ tr # NoOne => tr.value = last + 1 /\ Passed(g, done, tr.queue, End(g, tr.queue), last)

(* A recording is retired on the queue that executed it last, whose fence  *)
(* is behind all its executions.                                           *)
FencesFit(g, done, last, pk) ==
  /\ \A q \in AllQueues : \A i \in DOMAIN g[q] : Is(g, q, i, "fence") =>
       \A p \in g[q][i].packets : ~pk[p].quarantined =>
         /\ pk[p].assigned /\ pk[p].gpu = "retiring" /\ q = pk[p].producer
         /\ Passed(g, done, q, i, pk[p].order[1] - 1)
  /\ \A p \in Packets : pk[p].assigned /\ ~pk[p].quarantined =>
       /\ pk[p].gpu \in {"retiring", "ready", "consuming"} => pk[p].submitted
       /\ pk[p].submitted => /\ pk[p].order[1] \in 1..last
                             /\ Passed(g, done, pk[p].producer, End(g, pk[p].producer), pk[p].order[1] - 1)

(* A packet whose recording escaped is out of use, or will be before the   *)
(* packets are looked at again.                                            *)
Doomed(p, pk, ls, pub, def) ==
  \/ pk[p].quarantined \/ def.uncertain
  \/ def.recordings /\ \E l \in Lists : p \in ls[l].packets /\ pub[l].escaped

(* A queued write is of the packet's present recording: escaped, of the    *)
(* receipt under way, or of the receipts so far, and then a fence behind   *)
(* it holds the packet back.                                               *)
InFlight(tr, p) == tr # NoOne /\ p \in tr.packets
Behind(g, pk, q, i, p) ==
  \/ pk[p].gpu = "recorded"
  \/ /\ pk[p].gpu = "retiring"
     /\ \E r \in AllQueues : \E j \in DOMAIN g[r] : Is(g, r, j, "fence") /\ p \in g[r][j].packets
     /\ \A j \in DOMAIN g[q] : j < i /\ Is(g, q, j, "fence") => p \notin g[q][j].packets
Received(g, pk, q, i, p) ==
  /\ pk[p].submitted /\ Behind(g, pk, q, i, p)
  /\ g[q][i].value < pk[p].order[1] \/ (g[q][i].value = pk[p].order[1] /\ q = pk[p].producer)

WritesFit(g, pk, tr, ls, pub, def) ==
  \A q \in AllQueues : \A i \in DOMAIN g[q] : Is(g, q, i, "exec") => \A w \in g[q][i].writes :
    /\ pk[w[1]].assigned /\ pk[w[1]].token = w[2]
    /\ \/ pk[w[1]].quarantined
       \/ g[q][i].value = 0 /\ Doomed(w[1], pk, ls, pub, def)
       \/ g[q][i].value > 0 /\ InFlight(tr, w[1]) /\ g[q][i].value = tr.value
       \/ g[q][i].value > 0 /\ Received(g, pk, q, i, w[1])

(* A queued read is of a frame the compositor holds, or has returned under *)
(* a value not yet reached.                                                *)
Reading == {"after", "finish", "consume", "stopped"}
ReadsFit(g, pk, th) ==
  \A q \in AllQueues : \A i \in DOMAIN g[q] : Is(g, q, i, "exec") => \A r \in g[q][i].reads :
    /\ g[q][i].value > 0 /\ pk[r[1]].assigned /\ pk[r[1]].token = r[2]
    /\ \/ pk[r[1]].quarantined
       \/ /\ pk[r[1]].leased /\ r[1] \in th[Service].frames
          /\ th[Service].pc \in Reading /\ g[q][i].value = th[Service].value
       \/ pk[r[1]].gpu = "consuming" /\ pk[r[1]].consumer_value >= g[q][i].value

LeasesFit(pk, th, tr) ==
  /\ \A p \in Packets : pk[p].leased => pk[p].assigned /\ (pk[p].quarantined \/ pk[p].gpu = "ready")
  /\ th[Service].pc = "idle" => th[Service].frames = {}
  /\ \A p \in th[Service].frames : pk[p].assigned /\ (pk[p].quarantined \/ pk[p].leased)
  /\ th[Service].pc \in {"forward", "after", "finish"} => th[Service].value = tr.value
  /\ th[Service].pc = "consume" => th[Service].value <= MaximumSignal
  /\ th[Service].pc \in Reading \cup {"idle", "forward"} /\ th[Service].queue = PrivateQueue

(* The receipt under way, its thread and its packets.                      *)
InReceipt == {"forward", "after", "finish"}
FlightFits(pk, th, tr) ==
  /\ \A t \in AllThreads : th[t].pc \in InReceipt => tr # NoOne /\ tr.by = t
  /\ tr # NoOne => th[tr.by].pc \in InReceipt /\ th[tr.by].queue = tr.queue
  /\ \A p \in Packets : pk[p].in_flight = IF InFlight(tr, p) THEN 1 ELSE 0
  /\ \A p \in Packets : InFlight(tr, p) =>
       /\ pk[p].assigned /\ pk[p].gpu = "recorded"
       /\ \E i \in 1..tr.last_position : <<p, i>> \in tr.positions

(* The manager knows of a list what it really holds.                       *)
ListsFit(ls, nat, pub, pk) ==
  /\ \A l \in Lists :
       /\ nat[l].writes = {<<p, pk[p].token>> : p \in ls[l].packets}
       /\ nat[l].reads_output = ls[l].consumer
       /\ \A p \in ls[l].packets : pk[p].assigned /\ pk[p].gpu = "recorded"
       /\ pub[l].packets = ls[l].packets /\ pub[l].consumer = ls[l].consumer
       /\ ls[l].awaiting => ~nat[l].open
       /\ ls[l].awaiting \/ ~ls[l].registered => ls[l].packets = {} /\ ~ls[l].consumer
  /\ \A l, m \in Lists : \A p \in ls[l].packets : p \in ls[m].packets => l = m

(* What a list holds is not retired.                                       *)
Unretired(ls, pk) == \A l \in Lists : \A p \in ls[l].packets : ~pk[p].retired

(* A batch on its way past the ordering, list by list: nothing of it is    *)
(* still in use, or the notice is on its way.                              *)
EscapeFits(s, l, ls, pub, pk, def, failed, tr) ==
  /\ s.pc = "forward" => ls[l].packets \subseteq tr.packets
  /\ s.pc = "bypass" => /\ \A p \in ls[l].packets : pk[p].quarantined
                        /\ ls[l].consumer => failed
  /\ s.pc = "mark" /\ (ls[l].packets # {} \/ ls[l].consumer) => \E b \in BOOLEAN : <<l, b>> \in s.seen
  /\ s.pc \in {"wake", "escape"} =>
       /\ ls[l].consumer => failed \/ def.uncertain \/ pub[l].escaped
       /\ \A p \in ls[l].packets : pk[p].quarantined \/ def.uncertain \/ pub[l].escaped
  /\ s.pc = "escape" => \A p \in ls[l].packets : Doomed(p, pk, ls, pub, def)

EscapesFit(th, ls, pub, pk, def, failed, tr) ==
  \A t \in Threads : \A k \in DOMAIN th[t].batch :
    EscapeFits(th[t], th[t].batch[k], ls, pub, pk, def, failed, tr)

(* The stable output is written in receipts; a read past the ordering is   *)
(* known.                                                                  *)
OutputsFit(g, pub, def, failed) ==
  \A q \in AllQueues : \A i \in DOMAIN g[q] : Is(g, q, i, "exec") =>
    /\ g[q][i].output = "write" => g[q][i].value > 0
    /\ g[q][i].output = "read" /\ g[q][i].value = 0 =>
         failed \/ def.uncertain \/ \E l \in Lists : pub[l].escaped /\ pub[l].consumer

Fits(dev, ls, pub, def, pk, tr, th, g, done, nat) ==
  /\ Timeline(g, done, dev.last_signal, tr, dev.failed)
  /\ FencesFit(g, done, dev.last_signal, pk)
  /\ WritesFit(g, pk, tr, ls, pub, def) /\ ReadsFit(g, pk, th)
  /\ LeasesFit(pk, th, tr) /\ FlightFits(pk, th, tr)
  /\ ListsFit(ls, nat, pub, pk) /\ EscapesFit(th, ls, pub, pk, def, dev.failed, tr)
  /\ OutputsFit(g, pub, def, dev.failed)

IInv ==
  /\ Types
  /\ Fits(device, lists, published, deferred, packets, transaction, thread, gpu, completed, native)
  /\ Unretired(lists, packets)
-----------------------------------------------------------------------------
(* The smallest of a set of naturals, and the largest of a bounded one.    *)
LEMMA Smallest ==
  ASSUME NEW T \in SUBSET Nat, T # {}
  PROVE \E k \in T : \A m \in T : k <= m
<1>1. IsWellFoundedOn(OpToRel(<, Nat), Nat)
  BY NatLessThanWellFounded
<1>2. \A x, y \in Nat : (<<y, x>> \in OpToRel(<, Nat)) <=> y < x
  BY DEF OpToRel
<1>3. \E R : IsWellFoundedOn(R, Nat) /\ \A x, y \in Nat : (<<y, x>> \in R) <=> y < x
  BY <1>1, <1>2, Zenon
<1>4. PICK R : IsWellFoundedOn(R, Nat) /\ \A x, y \in Nat : (<<y, x>> \in R) <=> y < x
  BY <1>3
<1>5. \E x \in T : \A y \in T : ~(<<y, x>> \in R)
  BY <1>4, WFMin
<1>6. PICK x \in T : \A y \in T : ~(<<y, x>> \in R)
  BY <1>5
<1>7. ASSUME NEW y \in T PROVE x <= y
  <2>1. x \in Nat /\ y \in Nat
    OBVIOUS
  <2>2. ~(y < x)
    BY <2>1, <1>4, <1>6, Zenon
  <2> QED BY <2>1, <2>2
<1> QED BY <1>7

(* A bounded set of naturals has a largest member.                         *)
LEMMA Largest ==
  ASSUME NEW S \in SUBSET Nat, S # {}, NEW n \in Nat, \A i \in S : i <= n
  PROVE \E i \in S : \A j \in S : j <= i
<1> DEFINE T == {k \in Nat : \E i \in S : k = n - i}
<1>1. T \in SUBSET Nat /\ T # {}
  <2>1. PICK i \in S : TRUE
    OBVIOUS
  <2>2. n - i \in Nat
    OBVIOUS
  <2> QED BY <2>2
<1>2. \E k \in T : \A m \in T : k <= m
  <2> HIDE DEF T
  <2> QED BY <1>1, Smallest
<1>3. PICK k \in T : \A m \in T : k <= m
  BY <1>2
<1>4. PICK i \in S : k = n - i
  OBVIOUS
<1>5. ASSUME NEW j \in S PROVE j <= i
  <2>1. n - j \in T
    OBVIOUS
  <2> QED BY <2>1, <1>3, <1>4
<1> QED BY <1>5
-----------------------------------------------------------------------------
(* A command is of one kind.                                               *)
LEMMA Kinds ==
  ASSUME NEW c \in Commands
  PROVE /\ c.op \in {"wait", "signal", "exec", "fence"}
        /\ c.op = "wait" => c.value \in 1..MaximumSignal
        /\ c.op = "signal" => c.value \in 1..MaximumSignal
        /\ c.op = "exec" => /\ c.value \in 0..MaximumSignal
                            /\ c.writes \in SUBSET (Packets \X (0..MaximumToken) \X Nat)
                            /\ c.reads \in SUBSET (Packets \X (0..MaximumToken))
                            /\ c.output \in {"none", "read", "write"}
                            /\ \E n \in Nat : \A w \in c.writes : w[3] <= n
        /\ c.op = "fence" => c.packets \in SUBSET Packets
<1>1. CASE c \in Waits
  BY <1>1 DEF Waits
<1>2. CASE c \in Marks
  BY <1>2 DEF Marks
<1>3. CASE c \in Execs
  <2>1. c \in [op : {"exec"}, value : 0..MaximumSignal,
                   writes : SUBSET (Packets \X (0..MaximumToken) \X Nat), reads : SUBSET (Packets \X (0..MaximumToken)),
                   output : {"none", "read", "write"}] /\ \E n \in Nat : \A w \in c.writes : w[3] <= n
    BY <1>3 DEF Execs
  <2>2. /\ c.op = "exec" /\ c.value \in 0..MaximumSignal
        /\ c.writes \in SUBSET (Packets \X (0..MaximumToken) \X Nat)
        /\ c.reads \in SUBSET (Packets \X (0..MaximumToken))
        /\ c.output \in {"none", "read", "write"}
    BY <2>1
  <2> QED BY <2>1, <2>2
<1>4. CASE c \in Fences
  BY <1>4 DEF Fences
<1> QED BY <1>1, <1>2, <1>3, <1>4 DEF Commands

(* What stands in a queue is a command.                                    *)
LEMMA Standing ==
  ASSUME NEW g \in AllWork, NEW q \in AllQueues
  PROVE /\ g[q] \in Seq(Commands) /\ DOMAIN g[q] = 1..Len(g[q]) /\ Len(g[q]) \in Nat
        /\ \A i \in DOMAIN g[q] : i \in Nat /\ i >= 1 /\ i <= Len(g[q]) /\ g[q][i] \in Commands
<1>1. g[q] \in Seq(Commands)
  BY DEF AllWork
<1> QED BY <1>1

(* What is longer only has more behind.                                    *)
Longer(g, g2) ==
  /\ g2 \in AllWork
  /\ \A r \in AllQueues : /\ Len(g[r]) <= Len(g2[r])
                          /\ \A i \in DOMAIN g[r] : i \in DOMAIN g2[r] /\ g2[r][i] = g[r][i]

(* One command more.                                                       *)
Appended(g, q, c) == [g EXCEPT ![q] = Append(g[q], c)]

(* A queue with one command more is longer, and the command is its last.   *)
LEMMA OneMore ==
  ASSUME NEW g \in AllWork, NEW q \in AllQueues, NEW c \in Commands
  PROVE LET g2 == Appended(g, q, c) IN
        /\ Longer(g, g2)
        /\ \A r \in AllQueues : \A i \in DOMAIN g2[r] : i \in DOMAIN g[r] \/ (r = q /\ i = End(g, q))
        /\ End(g, q) \in DOMAIN g2[q] /\ g2[q][End(g, q)] = c
<1> DEFINE g2 == Appended(g, q, c)
<1>1. g[q] \in Seq(Commands)
  BY DEF AllWork
<1>2. /\ Append(g[q], c) \in Seq(Commands) /\ Len(Append(g[q], c)) = Len(g[q]) + 1
      /\ \A i \in 1..Len(g[q]) : Append(g[q], c)[i] = g[q][i]
      /\ Append(g[q], c)[Len(g[q]) + 1] = c
  BY <1>1
<1>3. g2 \in AllWork /\ g2[q] = Append(g[q], c) /\ \A r \in AllQueues : r # q => g2[r] = g[r]
  BY <1>2 DEF AllWork, Appended
<1>4. \A r \in AllQueues : g[r] \in Seq(Commands) /\ DOMAIN g[r] = 1..Len(g[r]) /\ Len(g[r]) \in Nat
  BY Standing
<1>5. DOMAIN g2[q] = 1..Len(g[q]) + 1
  BY <1>2, <1>3, <1>4
<1> HIDE DEF g2
<1>6. Longer(g, g2)
  BY <1>2, <1>3, <1>4, <1>5 DEF Longer
<1>7. \A r \in AllQueues : \A i \in DOMAIN g2[r] : i \in DOMAIN g[r] \/ (r = q /\ i = End(g, q))
  BY <1>3, <1>4, <1>5 DEF End
<1>8. End(g, q) \in DOMAIN g2[q] /\ g2[q][End(g, q)] = c
  BY <1>2, <1>3, <1>4, <1>5 DEF End
<1> QED BY <1>6, <1>7, <1>8 DEF g2
-----------------------------------------------------------------------------
(* What executes after a signal still does when the queues grow.           *)
LEMMA PassedGrows ==
  ASSUME NEW g \in AllWork, NEW g2, Longer(g, g2), NEW done, NEW q \in AllQueues, NEW v
  PROVE /\ \A i : Passed(g, done, q, i, v) => Passed(g2, done, q, i, v)
        /\ Passed(g, done, q, End(g, q), v) => Passed(g2, done, q, End(g2, q), v)
<1>1. \A j \in DOMAIN g[q] : j \in DOMAIN g2[q] /\ g2[q][j] = g[q][j]
  BY DEF Longer
<1>2. ASSUME NEW i, Passed(g, done, q, i, v) PROVE Passed(g2, done, q, i, v)
  BY <1>1, <1>2, Zenon DEF Passed, Is
<1>3. ASSUME Passed(g, done, q, End(g, q), v) PROVE Passed(g2, done, q, End(g2, q), v)
  <2>1. CASE done >= v
    BY <2>1 DEF Passed
  <2>2. ASSUME NEW j \in DOMAIN g[q], Is(g, q, j, "wait"), g[q][j].value >= v
        PROVE  Passed(g2, done, q, End(g2, q), v)
    <3>1. j \in Nat /\ j <= Len(g[q]) /\ Len(g[q]) \in Nat
      BY Standing
    <3>2. Len(g[q]) <= Len(g2[q]) /\ Len(g2[q]) \in Nat
      BY Standing DEF Longer
    <3>3. j < End(g2, q)
      BY <3>1, <3>2 DEF End
    <3> QED BY <1>1, <2>2, <3>3 DEF Passed, Is
  <2> QED BY <1>3, <2>1, <2>2 DEF Passed
<1> QED BY <1>2, <1>3

(* Everything but the quarantine, and the mark of a retired list, is left  *)
(* alone.                                                                  *)
Alike(pk, pk2) ==
  /\ pk2 \in AllPackets
  /\ \A p \in Packets :
       /\ pk2[p].gpu = pk[p].gpu /\ pk2[p].assigned = pk[p].assigned
       /\ pk2[p].leased = pk[p].leased /\ pk2[p].in_flight = pk[p].in_flight
       /\ pk2[p].submitted = pk[p].submitted /\ pk2[p].producer = pk[p].producer
       /\ pk2[p].order = pk[p].order /\ pk2[p].token = pk[p].token
       /\ pk2[p].consumer_value = pk[p].consumer_value
       /\ pk[p].quarantined => pk2[p].quarantined

OnlyWorse(pk, pk2) == Alike(pk, pk2) /\ \A p \in Packets : pk2[p].retired = pk[p].retired

(* The notices that are gone have been served: what they name is out of    *)
(* use.                                                                    *)
Serves(pk, pub, def, failed, pk2, pub2, def2, failed2) ==
  /\ Alike(pk, pk2)
  /\ failed => failed2
  /\ def.uncertain => def2.uncertain \/ (failed2 /\ \A p \in Packets : pk[p].assigned => pk2[p].quarantined)
  /\ \A l \in Lists :
       /\ pub2[l].packets = pub[l].packets /\ pub2[l].consumer = pub[l].consumer
       /\ pub[l].escaped => \/ pub2[l].escaped
                            \/ /\ pub[l].consumer => failed2
                               /\ \A p \in pub[l].packets : pk[p].assigned => pk2[p].quarantined
  /\ def.recordings => def2.recordings \/ \A l \in Lists : ~pub2[l].escaped

(* What serves notices leaves no packet in use that a notice condemned.    *)
LEMMA DoomStays ==
  ASSUME NEW ls \in AllLists, NEW pk \in AllPackets, NEW pub, NEW def, NEW failed,
         NEW pk2, NEW pub2, NEW def2, NEW failed2, NEW nat,
         Serves(pk, pub, def, failed, pk2, pub2, def2, failed2), ListsFit(ls, nat, pub, pk),
         NEW p \in Packets, pk[p].assigned, Doomed(p, pk, ls, pub, def)
  PROVE  Doomed(p, pk2, ls, pub2, def2)
<1>1. CASE pk[p].quarantined
  BY <1>1 DEF Serves, Alike, Doomed
<1>2. CASE def.uncertain
  BY <1>2 DEF Serves, Doomed
<1>3. ASSUME def.recordings, NEW l \in Lists, p \in ls[l].packets, pub[l].escaped
      PROVE  Doomed(p, pk2, ls, pub2, def2)
  <2>1. pub[l].packets = ls[l].packets
    BY DEF ListsFit
  <2>2. pub2[l].escaped \/ pk2[p].quarantined
    BY <1>3, <2>1 DEF Serves
  <2>3. pub2[l].escaped => def2.recordings
    BY <1>3 DEF Serves
  <2> QED BY <1>3, <2>2, <2>3 DEF Doomed
<1> QED BY <1>1, <1>2, <1>3 DEF Doomed

(* Serving notices leaves timeline, fences, reads, leases and the receipt  *)
(* as they are.                                                            *)
LEMMA ServingKeepsWork ==
  ASSUME NEW g \in AllWork, NEW done, NEW last, NEW tr, NEW failed, NEW failed2, failed => failed2,
         NEW pk \in AllPackets, NEW pk2, Alike(pk, pk2), NEW th \in AllSubmissions,
         Timeline(g, done, last, tr, failed), FencesFit(g, done, last, pk),
         ReadsFit(g, pk, th), LeasesFit(pk, th, tr), FlightFits(pk, th, tr)
  PROVE  /\ Timeline(g, done, last, tr, failed2) /\ FencesFit(g, done, last, pk2)
         /\ ReadsFit(g, pk2, th) /\ LeasesFit(pk2, th, tr) /\ FlightFits(pk2, th, tr)
<1>1. Timeline(g, done, last, tr, failed2)
  BY DEF Timeline
<1>2. FencesFit(g, done, last, pk2)
  <2>1. ASSUME NEW q \in AllQueues, NEW i \in DOMAIN g[q], Is(g, q, i, "fence"),
               NEW p \in g[q][i].packets, ~pk2[p].quarantined
        PROVE  /\ pk2[p].assigned /\ pk2[p].gpu = "retiring" /\ q = pk2[p].producer
               /\ Passed(g, done, q, i, pk2[p].order[1] - 1)
    <3>1. p \in Packets
      BY <2>1, Standing, Kinds DEF Is
    <3> QED BY <2>1, <3>1 DEF Alike, FencesFit
  <2>2. ASSUME NEW p \in Packets, pk2[p].assigned, ~pk2[p].quarantined
        PROVE  /\ pk2[p].gpu \in {"retiring", "ready", "consuming"} => pk2[p].submitted
               /\ pk2[p].submitted => /\ pk2[p].order[1] \in 1..last
                                      /\ Passed(g, done, pk2[p].producer, End(g, pk2[p].producer), pk2[p].order[1] - 1)
    <3>1. pk[p].assigned /\ ~pk[p].quarantined
      BY <2>2 DEF Alike
    <3> QED BY <3>1 DEF Alike, FencesFit
  <2> QED BY <2>1, <2>2, Zenon DEF FencesFit
<1>3. ReadsFit(g, pk2, th)
  <2>1. ASSUME NEW q \in AllQueues, NEW i \in DOMAIN g[q], Is(g, q, i, "exec"), NEW r \in g[q][i].reads
        PROVE  r[1] \in Packets
    BY <2>1, Standing, Kinds DEF Is
  <2> QED BY <2>1 DEF Alike, ReadsFit
<1>4. LeasesFit(pk2, th, tr)
  <2>1. Service \in AllThreads /\ th[Service].frames \in SUBSET Packets
    BY DEF AllThreads, AllSubmissions, Submissions
  <2> QED BY <2>1 DEF Alike, LeasesFit
<1>5. FlightFits(pk2, th, tr)
  BY DEF Alike, FlightFits
<1> QED BY <1>1, <1>2, <1>3, <1>4, <1>5

(* Serving notices leaves what lists, escaped batches and queued writes    *)
(* rely on.                                                                *)
LEMMA ServingKeepsLists ==
  ASSUME NEW ls \in AllLists, NEW pk \in AllPackets, NEW pub, NEW def, NEW failed,
         NEW pk2, NEW pub2, NEW def2, NEW failed2, NEW nat, NEW g \in AllWork, NEW tr, NEW th \in AllSubmissions,
         Serves(pk, pub, def, failed, pk2, pub2, def2, failed2), ListsFit(ls, nat, pub, pk),
         WritesFit(g, pk, tr, ls, pub, def), EscapesFit(th, ls, pub, pk, def, failed, tr),
         OutputsFit(g, pub, def, failed)
  PROVE  /\ WritesFit(g, pk2, tr, ls, pub2, def2) /\ ListsFit(ls, nat, pub2, pk2)
         /\ EscapesFit(th, ls, pub2, pk2, def2, failed2, tr) /\ OutputsFit(g, pub2, def2, failed2)
<1> USE DEF AllThreads
<1>1. WritesFit(g, pk2, tr, ls, pub2, def2)
  <2>1. SUFFICES ASSUME NEW q \in AllQueues, NEW i \in DOMAIN g[q], Is(g, q, i, "exec"), NEW w \in g[q][i].writes
        PROVE  /\ pk2[w[1]].assigned /\ pk2[w[1]].token = w[2]
               /\ \/ pk2[w[1]].quarantined
                  \/ g[q][i].value = 0 /\ Doomed(w[1], pk2, ls, pub2, def2)
                  \/ g[q][i].value > 0 /\ InFlight(tr, w[1]) /\ g[q][i].value = tr.value
                  \/ g[q][i].value > 0 /\ Received(g, pk2, q, i, w[1])
    BY Zenon DEF WritesFit
  <2>2. w[1] \in Packets
    BY <2>1, Standing, Kinds DEF Is
  <2>3. pk[w[1]].assigned /\ pk[w[1]].token = w[2]
    BY <2>1 DEF WritesFit
  <2>4. pk2[w[1]].assigned /\ pk2[w[1]].token = w[2]
    BY <2>2, <2>3 DEF Serves, Alike
  <2>5. CASE pk[w[1]].quarantined
    BY <2>2, <2>4, <2>5 DEF Serves, Alike
  <2>6. CASE g[q][i].value = 0 /\ Doomed(w[1], pk, ls, pub, def)
    BY <2>2, <2>3, <2>4, <2>6, DoomStays
  <2>7. CASE g[q][i].value > 0 /\ InFlight(tr, w[1]) /\ g[q][i].value = tr.value
    BY <2>4, <2>7
  <2>8. CASE g[q][i].value > 0 /\ Received(g, pk, q, i, w[1])
    <3>1. Received(g, pk2, q, i, w[1])
      BY <2>2, <2>8 DEF Received, Behind, Serves, Alike
    <3> QED BY <2>4, <2>8, <3>1
  <2> QED BY <2>1, <2>5, <2>6, <2>7, <2>8, Zenon DEF WritesFit
<1>2. ListsFit(ls, nat, pub2, pk2)
  <2>1. \A l \in Lists : ls[l].packets \in SUBSET Packets
    BY DEF AllLists, Items
  <2>2. \A l \in Lists : {<<p, pk2[p].token>> : p \in ls[l].packets} = {<<p, pk[p].token>> : p \in ls[l].packets}
    BY <2>1 DEF Serves, Alike
  <2>3. ASSUME NEW l \in Lists
        PROVE  /\ nat[l].writes = {<<p, pk2[p].token>> : p \in ls[l].packets}
               /\ nat[l].reads_output = ls[l].consumer
               /\ \A p \in ls[l].packets : pk2[p].assigned /\ pk2[p].gpu = "recorded"
               /\ pub2[l].packets = ls[l].packets /\ pub2[l].consumer = ls[l].consumer
               /\ ls[l].awaiting => ~nat[l].open
               /\ ls[l].awaiting \/ ~ls[l].registered => ls[l].packets = {} /\ ~ls[l].consumer
    <3>1. nat[l].writes = {<<p, pk2[p].token>> : p \in ls[l].packets}
      BY <2>2 DEF ListsFit
    <3>2. \A p \in ls[l].packets : pk2[p].assigned /\ pk2[p].gpu = "recorded"
      BY <2>1 DEF ListsFit, Serves, Alike
    <3>3. pub2[l].packets = ls[l].packets /\ pub2[l].consumer = ls[l].consumer
      BY DEF ListsFit, Serves
    <3> QED BY <3>1, <3>2, <3>3, Zenon DEF ListsFit
  <2> QED BY <2>3, Zenon DEF ListsFit
<1>3. EscapesFit(th, ls, pub2, pk2, def2, failed2, tr)
  <2>1. SUFFICES ASSUME NEW t \in Threads, NEW k \in DOMAIN th[t].batch
        PROVE  EscapeFits(th[t], th[t].batch[k], ls, pub2, pk2, def2, failed2, tr)
    BY Zenon DEF EscapesFit
  <2> DEFINE l == th[t].batch[k]
  <2>2. l \in Lists
    BY DEF AllSubmissions, Submissions
  <2>3. EscapeFits(th[t], l, ls, pub, pk, def, failed, tr)
    BY DEF EscapesFit
  <2>4. /\ pub[l].packets = ls[l].packets /\ pub[l].consumer = ls[l].consumer
        /\ \A p \in ls[l].packets : p \in Packets /\ pk[p].assigned
    BY <2>2 DEF ListsFit, AllLists, Items
  <2>5. \A p \in ls[l].packets : pk[p].quarantined => pk2[p].quarantined
    BY <2>4 DEF Serves, Alike
  <2>6. \A p \in ls[l].packets : Doomed(p, pk, ls, pub, def) => Doomed(p, pk2, ls, pub2, def2)
    BY <2>4, DoomStays
  <2>7. pub[l].escaped \/ def.uncertain =>
          /\ ls[l].consumer => failed2 \/ def2.uncertain \/ pub2[l].escaped
          /\ \A p \in ls[l].packets : pk2[p].quarantined \/ def2.uncertain \/ pub2[l].escaped
    BY <2>2, <2>4 DEF Serves
  <2>8. failed => failed2
    BY DEF Serves
  <2> HIDE DEF l
  <2>9. EscapeFits(th[t], l, ls, pub2, pk2, def2, failed2, tr)
    BY <2>3, <2>5, <2>6, <2>7, <2>8 DEF EscapeFits
  <2> QED BY <2>9 DEF l
<1>4. OutputsFit(g, pub2, def2, failed2)
  <2>1. ASSUME failed \/ def.uncertain \/ \E l \in Lists : pub[l].escaped /\ pub[l].consumer
        PROVE  failed2 \/ def2.uncertain \/ \E l \in Lists : pub2[l].escaped /\ pub2[l].consumer
    BY <2>1 DEF Serves
  <2> QED BY <2>1 DEF OutputsFit
<1> QED BY <1>1, <1>2, <1>3, <1>4
-----------------------------------------------------------------------------
(* What a locked section changes.                                          *)
Sections == [pk : AllPackets, dev : Devices, pub : AllWords]

(* The device is the same, but may have failed.                            *)
OnlyFailed(d, d2) ==
  /\ d2 \in Devices /\ (d.failed => d2.failed) /\ d2.active = d.active /\ d2.session = d.session
  /\ d2.session_active = d.session_active /\ d2.last_signal = d.last_signal

(* The fields of a section.                                                *)
LEMMA SectionFields ==
  ASSUME NEW s \in Sections
  PROVE s.pk \in AllPackets /\ s.dev \in Devices /\ s.pub \in AllWords
BY DEF Sections

(* Nothing at all only makes worse.                                        *)
LEMMA WorseIs ==
  ASSUME NEW pk \in AllPackets
  PROVE OnlyWorse(pk, pk)
BY DEF Alike, OnlyWorse

(* Making worse twice is making worse.                                     *)
LEMMA WorseOnce ==
  ASSUME NEW a \in AllPackets, NEW b, NEW c, OnlyWorse(a, b), OnlyWorse(b, c)
  PROVE OnlyWorse(a, c)
BY DEF Alike, OnlyWorse

(* Quarantining only makes worse, and takes what is assigned.              *)
LEMMA QuarantinedIs ==
  ASSUME NEW pk \in AllPackets, NEW S
  PROVE /\ OnlyWorse(pk, Quarantined(pk, S))
        /\ \A p \in Packets : p \in S /\ pk[p].assigned => Quarantined(pk, S)[p].quarantined
<1> DEFINE pk2 == Quarantined(pk, S)
<1>1. \A p \in Packets : pk[p] \in Records
  BY DEF AllPackets
<1>2. \A r \in Records : [r EXCEPT !.quarantined = TRUE] \in Records
  BY DEF Records
<1>3. \A r \in Records :
        /\ [r EXCEPT !.quarantined = TRUE].gpu = r.gpu /\ [r EXCEPT !.quarantined = TRUE].assigned = r.assigned
        /\ [r EXCEPT !.quarantined = TRUE].retired = r.retired /\ [r EXCEPT !.quarantined = TRUE].leased = r.leased
        /\ [r EXCEPT !.quarantined = TRUE].in_flight = r.in_flight
        /\ [r EXCEPT !.quarantined = TRUE].submitted = r.submitted
        /\ [r EXCEPT !.quarantined = TRUE].producer = r.producer
        /\ [r EXCEPT !.quarantined = TRUE].order = r.order /\ [r EXCEPT !.quarantined = TRUE].token = r.token
        /\ [r EXCEPT !.quarantined = TRUE].consumer_value = r.consumer_value
        /\ [r EXCEPT !.quarantined = TRUE].quarantined
  BY DEF Records
<1>4. \A p \in Packets : pk2[p] = IF p \in S /\ pk[p].assigned THEN [pk[p] EXCEPT !.quarantined = TRUE] ELSE pk[p]
  BY DEF Quarantined
<1>5. pk2 \in AllPackets
  <2>1. \A p \in Packets : (IF p \in S /\ pk[p].assigned THEN [pk[p] EXCEPT !.quarantined = TRUE] ELSE pk[p]) \in Records
    BY <1>1, <1>2
  <2> QED BY <2>1 DEF Quarantined, AllPackets
<1> HIDE DEF pk2
<1>6. OnlyWorse(pk, pk2)
  <2>1. ASSUME NEW p \in Packets
        PROVE  /\ pk2[p].gpu = pk[p].gpu /\ pk2[p].assigned = pk[p].assigned /\ pk2[p].retired = pk[p].retired
               /\ pk2[p].leased = pk[p].leased /\ pk2[p].in_flight = pk[p].in_flight
               /\ pk2[p].submitted = pk[p].submitted /\ pk2[p].producer = pk[p].producer
               /\ pk2[p].order = pk[p].order /\ pk2[p].token = pk[p].token
               /\ pk2[p].consumer_value = pk[p].consumer_value
               /\ pk[p].quarantined => pk2[p].quarantined
    <3>1. CASE pk2[p] = pk[p]
      BY <3>1
    <3>2. CASE pk2[p] = [pk[p] EXCEPT !.quarantined = TRUE]
      BY <1>1, <1>3, <3>2
    <3> QED BY <1>4, <3>1, <3>2
  <2> QED BY <1>5, <2>1 DEF Alike, OnlyWorse
<1>7. \A p \in Packets : p \in S /\ pk[p].assigned => pk2[p].quarantined
  <2>1. ASSUME NEW p \in Packets, p \in S, pk[p].assigned PROVE pk2[p].quarantined
    <3>1. pk2[p] = [pk[p] EXCEPT !.quarantined = TRUE]
      BY <1>4, <2>1
    <3> QED BY <1>1, <1>3, <3>1
  <2> QED BY <2>1
<1> QED BY <1>6, <1>7 DEF pk2

(* Failed quarantines every assigned packet and fails the device.          *)
LEMMA FailedIs ==
  ASSUME NEW s \in Sections
  PROVE /\ Failed(s) \in Sections /\ OnlyWorse(s.pk, Failed(s).pk) /\ Failed(s).pub = s.pub
        /\ OnlyFailed(s.dev, Failed(s).dev) /\ Failed(s).dev.failed
        /\ \A p \in Packets : s.pk[p].assigned => Failed(s).pk[p].quarantined
<1>1. s.pk \in AllPackets /\ s.dev \in Devices /\ s.pub \in AllWords
  BY SectionFields
<1>2. Failed(s).dev = [s.dev EXCEPT !.failed = TRUE]
  BY DEF Failed, Sections, Devices
<1>3. Failed(s).pk = Quarantined(s.pk, Packets) /\ Failed(s).pub = s.pub
  BY DEF Failed, Sections, Devices
<1>4. OnlyWorse(s.pk, Failed(s).pk) /\ \A p \in Packets : s.pk[p].assigned => Failed(s).pk[p].quarantined
  BY <1>1, <1>3, QuarantinedIs
<1>5. OnlyFailed(s.dev, Failed(s).dev) /\ Failed(s).dev.failed
  BY <1>1, <1>2 DEF OnlyFailed, Devices
<1>6. Failed(s) \in Sections
  <2>1. Failed(s).pk \in AllPackets /\ Failed(s).dev \in Devices
    BY <1>4, <1>5 DEF Alike, OnlyWorse, OnlyFailed
  <2>2. Failed(s) = [s EXCEPT !.dev = Failed(s).dev, !.pk = Failed(s).pk]
    BY DEF Failed, Sections, Devices
  <2> QED BY <2>1, <2>2 DEF Sections
<1> QED BY <1>3, <1>4, <1>5, <1>6

(* Refused quarantines the packets of the words, and fails the device for  *)
(* a consumer.                                                             *)
LEMMA RefusedIs ==
  ASSUME NEW s \in Sections, NEW words
  PROVE /\ Refused(s, words) \in Sections /\ OnlyWorse(s.pk, Refused(s, words).pk)
        /\ Refused(s, words).pub = s.pub /\ OnlyFailed(s.dev, Refused(s, words).dev)
        /\ \A w \in words : /\ w.consumer => Refused(s, words).dev.failed
                            /\ \A p \in Packets : p \in w.packets /\ s.pk[p].assigned => Refused(s, words).pk[p].quarantined
<1> DEFINE S == UNION {w.packets : w \in words}
           q == [s EXCEPT !.pk = Quarantined(s.pk, S)]
<1>1. s.pk \in AllPackets /\ s.dev \in Devices /\ s.pub \in AllWords
  BY SectionFields
<1>2. OnlyWorse(s.pk, Quarantined(s.pk, S)) /\ \A p \in Packets : p \in S /\ s.pk[p].assigned => Quarantined(s.pk, S)[p].quarantined
  BY <1>1, QuarantinedIs
<1>3. \A w \in words : \A p \in w.packets : p \in S
  OBVIOUS
<1> HIDE DEF S
<1>4. q \in Sections /\ q.pk = Quarantined(s.pk, S) /\ q.dev = s.dev /\ q.pub = s.pub
  <2>1. Quarantined(s.pk, S) \in AllPackets
    BY <1>2 DEF Alike, OnlyWorse
  <2> QED BY <2>1 DEF Sections
<1>5. Refused(s, words) = IF \E w \in words : w.consumer THEN Failed(q) ELSE q
  BY DEF Refused, S
<1> HIDE DEF q
<1>6. CASE \E w \in words : w.consumer
  <2>1. Refused(s, words) = Failed(q)
    BY <1>5, <1>6
  <2>2. /\ Failed(q) \in Sections /\ OnlyWorse(q.pk, Failed(q).pk) /\ Failed(q).pub = q.pub
        /\ OnlyFailed(q.dev, Failed(q).dev) /\ Failed(q).dev.failed
    BY <1>4, FailedIs
  <2>3. OnlyWorse(s.pk, Failed(q).pk)
    BY <1>1, <1>2, <1>4, <2>2, WorseOnce
  <2>4. \A p \in Packets : q.pk[p].quarantined => Failed(q).pk[p].quarantined
    BY <2>2 DEF Alike, OnlyWorse
  <2>5. \A w \in words : \A p \in Packets : p \in w.packets /\ s.pk[p].assigned => Failed(q).pk[p].quarantined
    BY <1>2, <1>3, <1>4, <2>4
  <2> QED BY <1>4, <2>1, <2>2, <2>3, <2>5
<1>7. CASE ~\E w \in words : w.consumer
  <2>1. Refused(s, words) = q
    BY <1>5, <1>7
  <2>2. OnlyFailed(s.dev, s.dev)
    BY <1>1 DEF OnlyFailed
  <2> QED BY <1>2, <1>3, <1>4, <1>7, <2>1, <2>2
<1> QED BY <1>6, <1>7

(* Failing twice is failing.                                               *)
LEMMA FailedOnce ==
  ASSUME NEW a, NEW b, NEW c, OnlyFailed(a, b), OnlyFailed(b, c)
  PROVE OnlyFailed(a, c)
BY DEF OnlyFailed

(* apply_deferred serves every notice it takes.                            *)
LEMMA SettledServes ==
  ASSUME Types
  PROVE /\ Settled \in Sections /\ OnlyFailed(device, Settled.dev) /\ OnlyWorse(packets, Settled.pk)
        /\ Serves(packets, published, deferred, device.failed,
                  Settled.pk, Settled.pub, NothingDeferred, Settled.dev.failed)
<1> DEFINE s == [pk |-> packets, dev |-> device, pub |-> published]
           noticed == IF deferred.recordings THEN {l \in Lists : published[l].escaped} ELSE {}
           pub2 == [l \in Lists |-> IF l \in noticed THEN [published[l] EXCEPT !.escaped = FALSE] ELSE published[l]]
           s2 == [s EXCEPT !.pub = pub2]
           words == {published[l] : l \in noticed}
           r == Refused(s2, words)
<1>1. packets \in AllPackets /\ device \in Devices /\ published \in AllWords
  BY DEF Types
<1>2. Settled = IF deferred.uncertain THEN Failed(r) ELSE r
  BY DEF Settled
<1>3. \A l \in Lists : /\ pub2[l].packets = published[l].packets /\ pub2[l].consumer = published[l].consumer
                       /\ published[l].escaped /\ ~pub2[l].escaped => published[l] \in words
                       /\ deferred.recordings => ~pub2[l].escaped
  BY <1>1 DEF AllWords, Words
<1>4. pub2 \in AllWords
  <2>1. \A l \in Lists : published[l] \in Words /\ [published[l] EXCEPT !.escaped = FALSE] \in Words
    BY <1>1 DEF AllWords, Words
  <2> HIDE DEF noticed
  <2> QED BY <2>1 DEF AllWords
<1> HIDE DEF pub2, words
<1>5. s2 \in Sections /\ s2.pk = packets /\ s2.dev = device /\ s2.pub = pub2
  BY <1>1, <1>4 DEF Sections
<1> HIDE DEF s2
<1>6. /\ r \in Sections /\ OnlyWorse(packets, r.pk) /\ r.pub = pub2 /\ OnlyFailed(device, r.dev)
      /\ \A w \in words : /\ w.consumer => r.dev.failed
                          /\ \A p \in Packets : p \in w.packets /\ packets[p].assigned => r.pk[p].quarantined
  BY <1>5, RefusedIs
<1>7. /\ Settled \in Sections /\ OnlyWorse(r.pk, Settled.pk) /\ Settled.pub = pub2 /\ OnlyFailed(r.dev, Settled.dev)
      /\ deferred.uncertain => Settled.dev.failed /\ \A p \in Packets : r.pk[p].assigned => Settled.pk[p].quarantined
  <2> HIDE DEF r
  <2>1. CASE deferred.uncertain
    <3>1. Settled = Failed(r)
      BY <1>2, <2>1
    <3> QED BY <1>6, <3>1, FailedIs
  <2>2. CASE ~deferred.uncertain
    <3>1. Settled = r
      BY <1>2, <2>2
    <3>2. OnlyWorse(r.pk, r.pk) /\ OnlyFailed(r.dev, r.dev)
      BY <1>6, WorseIs, SectionFields DEF OnlyFailed
    <3> QED BY <1>6, <2>2, <3>1, <3>2
  <2> QED BY <2>1, <2>2
<1> HIDE DEF r
<1>8. OnlyWorse(packets, Settled.pk) /\ OnlyFailed(device, Settled.dev)
  BY <1>1, <1>6, <1>7, WorseOnce, FailedOnce
<1>9. \A l \in Lists : published[l].packets \in SUBSET Packets
  BY <1>1 DEF AllWords, Words
<1>10. ASSUME NEW l \in Lists, published[l].escaped, ~pub2[l].escaped
       PROVE  /\ published[l].consumer => Settled.dev.failed
              /\ \A p \in published[l].packets : packets[p].assigned => Settled.pk[p].quarantined
  <2>1. published[l] \in words
    BY <1>3, <1>10
  <2>2. published[l].consumer => r.dev.failed
    BY <1>6, <2>1
  <2>3. \A p \in published[l].packets : packets[p].assigned => r.pk[p].quarantined
    BY <1>6, <1>9, <2>1
  <2> QED BY <1>7, <1>9, <2>2, <2>3 DEF Alike, OnlyWorse, OnlyFailed
<1>11. \A p \in Packets : packets[p].assigned = r.pk[p].assigned
  BY <1>6 DEF Alike, OnlyWorse
<1>12. device.failed => Settled.dev.failed
  BY <1>8 DEF OnlyFailed
<1>13. Serves(packets, published, deferred, device.failed,
                  Settled.pk, Settled.pub, NothingDeferred, Settled.dev.failed)
  BY <1>3, <1>7, <1>8, <1>10, <1>11, <1>12 DEF Serves, OnlyWorse
<1> QED BY <1>7, <1>8, <1>13

(* publish_list serves the notice it overwrites.                           *)
Unnoticed(pub, l) == [pub EXCEPT ![l] = [pub[l] EXCEPT !.escaped = FALSE]]

(* publish_list serves the notice it exchanges for the new word.           *)
LEMMA PublishedServes ==
  ASSUME NEW s \in Sections, NEW l \in Lists, NEW item \in Items, NEW def
  PROVE /\ Published(s, l, item) \in Sections /\ OnlyFailed(s.dev, Published(s, l, item).dev)
        /\ OnlyWorse(s.pk, Published(s, l, item).pk) /\ Unnoticed(s.pub, l) \in AllWords
        /\ Published(s, l, item).pub = [s.pub EXCEPT ![l] = Word(item)]
        /\ Serves(s.pk, s.pub, def, s.dev.failed,
                  Published(s, l, item).pk, Unnoticed(s.pub, l), def, Published(s, l, item).dev.failed)
<1> DEFINE r == IF s.pub[l].escaped THEN Refused(s, {s.pub[l]}) ELSE s
           P == Published(s, l, item)
<1>1. s.pk \in AllPackets /\ s.dev \in Devices /\ s.pub \in AllWords
  BY SectionFields
<1>2. Word(item) \in Words
  BY DEF Items, Word, Words
<1>3. /\ r \in Sections /\ OnlyWorse(s.pk, r.pk) /\ r.pub = s.pub /\ OnlyFailed(s.dev, r.dev)
      /\ s.pub[l].escaped => /\ s.pub[l].consumer => r.dev.failed
                             /\ \A p \in Packets : p \in s.pub[l].packets /\ s.pk[p].assigned => r.pk[p].quarantined
  <2>1. CASE s.pub[l].escaped
    <3>1. r = Refused(s, {s.pub[l]})
      BY <2>1
    <3> HIDE DEF r
    <3> QED BY <2>1, <3>1, RefusedIs
  <2>2. CASE ~s.pub[l].escaped
    <3>1. OnlyWorse(s.pk, s.pk) /\ OnlyFailed(s.dev, s.dev)
      BY <1>1, WorseIs DEF OnlyFailed
    <3> QED BY <2>2, <3>1
  <2> QED BY <2>1, <2>2
<1>4. P = [r EXCEPT !.pub[l] = Word(item)]
  BY DEF Published
<1> HIDE DEF r, P
<1>5. P.pk = r.pk /\ P.dev = r.dev /\ P.pub = [s.pub EXCEPT ![l] = Word(item)]
  BY <1>3, <1>4 DEF Sections, AllWords
<1>6. P \in Sections
  <2>1. [s.pub EXCEPT ![l] = Word(item)] \in AllWords
    BY <1>1, <1>2 DEF AllWords
  <2> QED BY <1>2, <1>3, <1>4, <2>1 DEF Sections, AllWords
<1>7. Unnoticed(s.pub, l) \in AllWords
  BY <1>1 DEF Unnoticed, AllWords, Words
<1>8. \A m \in Lists :
        /\ Unnoticed(s.pub, l)[m].packets = s.pub[m].packets /\ Unnoticed(s.pub, l)[m].consumer = s.pub[m].consumer
        /\ Unnoticed(s.pub, l)[m].escaped => s.pub[m].escaped
        /\ s.pub[m].escaped => Unnoticed(s.pub, l)[m].escaped \/ m = l
        /\ s.pub[m].packets \in SUBSET Packets
  BY <1>1 DEF Unnoticed, AllWords, Words
<1>9. Serves(s.pk, s.pub, def, s.dev.failed, P.pk, Unnoticed(s.pub, l), def, P.dev.failed)
  BY <1>3, <1>5, <1>8 DEF Serves, OnlyWorse, OnlyFailed
<1> QED BY <1>3, <1>5, <1>6, <1>7, <1>9 DEF P
-----------------------------------------------------------------------------
(* What is appended outside the receipts does not disturb the timeline.    *)
LEMMA TimelineGrows ==
  ASSUME NEW g \in AllWork, NEW g2 \in AllWork, Longer(g, g2), NEW done \in Nat, NEW last \in Nat,
         NEW tr \in Receipts, NEW failed, Timeline(g, done, last, tr, failed),
         \A q \in AllQueues : \A i \in DOMAIN g2[q] :
           i \in DOMAIN g[q] \/ Is(g2, q, i, "fence") \/ (Is(g2, q, i, "exec") /\ g2[q][i].value = 0)
  PROVE  Timeline(g2, done, last, tr, failed)
<1> DEFINE Clocked(q, i) == Is(g2, q, i, "wait") \/ Is(g2, q, i, "signal") \/ Ordered(g2, q, i)
<1>1. \A q \in AllQueues : \A i \in DOMAIN g[q] : i \in DOMAIN g2[q] /\ g2[q][i] = g[q][i]
  BY DEF Longer
<1>2. \A q \in AllQueues : \A i : Clocked(q, i) => i \in DOMAIN g[q] /\ g2[q][i] = g[q][i]
  BY <1>1 DEF Is, Ordered
<1>3. \A q \in AllQueues : \A i, v : Passed(g, done, q, i, v) => Passed(g2, done, q, i, v)
  BY PassedGrows
<1>4. \A q \in AllQueues : \A i \in DOMAIN g2[q] :
       /\ Is(g2, q, i, "wait") => g2[q][i].value <= last
       /\ Is(g2, q, i, "signal") => /\ done < g2[q][i].value /\ g2[q][i].value <= last
                                    /\ Passed(g2, done, q, i, g2[q][i].value - 1)
       /\ Ordered(g2, q, i) => /\ done < g2[q][i].value /\ g2[q][i].value <= last + 1
                               /\ Passed(g2, done, q, i, g2[q][i].value - 1)
                               /\ g2[q][i].value = last + 1 => IF tr = NoOne THEN failed ELSE q = tr.queue
  <2>1. SUFFICES ASSUME NEW q \in AllQueues, NEW i \in DOMAIN g2[q], Clocked(q, i)
        PROVE  /\ Is(g2, q, i, "wait") => g2[q][i].value <= last
               /\ Is(g2, q, i, "signal") => /\ done < g2[q][i].value /\ g2[q][i].value <= last
                                            /\ Passed(g2, done, q, i, g2[q][i].value - 1)
               /\ Ordered(g2, q, i) => /\ done < g2[q][i].value /\ g2[q][i].value <= last + 1
                                       /\ Passed(g2, done, q, i, g2[q][i].value - 1)
                                       /\ g2[q][i].value = last + 1 => IF tr = NoOne THEN failed ELSE q = tr.queue
    BY Zenon DEF Clocked
  <2>2. i \in DOMAIN g[q] /\ g2[q][i] = g[q][i]
    BY <1>2, <2>1
  <2>3. /\ Is(g2, q, i, "wait") <=> Is(g, q, i, "wait")
        /\ Is(g2, q, i, "signal") <=> Is(g, q, i, "signal")
        /\ Ordered(g2, q, i) <=> Ordered(g, q, i)
    BY <2>2 DEF Is, Ordered
  <2>4. Passed(g, done, q, i, g[q][i].value - 1) => Passed(g2, done, q, i, g[q][i].value - 1)
    BY <1>3
  <2> QED BY <2>2, <2>3, <2>4 DEF Timeline
<1>5. \A q, r \in AllQueues : \A i \in DOMAIN g2[q], j \in DOMAIN g2[r] :
       g2[q][i].op # "fence" /\ g2[r][j].op # "fence" /\ g2[q][i].value = g2[r][j].value =>
       /\ Is(g2, q, i, "signal") /\ Is(g2, r, j, "signal") => q = r /\ i = j
       /\ Is(g2, q, i, "signal") /\ Ordered(g2, r, j) => q = r /\ j < i
       /\ Ordered(g2, q, i) /\ Ordered(g2, r, j) => q = r
  <2>1. SUFFICES ASSUME NEW q \in AllQueues, NEW r \in AllQueues, NEW i \in DOMAIN g2[q], NEW j \in DOMAIN g2[r],
               Clocked(q, i), Clocked(r, j), g2[q][i].op # "fence", g2[r][j].op # "fence", g2[q][i].value = g2[r][j].value
        PROVE  /\ Is(g2, q, i, "signal") /\ Is(g2, r, j, "signal") => q = r /\ i = j
               /\ Is(g2, q, i, "signal") /\ Ordered(g2, r, j) => q = r /\ j < i
               /\ Ordered(g2, q, i) /\ Ordered(g2, r, j) => q = r
    BY DEF Clocked
  <2>2. i \in DOMAIN g[q] /\ g2[q][i] = g[q][i] /\ j \in DOMAIN g[r] /\ g2[r][j] = g[r][j]
    BY <1>2, <2>1
  <2> QED BY <2>1, <2>2 DEF Timeline, Is, Ordered
<1>6. \A q \in AllQueues : \A i, j \in DOMAIN g2[q] :
       j < i /\ Is(g2, q, j, "wait") /\ Is(g2, q, i, "signal") => g2[q][j].value < g2[q][i].value
  <2>1. SUFFICES ASSUME NEW q \in AllQueues, NEW i \in DOMAIN g2[q], NEW j \in DOMAIN g2[q],
               j < i, Is(g2, q, j, "wait"), Is(g2, q, i, "signal")
        PROVE  g2[q][j].value < g2[q][i].value
    OBVIOUS
  <2>2. i \in DOMAIN g[q] /\ g2[q][i] = g[q][i] /\ j \in DOMAIN g[q] /\ g2[q][j] = g[q][j]
    BY <1>2, <2>1
  <2> QED BY <2>1, <2>2 DEF Timeline, Is
<1>7. \A v \in done + 1..last : \E q \in AllQueues : \E i \in DOMAIN g2[q] :
       Is(g2, q, i, "signal") /\ g2[q][i].value = v
  <2>1. SUFFICES ASSUME NEW v \in done + 1..last
        PROVE  \E q \in AllQueues : \E i \in DOMAIN g2[q] : Is(g2, q, i, "signal") /\ g2[q][i].value = v
    OBVIOUS
  <2>2. PICK q \in AllQueues : \E i \in DOMAIN g[q] : Is(g, q, i, "signal") /\ g[q][i].value = v
    BY DEF Timeline
  <2>3. PICK i \in DOMAIN g[q] : Is(g, q, i, "signal") /\ g[q][i].value = v
    BY <2>2
  <2> QED BY <1>1, <2>3 DEF Is
<1>8. tr # NoOne => tr.value = last + 1 /\ Passed(g2, done, tr.queue, End(g2, tr.queue), last)
  <2>1. SUFFICES ASSUME tr # NoOne
        PROVE  tr.value = last + 1 /\ Passed(g2, done, tr.queue, End(g2, tr.queue), last)
    OBVIOUS
  <2>2. tr.queue \in AllQueues
    BY <2>1 DEF Receipts, Transactions
  <2> QED BY <2>1, <2>2, PassedGrows DEF Timeline
<1>9. done <= last
  BY DEF Timeline
<1> QED BY <1>4, <1>5, <1>6, <1>7, <1>8, <1>9 DEF Timeline
-----------------------------------------------------------------------------
(* What collect does to a packet, and to the queues.                       *)
CollectsOne(pk, failing, r, r2, p) ==
  /\ r2.retired = r.retired /\ r2.in_flight = r.in_flight /\ r2.submitted = r.submitted
  /\ r2.producer = r.producer /\ r2.order = r.order /\ r2.token = r.token
  /\ r.quarantined => r2.quarantined
  /\ \/ r2 = r
     \/ /\ p \in Recyclable(pk) /\ ~r2.assigned /\ ~r2.leased /\ r2.gpu = "idle"
     \/ /\ p \in Retirable(pk) /\ ~r.submitted /\ ~r2.assigned /\ r2.gpu = "idle" /\ r2.leased = r.leased
     \/ /\ p \in Retirable(pk) /\ p \in failing /\ r2.quarantined /\ r2.assigned = r.assigned /\ r2.leased = r.leased
     \/ /\ p \in Signals(pk) \ failing /\ r2.gpu = "retiring" /\ r2.assigned = r.assigned /\ r2.leased = r.leased
        /\ r2.quarantined = r.quarantined
Collects(pk, failing, pk2) ==
  /\ pk2 \in AllPackets /\ \A p \in Packets : CollectsOne(pk, failing, pk[p], pk2[p], p)
  /\ \A p \in Signals(pk) \ failing : pk2[p].gpu = "retiring"

(* What collect makes of each packet.                                      *)
LEMMA CollectedIs ==
  ASSUME NEW pk \in AllPackets, NEW failing
  PROVE Collects(pk, failing, Collected(pk, failing))
<1> DEFINE pk2 == Collected(pk, failing)
<1>1. \A p \in Packets : pk[p] \in Records
  BY DEF AllPackets
<1>2. ASSUME NEW p \in Packets
      PROVE  pk2[p] \in Records /\ CollectsOne(pk, failing, pk[p], pk2[p], p)
             /\ (p \in Signals(pk) \ failing => pk2[p].gpu = "retiring")
  <2>1. pk2[p] = IF p \in Recyclable(pk)
                   THEN [pk[p] EXCEPT !.gpu = "idle", !.consumer_value = 0, !.assigned = FALSE, !.leased = FALSE]
                 ELSE IF p \notin Retirable(pk) THEN pk[p]
                 ELSE IF ~pk[p].submitted THEN [pk[p] EXCEPT !.gpu = "idle", !.assigned = FALSE]
                 ELSE IF p \in failing THEN [pk[p] EXCEPT !.gpu = "failed", !.quarantined = TRUE]
                 ELSE [pk[p] EXCEPT !.gpu = "retiring"]
    BY DEF Collected
  <2>2. p \in Signals(pk) <=> p \in Retirable(pk) /\ pk[p].submitted
    BY DEF Signals
  <2>3. p \in Retirable(pk) => p \notin Recyclable(pk)
    BY DEF Recyclable, Retirable
  <2> HIDE DEF pk2
  <2>4. 0 \in 0..MaximumSignal
    BY ManagerAssumption
  <2>5. pk[p] \in Records
    BY <1>1
  <2>6. CASE p \in Recyclable(pk)
    <3>1. pk2[p] = [pk[p] EXCEPT !.gpu = "idle", !.consumer_value = 0, !.assigned = FALSE, !.leased = FALSE]
      BY <2>1, <2>6
    <3>2. p \notin Signals(pk)
      BY <2>2, <2>3, <2>6
    <3> QED BY <2>4, <2>5, <2>6, <3>1, <3>2 DEF Records, CollectsOne
  <2>7. CASE p \notin Recyclable(pk) /\ p \notin Retirable(pk)
    <3>1. pk2[p] = pk[p] /\ p \notin Signals(pk)
      BY <2>1, <2>2, <2>7
    <3> QED BY <2>5, <3>1 DEF CollectsOne
  <2>8. CASE p \in Retirable(pk) /\ ~pk[p].submitted
    <3>1. pk2[p] = [pk[p] EXCEPT !.gpu = "idle", !.assigned = FALSE] /\ p \notin Signals(pk)
      BY <2>1, <2>2, <2>3, <2>8
    <3> QED BY <2>5, <2>8, <3>1 DEF Records, CollectsOne
  <2>9. CASE p \in Retirable(pk) /\ pk[p].submitted /\ p \in failing
    <3>1. pk2[p] = [pk[p] EXCEPT !.gpu = "failed", !.quarantined = TRUE]
      BY <2>1, <2>3, <2>9
    <3>2. pk2[p] \in Records
      BY <2>5, <3>1 DEF Records
    <3>3. /\ pk2[p].retired = pk[p].retired /\ pk2[p].in_flight = pk[p].in_flight /\ pk2[p].submitted = pk[p].submitted
          /\ pk2[p].producer = pk[p].producer /\ pk2[p].order = pk[p].order /\ pk2[p].token = pk[p].token
          /\ pk2[p].quarantined /\ pk2[p].assigned = pk[p].assigned /\ pk2[p].leased = pk[p].leased
      BY <2>5, <3>1 DEF Records
    <3> QED BY <2>9, <3>2, <3>3 DEF CollectsOne
  <2>10. CASE p \in Retirable(pk) /\ pk[p].submitted /\ p \notin failing
    <3>1. pk2[p] = [pk[p] EXCEPT !.gpu = "retiring"] /\ p \in Signals(pk) \ failing
      BY <2>1, <2>2, <2>3, <2>10
    <3>2. pk2[p] \in Records
      BY <2>5, <3>1 DEF Records
    <3>3. /\ pk2[p].retired = pk[p].retired /\ pk2[p].in_flight = pk[p].in_flight /\ pk2[p].submitted = pk[p].submitted
          /\ pk2[p].producer = pk[p].producer /\ pk2[p].order = pk[p].order /\ pk2[p].token = pk[p].token
          /\ pk2[p].quarantined = pk[p].quarantined /\ pk2[p].assigned = pk[p].assigned
          /\ pk2[p].leased = pk[p].leased /\ pk2[p].gpu = "retiring"
      BY <2>5, <3>1 DEF Records
    <3> QED BY <2>10, <3>1, <3>2, <3>3 DEF CollectsOne
  <2> QED BY <2>6, <2>7, <2>8, <2>9, <2>10
<1>3. pk2 = [p \in Packets |-> pk2[p]]
  BY DEF Collected
<1>4. Signals(pk) \subseteq Packets
  BY DEF Signals, Retirable
<1> HIDE DEF pk2
<1>5. pk2 \in AllPackets
  BY <1>2, <1>3 DEF AllPackets
<1> QED BY <1>2, <1>4, <1>5 DEF Collects, pk2

(* The fences collect queues.                                              *)
LEMMA RetiredIs ==
  ASSUME NEW pk \in AllPackets, NEW failing, NEW g \in AllWork
  PROVE LET g2 == Retired(pk, failing, g)
        IN /\ g2 \in AllWork /\ Longer(g, g2)
           /\ \A q \in AllQueues : \A i \in DOMAIN g2[q] :
                \/ i \in DOMAIN g[q]
                \/ /\ i = End(g, q) /\ Is(g2, q, i, "fence")
                   /\ g2[q][i].packets = {p \in Signals(pk) \ failing : pk[p].producer = q}
           /\ \A p \in Signals(pk) \ failing : \E j \in DOMAIN g2[pk[p].producer] :
                Is(g2, pk[p].producer, j, "fence") /\ p \in g2[pk[p].producer][j].packets
<1> DEFINE g2 == Retired(pk, failing, g)
           S(q) == {p \in Signals(pk) \ failing : pk[p].producer = q}
           c(q) == [op |-> "fence", packets |-> S(q)]
<1>1. \A q : S(q) \in SUBSET Packets
  BY DEF Signals, Retirable
<1>2. \A q : c(q) \in Commands /\ c(q).op = "fence" /\ c(q).packets = S(q)
  BY <1>1 DEF Commands, Fences
<1>3. \A q \in AllQueues : g2[q] = IF S(q) = {} THEN g[q] ELSE Append(g[q], c(q))
  BY DEF Retired
<1>4. g2 = [q \in AllQueues |-> g2[q]]
  BY DEF Retired
<1>5. \A p \in Signals(pk) : pk[p].producer \in AllQueues
  BY DEF Signals, Retirable, AllPackets, Records
<1>6. \A q : \A p \in Signals(pk) \ failing : p \in S(pk[p].producer)
  OBVIOUS
<1> HIDE DEF g2, c, S
<1>7. ASSUME NEW q \in AllQueues
      PROVE  /\ g2[q] \in Seq(Commands) /\ Len(g[q]) <= Len(g2[q])
             /\ \A i \in DOMAIN g[q] : i \in DOMAIN g2[q] /\ g2[q][i] = g[q][i]
             /\ \A i \in DOMAIN g2[q] : \/ i \in DOMAIN g[q]
                                        \/ i = End(g, q) /\ g2[q][i] = c(q)
             /\ S(q) # {} => End(g, q) \in DOMAIN g2[q] /\ g2[q][End(g, q)] = c(q)
  <2>1. g[q] \in Seq(Commands) /\ DOMAIN g[q] = 1..Len(g[q]) /\ Len(g[q]) \in Nat
    BY Standing
  <2>2. CASE S(q) = {}
    <3>1. g2[q] = g[q]
      BY <1>3, <2>2
    <3> QED BY <2>1, <2>2, <3>1
  <2>3. CASE S(q) # {}
    <3>1. g2[q] = Append(g[q], c(q)) /\ c(q) \in Commands
      BY <1>2, <1>3, <2>3
    <3>2. /\ g2[q] \in Seq(Commands) /\ Len(g2[q]) = Len(g[q]) + 1
          /\ \A i \in 1..Len(g[q]) : g2[q][i] = g[q][i]
          /\ g2[q][Len(g[q]) + 1] = c(q)
      BY <2>1, <3>1
    <3>3. DOMAIN g2[q] = 1..Len(g[q]) + 1
      BY <3>2
    <3> QED BY <2>1, <3>2, <3>3 DEF End
  <2> QED BY <2>2, <2>3
<1>8. g2 \in AllWork
  BY <1>4, <1>7 DEF AllWork
<1>9. Longer(g, g2)
  BY <1>7, <1>8 DEF Longer
<1>10. ASSUME NEW q \in AllQueues, NEW i \in DOMAIN g2[q]
       PROVE  \/ i \in DOMAIN g[q]
              \/ /\ i = End(g, q) /\ Is(g2, q, i, "fence") /\ g2[q][i].packets = S(q)
  BY <1>2, <1>7, <1>10 DEF Is
<1>11. ASSUME NEW p \in Signals(pk) \ failing
       PROVE  \E j \in DOMAIN g2[pk[p].producer] :
                Is(g2, pk[p].producer, j, "fence") /\ p \in g2[pk[p].producer][j].packets
  <2>1. pk[p].producer \in AllQueues /\ p \in S(pk[p].producer)
    BY <1>5, <1>6
  <2>2. End(g, pk[p].producer) \in DOMAIN g2[pk[p].producer] /\ g2[pk[p].producer][End(g, pk[p].producer)] = c(pk[p].producer)
    BY <1>7, <2>1
  <2> QED BY <1>2, <2>1, <2>2 DEF Is
<1>12. QED BY <1>8, <1>9, <1>10, <1>11 DEF g2, S
-----------------------------------------------------------------------------
(* collect keeps every part of the invariant, once nothing is deferred.    *)
LEMMA CollectKeeps ==
  ASSUME NEW dev \in Devices, NEW ls \in AllLists, NEW pub, NEW pk \in AllPackets, NEW tr \in Receipts,
         NEW th \in AllSubmissions, NEW g \in AllWork, NEW nat, NEW failing, completed \in 0..MaximumSignal,
         Fits(dev, ls, pub, NothingDeferred, pk, tr, th, g, completed, nat), Unretired(ls, pk)
  PROVE  /\ Fits(dev, ls, pub, NothingDeferred, Collected(pk, failing), tr, th, Retired(pk, failing, g), completed, nat)
         /\ Unretired(ls, Collected(pk, failing)) /\ Collected(pk, failing) \in AllPackets
         /\ Retired(pk, failing, g) \in AllWork
<1> DEFINE pk2 == Collected(pk, failing)
           g2 == Retired(pk, failing, g)
           last == dev.last_signal
           def == NothingDeferred
           done == completed
<1>1. Collects(pk, failing, pk2)
  BY CollectedIs
<1>2. /\ g2 \in AllWork /\ Longer(g, g2)
      /\ \A q \in AllQueues : \A i \in DOMAIN g2[q] :
           \/ i \in DOMAIN g[q]
           \/ /\ i = End(g, q) /\ Is(g2, q, i, "fence")
              /\ g2[q][i].packets = {p \in Signals(pk) \ failing : pk[p].producer = q}
      /\ \A p \in Signals(pk) \ failing : \E j \in DOMAIN g2[pk[p].producer] :
           Is(g2, pk[p].producer, j, "fence") /\ p \in g2[pk[p].producer][j].packets
  BY RetiredIs
<1>3. /\ Timeline(g, done, last, tr, dev.failed) /\ FencesFit(g, done, last, pk)
      /\ WritesFit(g, pk, tr, ls, pub, def) /\ ReadsFit(g, pk, th)
      /\ LeasesFit(pk, th, tr) /\ FlightFits(pk, th, tr)
      /\ ListsFit(ls, nat, pub, pk) /\ EscapesFit(th, ls, pub, pk, def, dev.failed, tr)
      /\ OutputsFit(g, pub, def, dev.failed)
  BY Zenon DEF Fits
<1>4. last \in Nat /\ done \in Nat
  BY ManagerAssumption DEF Devices
<1>5. ~def.uncertain /\ ~def.recordings
  BY DEF NothingDeferred
<1> HIDE DEF pk2, g2, last, def, done
<1>6. \A q \in AllQueues : \A i \in DOMAIN g[q] : i \in DOMAIN g2[q] /\ g2[q][i] = g[q][i]
  BY <1>2 DEF Longer
<1>7. \A q \in AllQueues : \A i \in DOMAIN g2[q] : Is(g2, q, i, "exec") =>
        i \in DOMAIN g[q] /\ Is(g, q, i, "exec") /\ g2[q][i] = g[q][i]
  BY <1>2, <1>6 DEF Is
<1>8. \A p \in Packets : p \in Recyclable(pk) => pk[p].assigned /\ ~pk[p].quarantined /\ pk[p].gpu = "consuming" /\ pk[p].consumer_value <= done
  BY DEF Recyclable, done
<1>9. \A p \in Packets : p \in Retirable(pk) => /\ pk[p].assigned /\ ~pk[p].quarantined /\ pk[p].retired
                                                /\ pk[p].in_flight = 0 /\ pk[p].gpu = "recorded"
  BY DEF Retirable
<1>10. \A p \in Packets : p \in Signals(pk) <=> p \in Retirable(pk) /\ pk[p].submitted
  BY DEF Signals, Retirable
<1>11. \A p \in Packets : pk2[p] = pk[p] \/ p \in Recyclable(pk) \/ p \in Retirable(pk)
  BY <1>1, <1>10 DEF Collects, CollectsOne
<1>12. \A p \in Packets : /\ pk[p].quarantined => pk2[p].quarantined
                          /\ pk2[p].in_flight = pk[p].in_flight
  BY <1>1 DEF Collects, CollectsOne
<1>13. Timeline(g2, done, last, tr, dev.failed)
  BY <1>2, <1>3, <1>4, TimelineGrows
<1>14. FencesFit(g2, done, last, pk2)
  <2>1. ASSUME NEW q \in AllQueues, NEW i \in DOMAIN g2[q], Is(g2, q, i, "fence"),
               NEW p \in g2[q][i].packets, ~pk2[p].quarantined
        PROVE  /\ pk2[p].assigned /\ pk2[p].gpu = "retiring" /\ q = pk2[p].producer
               /\ Passed(g2, done, q, i, pk2[p].order[1] - 1)
    <3>1. p \in Packets
      BY <1>2, <2>1, Standing, Kinds DEF Is
    <3>2. ~pk[p].quarantined
      BY <1>12, <2>1, <3>1
    <3>3. CASE i \in DOMAIN g[q]
      <4>1. g2[q][i] = g[q][i] /\ Is(g, q, i, "fence")
        BY <1>6, <2>1, <3>3 DEF Is
      <4>2. /\ pk[p].assigned /\ pk[p].gpu = "retiring" /\ q = pk[p].producer
            /\ Passed(g, done, q, i, pk[p].order[1] - 1)
        BY <1>3, <2>1, <3>2, <3>3, <4>1 DEF FencesFit
      <4>3. pk2[p] = pk[p]
        BY <1>8, <1>9, <1>11, <3>1, <4>2
      <4>4. Passed(g2, done, q, i, pk[p].order[1] - 1)
        BY <1>2, <4>2, PassedGrows
      <4> QED BY <4>2, <4>3, <4>4
    <3>4. CASE i \notin DOMAIN g[q]
      <4>1. i = End(g, q) /\ p \in Signals(pk) \ failing /\ pk[p].producer = q
        BY <1>2, <2>1, <3>4
      <4>2. pk2[p].gpu = "retiring" /\ pk2[p].producer = pk[p].producer /\ pk2[p].order = pk[p].order
        BY <1>1, <3>1, <4>1 DEF Collects, CollectsOne
      <4>3. pk[p].assigned /\ pk[p].submitted /\ p \in Retirable(pk)
        BY <1>9, <1>10, <3>1, <4>1
      <4>4. pk2[p].assigned
        BY <1>1, <1>8, <1>9, <3>1, <4>1, <4>2, <4>3 DEF Collects, CollectsOne
      <4>5. Passed(g, done, q, End(g, q), pk[p].order[1] - 1)
        BY <1>3, <3>1, <3>2, <4>1, <4>3 DEF FencesFit
      <4>6. Passed(g2, done, q, i, pk[p].order[1] - 1)
        BY <1>2, <4>1, <4>5, PassedGrows
      <4> QED BY <4>1, <4>2, <4>4, <4>6
    <3> QED BY <3>3, <3>4
  <2>2. ASSUME NEW p \in Packets, pk2[p].assigned, ~pk2[p].quarantined
        PROVE  /\ pk2[p].gpu \in {"retiring", "ready", "consuming"} => pk2[p].submitted
               /\ pk2[p].submitted => /\ pk2[p].order[1] \in 1..last
                                      /\ Passed(g2, done, pk2[p].producer, End(g2, pk2[p].producer), pk2[p].order[1] - 1)
    <3>1. ~pk[p].quarantined
      BY <1>12, <2>2
    <3>2. /\ pk2[p].submitted = pk[p].submitted /\ pk2[p].order = pk[p].order /\ pk2[p].producer = pk[p].producer
          /\ pk[p].assigned
          /\ pk2[p].gpu \in {"retiring", "ready", "consuming"} => pk[p].gpu \in {"retiring", "ready", "consuming"} \/ pk[p].submitted
      BY <1>1, <1>9, <1>10, <1>8, <2>2 DEF Collects, CollectsOne
    <3>3. pk[p].producer \in AllQueues
      BY DEF AllPackets, Records
    <3>4. Passed(g, done, pk[p].producer, End(g, pk[p].producer), pk[p].order[1] - 1)
            => Passed(g2, done, pk[p].producer, End(g2, pk[p].producer), pk[p].order[1] - 1)
      BY <1>2, <3>3, PassedGrows
    <3> QED BY <1>3, <3>1, <3>2, <3>4 DEF FencesFit
  <2> QED BY <2>1, <2>2, Zenon DEF FencesFit
<1>15. WritesFit(g2, pk2, tr, ls, pub, def)
  <2>1. SUFFICES ASSUME NEW q \in AllQueues, NEW i \in DOMAIN g2[q], Is(g2, q, i, "exec"), NEW w \in g2[q][i].writes
        PROVE  /\ pk2[w[1]].assigned /\ pk2[w[1]].token = w[2]
               /\ \/ pk2[w[1]].quarantined
                  \/ g2[q][i].value > 0 /\ InFlight(tr, w[1]) /\ g2[q][i].value = tr.value
                  \/ g2[q][i].value > 0 /\ Received(g2, pk2, q, i, w[1])
    BY Zenon DEF WritesFit
  <2> DEFINE p == w[1]
  <2>2. i \in DOMAIN g[q] /\ Is(g, q, i, "exec") /\ g2[q][i] = g[q][i] /\ p \in Packets
    BY <1>7, <2>1, Standing, Kinds DEF Is
  <2>3. /\ pk[p].assigned /\ pk[p].token = w[2]
        /\ \/ pk[p].quarantined
           \/ g[q][i].value = 0 /\ Doomed(p, pk, ls, pub, def)
           \/ g[q][i].value > 0 /\ InFlight(tr, p) /\ g[q][i].value = tr.value
           \/ g[q][i].value > 0 /\ Received(g, pk, q, i, p)
    BY <1>3, <2>1, <2>2 DEF WritesFit
  <2> HIDE DEF p
  <2>4. CASE pk[p].quarantined
    <3>1. pk2[p] = pk[p]
      BY <1>8, <1>9, <1>11, <2>2, <2>4
    <3> QED BY <2>3, <2>4, <3>1 DEF p
  <2>5. CASE Doomed(p, pk, ls, pub, def)
    BY <1>5, <2>4, <2>5 DEF Doomed
  <2>6. CASE g[q][i].value > 0 /\ InFlight(tr, p) /\ g[q][i].value = tr.value
    <3>1. pk[p].in_flight = 1 /\ pk[p].gpu = "recorded"
      BY <1>3, <2>2, <2>6 DEF FlightFits
    <3>2. pk2[p] = pk[p]
      BY <1>8, <1>9, <1>11, <2>2, <3>1
    <3> QED BY <2>2, <2>3, <2>6, <3>2 DEF p
  <2>7. CASE g[q][i].value > 0 /\ Received(g, pk, q, i, p) /\ ~pk[p].quarantined
    <3>1. pk[p].submitted /\ pk[p].gpu \in {"recorded", "retiring"}
      BY <2>7 DEF Received, Behind
    <3>2. pk2[p].assigned /\ pk2[p].token = w[2]
      BY <1>1, <1>8, <1>9, <2>2, <2>3, <3>1 DEF Collects, CollectsOne
    <3>3. /\ pk2[p].submitted /\ pk2[p].order = pk[p].order /\ pk2[p].producer = pk[p].producer
      BY <1>1, <2>2, <3>1 DEF Collects, CollectsOne
    <3>4. CASE pk2[p] = pk[p]
      <4>1. Behind(g2, pk2, q, i, p)
        <5>1. CASE pk[p].gpu = "recorded"
          BY <3>4, <5>1 DEF Behind
        <5>2. CASE pk[p].gpu = "retiring"
          <6>1. \E r \in AllQueues : \E j \in DOMAIN g[r] : Is(g, r, j, "fence") /\ p \in g[r][j].packets
            BY <2>7, <5>2 DEF Received, Behind
          <6>2. \E r \in AllQueues : \E j \in DOMAIN g2[r] : Is(g2, r, j, "fence") /\ p \in g2[r][j].packets
            BY <1>6, <6>1 DEF Is
          <6>3. \A j \in DOMAIN g[q] : j < i /\ Is(g, q, j, "fence") => p \notin g[q][j].packets
            BY <2>7, <5>2 DEF Received, Behind
          <6>4. \A j \in DOMAIN g2[q] : j < i => j \in DOMAIN g[q]
            <7>1. DOMAIN g[q] = 1..Len(g[q]) /\ Len(g[q]) \in Nat /\ \A j \in DOMAIN g2[q] : j \in Nat /\ j >= 1
              BY <1>2, Standing
            <7> QED BY <2>2, <7>1
          <6>5. \A j \in DOMAIN g2[q] : j < i /\ Is(g2, q, j, "fence") => p \notin g2[q][j].packets
            BY <1>6, <6>3, <6>4 DEF Is
          <6> QED BY <3>4, <5>2, <6>2, <6>5 DEF Behind
        <5> QED BY <3>1, <5>1, <5>2
      <4>2. Received(g2, pk2, q, i, p)
        BY <2>2, <2>7, <3>3, <4>1 DEF Received
      <4> QED BY <2>2, <2>7, <3>2, <4>2 DEF p
    <3>5. CASE pk2[p].quarantined
      BY <3>2, <3>5 DEF p
    <3>6. CASE p \in Signals(pk) \ failing /\ pk2[p].gpu = "retiring"
      <4>1. pk[p].gpu = "recorded" /\ pk[p].producer \in AllQueues
        BY <1>9, <1>10, <2>2, <3>6 DEF AllPackets, Records
      <4>2. \E r \in AllQueues : \E j \in DOMAIN g2[r] : Is(g2, r, j, "fence") /\ p \in g2[r][j].packets
        BY <1>2, <3>6, <4>1
      <4>3. ASSUME NEW j \in DOMAIN g2[q], j < i, Is(g2, q, j, "fence"), p \in g2[q][j].packets
            PROVE  FALSE
        <5>1. DOMAIN g[q] = 1..Len(g[q]) /\ Len(g[q]) \in Nat /\ j \in Nat /\ j >= 1
          BY <1>2, Standing
        <5>2. j \in DOMAIN g[q]
          BY <2>2, <4>3, <5>1
        <5>3. Is(g, q, j, "fence") /\ p \in g[q][j].packets
          BY <1>6, <4>3, <5>2 DEF Is
        <5>4. pk[p].gpu = "retiring"
          BY <1>3, <2>7, <5>2, <5>3 DEF FencesFit
        <5> QED BY <4>1, <5>4
      <4>4. Behind(g2, pk2, q, i, p)
        BY <3>6, <4>2, <4>3 DEF Behind
      <4>5. Received(g2, pk2, q, i, p)
        BY <2>2, <2>7, <3>3, <4>4 DEF Received
      <4> QED BY <2>2, <2>7, <3>2, <4>5 DEF p
    <3> QED BY <1>1, <1>8, <1>9, <1>10, <2>2, <3>1, <3>4, <3>5, <3>6 DEF Collects, CollectsOne
  <2> QED BY <2>3, <2>4, <2>5, <2>6, <2>7
<1>16. ReadsFit(g2, pk2, th)
  <2>1. SUFFICES ASSUME NEW q \in AllQueues, NEW i \in DOMAIN g2[q], Is(g2, q, i, "exec"), NEW r \in g2[q][i].reads
        PROVE  /\ g2[q][i].value > 0 /\ pk2[r[1]].assigned /\ pk2[r[1]].token = r[2]
               /\ \/ pk2[r[1]].quarantined
                  \/ /\ pk2[r[1]].leased /\ r[1] \in th[Service].frames
                     /\ th[Service].pc \in Reading /\ g2[q][i].value = th[Service].value
                  \/ pk2[r[1]].gpu = "consuming" /\ pk2[r[1]].consumer_value >= g2[q][i].value
    BY Zenon DEF ReadsFit
  <2>2. i \in DOMAIN g[q] /\ Is(g, q, i, "exec") /\ g2[q][i] = g[q][i] /\ r[1] \in Packets
    BY <1>7, <2>1, Standing, Kinds DEF Is
  <2>3. /\ g[q][i].value > 0 /\ pk[r[1]].assigned /\ pk[r[1]].token = r[2]
        /\ \/ pk[r[1]].quarantined
           \/ /\ pk[r[1]].leased /\ r[1] \in th[Service].frames
              /\ th[Service].pc \in Reading /\ g[q][i].value = th[Service].value
           \/ pk[r[1]].gpu = "consuming" /\ pk[r[1]].consumer_value >= g[q][i].value
    BY <1>3, <2>1, <2>2 DEF ReadsFit
  <2>4. pk2[r[1]] = pk[r[1]]
    <3>1. r[1] \notin Recyclable(pk)
      <4>1. SUFFICES ASSUME ~pk[r[1]].quarantined, pk[r[1]].gpu = "consuming", pk[r[1]].consumer_value <= done PROVE FALSE
        BY <1>8, <2>2
      <4>2. pk[r[1]].consumer_value >= g[q][i].value
        BY <1>3, <2>2, <2>3, <4>1 DEF LeasesFit
      <4>3. done < g[q][i].value
        BY <1>3, <2>2, <2>3 DEF Timeline, Ordered
      <4>4. g[q][i].value \in Nat /\ pk[r[1]].consumer_value \in Nat
        BY <2>2, Standing, Kinds, ManagerAssumption DEF Is, AllPackets, Records
      <4> QED BY <1>4, <4>1, <4>2, <4>3, <4>4
    <3>2. r[1] \notin Retirable(pk)
      BY <1>3, <1>9, <2>2, <2>3 DEF LeasesFit
    <3> QED BY <1>11, <2>2, <3>1, <3>2
  <2> QED BY <2>2, <2>3, <2>4
<1>17. LeasesFit(pk2, th, tr)
  <2>1. Service \in AllThreads /\ th[Service].frames \in SUBSET Packets
    BY DEF AllThreads, AllSubmissions, Submissions
  <2>2. \A p \in Packets : pk2[p].leased => pk2[p].assigned /\ (pk2[p].quarantined \/ pk2[p].gpu = "ready")
    <3>1. SUFFICES ASSUME NEW p \in Packets, pk2[p].leased
          PROVE  pk2[p].assigned /\ (pk2[p].quarantined \/ pk2[p].gpu = "ready")
      OBVIOUS
    <3>2. pk[p].leased
      BY <1>1, <3>1 DEF Collects, CollectsOne
    <3>3. pk[p].assigned /\ (pk[p].quarantined \/ pk[p].gpu = "ready")
      BY <1>3, <3>2 DEF LeasesFit
    <3>4. pk2[p] = pk[p]
      BY <1>8, <1>9, <1>11, <3>3
    <3> QED BY <3>3, <3>4
  <2>3. ASSUME NEW p \in th[Service].frames PROVE pk2[p].assigned /\ (pk2[p].quarantined \/ pk2[p].leased)
    <3>1. p \in Packets
      BY <2>1
    <3>2. pk[p].assigned /\ (pk[p].quarantined \/ pk[p].leased)
      BY <1>3, <2>3 DEF LeasesFit
    <3>3. pk[p].quarantined \/ pk[p].gpu = "ready"
      BY <1>3, <3>1, <3>2 DEF LeasesFit
    <3>4. pk2[p] = pk[p]
      BY <1>8, <1>9, <1>11, <3>1, <3>3
    <3> QED BY <3>2, <3>4
  <2> QED BY <1>3, <2>2, <2>3, Zenon DEF LeasesFit
<1>18. FlightFits(pk2, th, tr)
  <2>1. ASSUME NEW p \in Packets, InFlight(tr, p) PROVE pk2[p].assigned /\ pk2[p].gpu = "recorded"
    <3>1. pk[p].in_flight = 1 /\ pk[p].gpu = "recorded" /\ pk[p].assigned
      BY <1>3, <2>1 DEF FlightFits
    <3>2. pk2[p] = pk[p]
      BY <1>8, <1>9, <1>11, <3>1
    <3> QED BY <3>1, <3>2
  <2>2. \A p \in Packets : pk2[p].in_flight = IF InFlight(tr, p) THEN 1 ELSE 0
    BY <1>3, <1>12 DEF FlightFits
  <2> QED BY <1>3, <2>1, <2>2, Zenon DEF FlightFits
<1>19. \A l \in Lists : \A p \in ls[l].packets : p \in Packets /\ pk2[p] = pk[p]
  <2>1. ASSUME NEW l \in Lists, NEW p \in ls[l].packets PROVE p \in Packets /\ pk2[p] = pk[p]
    <3>1. p \in Packets /\ ~pk[p].retired /\ pk[p].gpu = "recorded"
      BY <1>3 DEF ListsFit, Unretired, AllLists, Items
    <3> QED BY <1>8, <1>9, <1>11, <3>1
  <2> QED BY <2>1
<1>20. ListsFit(ls, nat, pub, pk2)
  <2>1. \A l \in Lists : {<<p, pk2[p].token>> : p \in ls[l].packets} = {<<p, pk[p].token>> : p \in ls[l].packets}
    BY <1>19
  <2>2. \A l \in Lists : /\ nat[l].writes = {<<p, pk2[p].token>> : p \in ls[l].packets}
                         /\ \A p \in ls[l].packets : pk2[p].assigned /\ pk2[p].gpu = "recorded"
    BY <1>3, <1>19, <2>1 DEF ListsFit
  <2> QED BY <1>3, <2>2, Zenon DEF ListsFit
<1>21. EscapesFit(th, ls, pub, pk2, def, dev.failed, tr)
  <2>1. SUFFICES ASSUME NEW t \in Threads, NEW k \in DOMAIN th[t].batch
        PROVE  EscapeFits(th[t], th[t].batch[k], ls, pub, pk2, def, dev.failed, tr)
    BY Zenon DEF EscapesFit
  <2> DEFINE l == th[t].batch[k]
  <2>2. l \in Lists
    BY DEF AllThreads, AllSubmissions, Submissions
  <2>3. EscapeFits(th[t], l, ls, pub, pk, def, dev.failed, tr)
    BY <1>3 DEF EscapesFit
  <2>4. \A p \in ls[l].packets : pk2[p] = pk[p]
    BY <1>19, <2>2
  <2> HIDE DEF l
  <2>5. EscapeFits(th[t], l, ls, pub, pk2, def, dev.failed, tr)
    BY <2>3, <2>4 DEF EscapeFits, Doomed
  <2> QED BY <2>5 DEF l
<1>22. OutputsFit(g2, pub, def, dev.failed)
  BY <1>3, <1>7 DEF OutputsFit
<1>23. Unretired(ls, pk2)
  BY <1>19 DEF Unretired
<1>24. pk2 \in AllPackets
  BY <1>1 DEF Collects
<1> QED BY <1>2, <1>13, <1>14, <1>15, <1>16, <1>17, <1>18, <1>20, <1>21, <1>22, <1>23, <1>24, Zenon DEF Fits, pk2, g2, last, def, done
-----------------------------------------------------------------------------
(* Serving notices keeps every part.                                       *)
LEMMA ServeKeeps ==
  ASSUME NEW dev \in Devices, NEW dev2 \in Devices, NEW ls \in AllLists, NEW pub, NEW pub2, NEW def, NEW def2,
         NEW pk \in AllPackets, NEW pk2, NEW tr, NEW th \in AllSubmissions, NEW g \in AllWork, NEW done, NEW nat,
         Fits(dev, ls, pub, def, pk, tr, th, g, done, nat),
         Serves(pk, pub, def, dev.failed, pk2, pub2, def2, dev2.failed), dev2.last_signal = dev.last_signal
  PROVE  Fits(dev2, ls, pub2, def2, pk2, tr, th, g, done, nat)
<1> DEFINE last == dev.last_signal
<1>1. /\ Timeline(g, done, last, tr, dev.failed) /\ FencesFit(g, done, last, pk)
      /\ WritesFit(g, pk, tr, ls, pub, def) /\ ReadsFit(g, pk, th)
      /\ LeasesFit(pk, th, tr) /\ FlightFits(pk, th, tr)
      /\ ListsFit(ls, nat, pub, pk) /\ EscapesFit(th, ls, pub, pk, def, dev.failed, tr)
      /\ OutputsFit(g, pub, def, dev.failed)
  BY Zenon DEF Fits
<1>2. Alike(pk, pk2) /\ (dev.failed => dev2.failed)
  BY DEF Serves
<1> HIDE DEF last
<1>3. /\ Timeline(g, done, last, tr, dev2.failed) /\ FencesFit(g, done, last, pk2)
      /\ ReadsFit(g, pk2, th) /\ LeasesFit(pk2, th, tr) /\ FlightFits(pk2, th, tr)
  BY <1>1, <1>2, ServingKeepsWork
<1>4. /\ WritesFit(g, pk2, tr, ls, pub2, def2) /\ ListsFit(ls, nat, pub2, pk2)
      /\ EscapesFit(th, ls, pub2, pk2, def2, dev2.failed, tr) /\ OutputsFit(g, pub2, def2, dev2.failed)
  BY <1>1, ServingKeepsLists
<1>5. dev2.last_signal = last
  BY DEF last
<1> QED BY <1>3, <1>4, <1>5 DEF Fits

(* So apply_deferred does.                                                 *)
LEMMA SettledKeeps ==
  ASSUME IInv
  PROVE  /\ Fits(Settled.dev, lists, Settled.pub, NothingDeferred, Settled.pk, transaction, thread, gpu, completed, native)
         /\ Unretired(lists, Settled.pk)
         /\ Settled \in Sections /\ OnlyFailed(device, Settled.dev) /\ OnlyWorse(packets, Settled.pk)
<1>1. Types /\ Unretired(lists, packets)
      /\ Fits(device, lists, published, deferred, packets, transaction, thread, gpu, completed, native)
  BY DEF IInv
<1>2. /\ Settled \in Sections /\ OnlyFailed(device, Settled.dev) /\ OnlyWorse(packets, Settled.pk)
      /\ Serves(packets, published, deferred, device.failed,
                  Settled.pk, Settled.pub, NothingDeferred, Settled.dev.failed)
  BY <1>1, SettledServes
<1>3. /\ device \in Devices /\ lists \in AllLists /\ packets \in AllPackets /\ thread \in AllSubmissions
      /\ gpu \in AllWork /\ Settled.dev \in Devices /\ Settled.dev.last_signal = device.last_signal
  BY <1>1, <1>2 DEF Types, OnlyFailed
<1> HIDE DEF Settled
<1>4. Fits(Settled.dev, lists, Settled.pub, NothingDeferred, Settled.pk, transaction, thread, gpu, completed, native)
  BY <1>1, <1>2, <1>3, ServeKeeps
<1>5. \A l \in Lists : lists[l].packets \in SUBSET Packets
  BY <1>3 DEF AllLists, Items
<1>6. Unretired(lists, Settled.pk)
  BY <1>1, <1>2, <1>5 DEF Unretired, OnlyWorse
<1> QED BY <1>2, <1>4, <1>6

(* A list whose notice is served may be reset, registered or recorded.     *)
Released(th, l) == \A t \in Threads : th[t].pc \in BeforeNative => l \notin Range(th[t].batch)
Truly(item, n, pk) ==
  /\ n.writes = {<<p, pk[p].token>> : p \in item.packets} /\ n.reads_output = item.consumer
  /\ item.awaiting => ~n.open
  /\ item.awaiting \/ ~item.registered => item.packets = {} /\ ~item.consumer

(* A list and its word change together.                                    *)
LEMMA ItemKeeps ==
  ASSUME NEW dev, NEW ls \in AllLists, NEW l \in Lists, NEW item \in Items, NEW pub \in AllWords, NEW def,
         NEW pk, NEW tr, NEW th \in AllSubmissions, NEW g, NEW done, NEW nat \in AllNatives, NEW n,
         Fits(dev, ls, Unnoticed(pub, l), def, pk, tr, th, g, done, nat), Truly(item, n, pk),
         \A p \in item.packets : /\ pk[p].assigned /\ pk[p].gpu = "recorded"
                                 /\ \A m \in Lists : p \in ls[m].packets => m = l,
         \/ item.packets = ls[l].packets /\ item.consumer = ls[l].consumer
         \/ Released(th, l)
  PROVE  Fits(dev, [ls EXCEPT ![l] = item], [pub EXCEPT ![l] = Word(item)], def, pk, tr, th, g, done, [nat EXCEPT ![l] = n])
<1> DEFINE pub1 == Unnoticed(pub, l)
           pub2 == [pub EXCEPT ![l] = Word(item)]
           ls2 == [ls EXCEPT ![l] = item]
           nat2 == [nat EXCEPT ![l] = n]
<1>1. /\ WritesFit(g, pk, tr, ls, pub1, def) /\ ListsFit(ls, nat, pub1, pk)
      /\ EscapesFit(th, ls, pub1, pk, def, dev.failed, tr) /\ OutputsFit(g, pub1, def, dev.failed)
  BY Zenon DEF Fits
<1>2. /\ ls2[l] = item /\ nat2[l] = n /\ pub2[l] = Word(item)
      /\ \A m \in Lists : m # l => ls2[m] = ls[m] /\ nat2[m] = nat[m] /\ pub2[m] = pub[m] /\ pub1[m] = pub[m]
      /\ ~pub1[l].escaped
  BY DEF AllLists, AllWords, AllNatives, Unnoticed, Words
<1>3. ~pub2[l].escaped /\ pub2[l].packets = item.packets /\ pub2[l].consumer = item.consumer
  BY <1>2 DEF Word
<1> HIDE DEF pub1, pub2, ls2, nat2
<1>4. \A p : Doomed(p, pk, ls, pub1, def) => Doomed(p, pk, ls2, pub2, def)
  BY <1>2 DEF Doomed
<1>5. WritesFit(g, pk, tr, ls2, pub2, def)
  BY <1>1, <1>4, Zenon DEF WritesFit
<1>6. OutputsFit(g, pub2, def, dev.failed)
  <2>1. (\E m \in Lists : pub1[m].escaped /\ pub1[m].consumer) => \E m \in Lists : pub2[m].escaped /\ pub2[m].consumer
    BY <1>2
  <2> QED BY <1>1, <2>1 DEF OutputsFit
<1>7. ListsFit(ls2, nat2, pub2, pk)
  <2>1. ASSUME NEW m \in Lists
        PROVE  /\ nat2[m].writes = {<<p, pk[p].token>> : p \in ls2[m].packets}
               /\ nat2[m].reads_output = ls2[m].consumer
               /\ \A p \in ls2[m].packets : pk[p].assigned /\ pk[p].gpu = "recorded"
               /\ pub2[m].packets = ls2[m].packets /\ pub2[m].consumer = ls2[m].consumer
               /\ ls2[m].awaiting => ~nat2[m].open
               /\ ls2[m].awaiting \/ ~ls2[m].registered => ls2[m].packets = {} /\ ~ls2[m].consumer
    <3>1. CASE m = l
      BY <1>2, <1>3, <3>1 DEF Truly
    <3>2. CASE m # l
      BY <1>1, <1>2, <3>2 DEF ListsFit
    <3> QED BY <3>1, <3>2
  <2>2. \A m, k \in Lists : \A p \in ls2[m].packets : p \in ls2[k].packets => m = k
    <3>1. SUFFICES ASSUME NEW m \in Lists, NEW k \in Lists, NEW p \in ls2[m].packets, p \in ls2[k].packets, m # k
          PROVE  FALSE
      OBVIOUS
    <3>2. CASE m = l
      BY <1>2, <3>1, <3>2
    <3>3. CASE k = l
      BY <1>2, <3>1, <3>3
    <3>4. CASE m # l /\ k # l
      BY <1>1, <1>2, <3>1, <3>4 DEF ListsFit
    <3> QED BY <3>2, <3>3, <3>4
  <2> QED BY <2>1, <2>2 DEF ListsFit
<1>8. EscapesFit(th, ls2, pub2, pk, def, dev.failed, tr)
  <2>1. SUFFICES ASSUME NEW t \in Threads, NEW k \in DOMAIN th[t].batch
        PROVE  EscapeFits(th[t], th[t].batch[k], ls2, pub2, pk, def, dev.failed, tr)
    BY Zenon DEF EscapesFit
  <2> DEFINE m == th[t].batch[k]
  <2>2. m \in Lists /\ m \in Range(th[t].batch)
    BY DEF AllThreads, AllSubmissions, Submissions, Range
  <2>3. EscapeFits(th[t], m, ls, pub1, pk, def, dev.failed, tr)
    BY <1>1 DEF EscapesFit
  <2> HIDE DEF m
  <2>4. EscapeFits(th[t], m, ls2, pub2, pk, def, dev.failed, tr)
    <3>1. CASE m # l
      BY <1>2, <1>4, <2>2, <2>3, <3>1 DEF EscapeFits
    <3>2. CASE m = l /\ Released(th, l)
      <4>1. th[t].pc \notin BeforeNative
        BY <2>2, <3>2 DEF Released
      <4> QED BY <4>1 DEF BeforeNative, EscapeFits
    <3>3. CASE m = l /\ item.packets = ls[l].packets /\ item.consumer = ls[l].consumer
      BY <1>2, <1>3, <1>4, <2>3, <3>3 DEF EscapeFits
    <3> QED BY <3>1, <3>2, <3>3
  <2> QED BY <2>4 DEF m
<1> QED BY <1>5, <1>6, <1>7, <1>8 DEF Fits, pub2, ls2, nat2

(* publish_list with the notice of the old word.                           *)
LEMMA PublishKeeps ==
  ASSUME NEW s \in Sections, NEW ls \in AllLists, NEW l \in Lists, NEW item \in Items, NEW def,
         NEW tr, NEW th \in AllSubmissions, NEW g \in AllWork, NEW done, NEW nat \in AllNatives, NEW n,
         Fits(s.dev, ls, s.pub, def, s.pk, tr, th, g, done, nat), Truly(item, n, s.pk),
         \A p \in item.packets : /\ s.pk[p].assigned /\ s.pk[p].gpu = "recorded"
                                 /\ \A m \in Lists : p \in ls[m].packets => m = l,
         \/ item.packets = ls[l].packets /\ item.consumer = ls[l].consumer
         \/ Released(th, l)
  PROVE  LET P == Published(s, l, item)
         IN /\ P \in Sections /\ OnlyFailed(s.dev, P.dev) /\ OnlyWorse(s.pk, P.pk)
            /\ Fits(P.dev, [ls EXCEPT ![l] = item], P.pub, def, P.pk, tr, th, g, done, [nat EXCEPT ![l] = n])
<1> DEFINE P == Published(s, l, item)
           pub1 == Unnoticed(s.pub, l)
<1>1. /\ P \in Sections /\ OnlyFailed(s.dev, P.dev)
      /\ OnlyWorse(s.pk, P.pk) /\ pub1 \in AllWords
      /\ P.pub = [s.pub EXCEPT ![l] = Word(item)]
      /\ Serves(s.pk, s.pub, def, s.dev.failed, P.pk, pub1, def, P.dev.failed)
  BY PublishedServes
<1> HIDE DEF P
<1>2. /\ s.pk \in AllPackets /\ s.dev \in Devices /\ s.pub \in AllWords
      /\ P.pk \in AllPackets /\ P.dev \in Devices /\ P.dev.last_signal = s.dev.last_signal
  BY <1>1, SectionFields DEF OnlyFailed
<1>3. Fits(P.dev, ls, pub1, def, P.pk, tr, th, g, done, nat)
  <2> HIDE DEF pub1
  <2> QED BY <1>1, <1>2, ServeKeeps
<1>4. item.packets \in SUBSET Packets
  BY DEF Items
<1>5. \A p \in item.packets : /\ P.pk[p].assigned /\ P.pk[p].gpu = "recorded"
                              /\ \A m \in Lists : p \in ls[m].packets => m = l
  BY <1>1, <1>4 DEF OnlyWorse, Alike
<1>6. Truly(item, n, P.pk)
  <2>1. {<<p, P.pk[p].token>> : p \in item.packets} = {<<p, s.pk[p].token>> : p \in item.packets}
    BY <1>1, <1>4 DEF OnlyWorse, Alike
  <2> QED BY <2>1 DEF Truly
<1>7. Fits(P.dev, [ls EXCEPT ![l] = item], [s.pub EXCEPT ![l] = Word(item)], def, P.pk, tr, th, g, done, [nat EXCEPT ![l] = n])
  BY <1>2, <1>3, <1>5, <1>6, ItemKeeps
<1> QED BY <1>1, <1>7 DEF P
-----------------------------------------------------------------------------
(* The device and its session.                                             *)
Others == <<lists, deferred, next_token, transaction, thread, gpu, completed, native, content>>

(* What the parts say of the device is whether it failed and its last      *)
(* signal.                                                                 *)
LEMMA DeviceKeeps ==
  ASSUME IInv, device' \in Devices, device'.failed = device.failed, device'.last_signal = device.last_signal,
         UNCHANGED <<packets, published>>, UNCHANGED Others
  PROVE  IInv'
<1>1. Types'
  BY DEF IInv, Types, Others
<1>2. Fits(device, lists, published, deferred, packets, transaction, thread, gpu, completed, native)
        => Fits(device', lists, published, deferred, packets, transaction, thread, gpu, completed, native)
  BY DEF Fits
<1> QED BY <1>1, <1>2 DEF IInv, Others

(* A failure quarantines every packet in use.                              *)
LEMMA FailureKeeps ==
  ASSUME IInv, NEW s \in Sections, s.pk = packets, s.pub = published,
         s.dev.failed = device.failed, s.dev.last_signal = device.last_signal,
         Apply(Failed(s)), UNCHANGED Others
  PROVE  IInv'
<1>1. Types /\ Unretired(lists, packets)
      /\ Fits(device, lists, published, deferred, packets, transaction, thread, gpu, completed, native)
  BY DEF IInv
<1>2. /\ Failed(s) \in Sections /\ OnlyWorse(packets, Failed(s).pk) /\ Failed(s).pub = published
      /\ OnlyFailed(s.dev, Failed(s).dev) /\ Failed(s).dev.failed
      /\ \A p \in Packets : packets[p].assigned => Failed(s).pk[p].quarantined
  BY FailedIs
<1>3. device' = Failed(s).dev /\ packets' = Failed(s).pk /\ published' = Failed(s).pub
  BY DEF Apply
<1>4. /\ device' \in Devices /\ device'.failed /\ device'.last_signal = device.last_signal
      /\ OnlyWorse(packets, packets') /\ published' = published
  BY <1>2, <1>3 DEF OnlyFailed
<1>5. Types'
  BY <1>1, <1>4 DEF Types, Others, OnlyWorse, Alike
<1>6. Serves(packets, published, deferred, device.failed, packets', published, deferred, device'.failed)
  BY <1>2, <1>3, <1>4 DEF Serves, OnlyWorse
<1>7. /\ device \in Devices /\ lists \in AllLists /\ packets \in AllPackets /\ thread \in AllSubmissions
      /\ gpu \in AllWork
  BY <1>1 DEF Types
<1>8. Fits(device', lists, published, deferred, packets', transaction, thread, gpu, completed, native)
  BY <1>1, <1>4, <1>6, <1>7, ServeKeeps
<1>9. Unretired(lists, packets')
  BY <1>1, <1>4, <1>7 DEF Unretired, OnlyWorse, AllLists, Items
<1> QED BY <1>4, <1>5, <1>8, <1>9 DEF IInv, Others

(* destroy_device.                                                         *)
LEMMA DestroyDeviceKeeps ==
  ASSUME IInv, destroy_device
  PROVE  IInv'
<1> DEFINE s == [pk |-> packets, dev |-> [device EXCEPT !.active = FALSE], pub |-> published]
<1>1. packets \in AllPackets /\ device \in Devices /\ published \in AllWords
  BY DEF IInv, Types
<1>2. /\ s \in Sections /\ s.pk = packets /\ s.pub = published
      /\ s.dev.failed = device.failed /\ s.dev.last_signal = device.last_signal
  BY <1>1 DEF Sections, Devices
<1>3. Apply(Failed(s)) /\ UNCHANGED Others
  BY DEF destroy_device, Others
<1> HIDE DEF s
<1> QED BY <1>2, <1>3, FailureKeeps

(* reset_session.                                                          *)
LEMMA ResetSessionKeeps ==
  ASSUME IInv, reset_session
  PROVE  IInv'
<1> DEFINE s == [pk |-> packets, dev |-> [device EXCEPT !.session_active = FALSE], pub |-> published]
           s2 == [s EXCEPT !.dev.session = @ + 1]
<1>1. packets \in AllPackets /\ device \in Devices /\ published \in AllWords
  BY DEF IInv, Types
<1>2. /\ s \in Sections /\ s.pk = packets /\ s.pub = published
      /\ s.dev.failed = device.failed /\ s.dev.last_signal = device.last_signal
      /\ s.dev = [device EXCEPT !.session_active = FALSE]
  BY <1>1 DEF Sections, Devices
<1>3. Apply(IF device.session >= MaximumSession THEN Failed(s) ELSE s2) /\ UNCHANGED Others
  BY Zenon DEF reset_session, Others
<1>4. CASE device.session >= MaximumSession
  <2> HIDE DEF s, s2
  <2>1. Apply(Failed(s))
    BY <1>3, <1>4
  <2> QED BY <1>2, <1>3, <2>1, FailureKeeps
<1>5. CASE ~(device.session >= MaximumSession)
  <2>1. s2.pk = packets /\ s2.pub = published /\ s2.dev = [s.dev EXCEPT !.session = s.dev.session + 1]
    BY <1>1 DEF Sections, Devices
  <2> HIDE DEF s, s2
  <2>2. device' = s2.dev /\ packets' = packets /\ published' = published
    BY <1>3, <1>5, <2>1, Zenon DEF Apply
  <2>3. s2.dev \in Devices /\ s2.dev.failed = device.failed /\ s2.dev.last_signal = device.last_signal
    <3>1. s.dev \in Devices /\ s.dev.session = device.session
      BY <1>1, <1>2 DEF Devices
    <3>2. s.dev.session + 1 \in 1..MaximumSession
      BY <1>1, <1>5, <3>1, ManagerAssumption DEF Devices
    <3>3. s2.dev \in Devices /\ s2.dev.failed = s.dev.failed /\ s2.dev.last_signal = s.dev.last_signal
      BY <2>1, <3>1, <3>2 DEF Devices
    <3> QED BY <1>2, <3>3
  <2> QED BY <1>3, <2>2, <2>3, DeviceKeeps
<1> QED BY <1>4, <1>5

(* resume_session.                                                         *)
LEMMA ResumeSessionKeeps ==
  ASSUME IInv, resume_session
  PROVE  IInv'
<1>1. device \in Devices
  BY DEF IInv, Types
<1>2. device' = [device EXCEPT !.session_active = TRUE] /\ UNCHANGED <<packets, published>> /\ UNCHANGED Others
  BY DEF resume_session, Others
<1>3. device' \in Devices /\ device'.failed = device.failed /\ device'.last_signal = device.last_signal
  BY <1>1, <1>2 DEF Devices
<1> QED BY <1>2, <1>3, DeviceKeeps
-----------------------------------------------------------------------------
(* Recording: the application owns the list.                               *)
Recording == <<deferred, next_token, transaction, thread, gpu, completed, content>>

(* An open list is in no batch on its way.                                 *)
LEMMA OpenIs ==
  ASSUME NEW l \in Lists, Open(l)
  PROVE  native[l].open /\ Released(thread, l)
BY Zenon DEF Open, Held, Released

(* Publishing a list keeps the invariant.                                  *)
LEMMA PublishingKeeps ==
  ASSUME IInv, NEW l \in Lists, NEW item \in Items, NEW n \in Natives,
         lists' = [lists EXCEPT ![l] = item], native' = [native EXCEPT ![l] = n],
         Apply(Published([pk |-> packets, dev |-> device, pub |-> published], l, item)),
         UNCHANGED Recording, Truly(item, n, packets),
         item.packets = lists[l].packets \/ item.packets = {},
         item.consumer = lists[l].consumer \/ Released(thread, l),
         item.packets = lists[l].packets \/ Released(thread, l)
  PROVE  IInv'
<1> DEFINE s == [pk |-> packets, dev |-> device, pub |-> published]
           P == Published(s, l, item)
<1>1. Types /\ Unretired(lists, packets)
      /\ Fits(device, lists, published, deferred, packets, transaction, thread, gpu, completed, native)
  BY DEF IInv
<1>2. /\ packets \in AllPackets /\ device \in Devices /\ published \in AllWords /\ lists \in AllLists
      /\ native \in AllNatives /\ thread \in AllSubmissions /\ gpu \in AllWork
  BY <1>1 DEF Types
<1>3. s \in Sections /\ s.pk = packets /\ s.dev = device /\ s.pub = published
  BY <1>2 DEF Sections
<1>4. device' = P.dev /\ packets' = P.pk /\ published' = P.pub
  BY Zenon DEF Apply
<1> HIDE DEF s, P
<1>5. ListsFit(lists, native, published, packets)
  BY <1>1, Zenon DEF Fits
<1>6. \A p \in item.packets : /\ packets[p].assigned /\ packets[p].gpu = "recorded"
                              /\ \A m \in Lists : p \in lists[m].packets => m = l
  BY <1>5 DEF ListsFit
<1>7. Fits(s.dev, lists, s.pub, deferred, s.pk, transaction, thread, gpu, completed, native)
  BY <1>1, <1>3
<1>8. /\ P \in Sections /\ OnlyFailed(s.dev, P.dev) /\ OnlyWorse(s.pk, P.pk)
      /\ Fits(P.dev, [lists EXCEPT ![l] = item], P.pub, deferred, P.pk, transaction, thread, gpu, completed,
              [native EXCEPT ![l] = n])
  BY <1>2, <1>3, <1>6, <1>7, PublishKeeps DEF P
<1>9. lists' \in AllLists /\ native' \in AllNatives
  BY <1>2 DEF AllLists, AllNatives
<1>10. Types'
  BY <1>1, <1>4, <1>8, <1>9, SectionFields DEF Types, Recording
<1>11. Unretired(lists', packets')
  <2>1. ASSUME NEW m \in Lists, NEW p \in lists'[m].packets PROVE ~packets'[p].retired
    <3>1. p \in lists[m].packets
      BY <1>2, <2>1 DEF AllLists
    <3> QED BY <1>1, <1>2, <1>3, <1>4, <1>8, <3>1 DEF Unretired, AllLists, Items, OnlyWorse
  <2> QED BY <2>1 DEF Unretired
<1>12. Fits(device', lists', published', deferred', packets', transaction', thread', gpu', completed', native')
  BY <1>4, <1>8 DEF Recording
<1> QED BY <1>10, <1>11, <1>12, Zenon DEF IInv

(* What the manager knows of a list it may record into.                    *)
LEMMA ListIs ==
  ASSUME IInv, NEW l \in Lists
  PROVE  /\ lists[l] \in Items /\ native[l] \in Natives
         /\ Truly(lists[l], native[l], packets)
<1>1. lists \in AllLists /\ native \in AllNatives
  BY DEF IInv, Types
<1>2. ListsFit(lists, native, published, packets)
  BY Zenon DEF IInv, Fits
<1> QED BY <1>1, <1>2 DEF AllLists, AllNatives, ListsFit, Truly

(* register_list.                                                          *)
LEMMA RegisterListKeeps ==
  ASSUME IInv, NEW l \in Lists, NEW observed \in BOOLEAN, register_list(l, observed)
  PROVE  IInv'
<1> DEFINE item == [Blank EXCEPT !.registered = TRUE, !.session = device.session, !.awaiting = ~observed]
<1>1. /\ lists[l] \in Items /\ native[l] \in Natives /\ Truly(lists[l], native[l], packets)
      /\ lists \in AllLists /\ device \in Devices /\ native \in AllNatives
  BY ListIs DEF IInv, Types
<1>2. item \in Items /\ item.packets = {} /\ ~item.consumer /\ item.registered /\ item.awaiting = ~observed
  <2>1. /\ Blank \in Items /\ Blank.packets = {} /\ ~Blank.consumer
        /\ device.session \in 0..MaximumSession /\ (~observed) \in BOOLEAN
    BY <1>1, ManagerAssumption DEF Blank, Items, Devices
  <2> HIDE DEF Blank
  <2> QED BY <2>1 DEF Items
<1>3. /\ ~lists[l].registered /\ (~observed => ~native[l].open)
      /\ lists' = [lists EXCEPT ![l] = item] /\ UNCHANGED native /\ UNCHANGED Recording
      /\ Apply(Published([pk |-> packets, dev |-> device, pub |-> published], l, lists'[l]))
  BY Zenon DEF register_list, Recording
<1> HIDE DEF item
<1>4. lists[l].packets = {} /\ ~lists[l].consumer /\ lists'[l] = item
  BY <1>1, <1>3 DEF Truly, AllLists
<1>5. Truly(item, native[l], packets)
  <2>1. {<<p, packets[p].token>> : p \in item.packets} = {<<p, packets[p].token>> : p \in lists[l].packets}
    BY <1>2, <1>4
  <2>2. native[l].writes = {<<p, packets[p].token>> : p \in item.packets}
    BY <1>1, <2>1 DEF Truly
  <2>3. native[l].reads_output = item.consumer
    BY <1>1, <1>2, <1>4 DEF Truly, Items
  <2> QED BY <1>2, <1>3, <2>2, <2>3 DEF Truly
<1>6. native' = [native EXCEPT ![l] = native[l]]
  BY <1>1, <1>3 DEF AllNatives
<1>7. item.consumer = lists[l].consumer
  BY <1>1, <1>2, <1>4 DEF Items
<1> QED BY <1>1, <1>2, <1>3, <1>4, <1>5, <1>6, <1>7, PublishingKeeps

(* register_consumer_recording.                                            *)
LEMMA RegisterConsumerKeeps ==
  ASSUME IInv, NEW l \in Lists, register_consumer_recording(l)
  PROVE  IInv'
<1> DEFINE item == [lists[l] EXCEPT !.consumer = TRUE]
           n == [native[l] EXCEPT !.reads_output = TRUE, !.fresh = FALSE]
<1>1. /\ lists[l] \in Items /\ native[l] \in Natives /\ Truly(lists[l], native[l], packets)
      /\ lists \in AllLists /\ native \in AllNatives
  BY ListIs DEF IInv, Types
<1>2. native[l].open /\ Released(thread, l) /\ lists[l].registered
  BY OpenIs DEF register_consumer_recording
<1>3. /\ lists' = [lists EXCEPT ![l].consumer = TRUE] /\ UNCHANGED Recording
      /\ native' = [native EXCEPT ![l].reads_output = TRUE, ![l].fresh = FALSE]
      /\ Apply(Published([pk |-> packets, dev |-> device, pub |-> published], l, lists'[l]))
  BY Zenon DEF register_consumer_recording, Recording
<1>4. /\ lists' = [lists EXCEPT ![l] = item] /\ lists'[l] = item
      /\ native' = [native EXCEPT ![l] = n]
  BY <1>1, <1>3 DEF AllLists, AllNatives
<1>5. item \in Items /\ item.packets = lists[l].packets /\ item.consumer /\ item.awaiting = lists[l].awaiting
      /\ item.registered = lists[l].registered
  BY <1>1 DEF Items
<1>6. n \in Natives /\ n.writes = native[l].writes /\ n.reads_output /\ n.open = native[l].open
  BY <1>1 DEF Natives
<1> HIDE DEF item, n
<1>7. Truly(item, n, packets)
  BY <1>1, <1>2, <1>5, <1>6 DEF Truly, Items
<1> QED BY <1>2, <1>3, <1>4, <1>5, <1>6, <1>7, PublishingKeeps

(* touch_sources.                                                          *)
LEMMA TouchSourcesKeeps ==
  ASSUME IInv, NEW l \in Lists, touch_sources(l)
  PROVE  IInv'
<1> DEFINE item == [lists[l] EXCEPT !.touched = TRUE]
           n == [native[l] EXCEPT !.fresh = FALSE]
<1>1. /\ lists[l] \in Items /\ native[l] \in Natives /\ Truly(lists[l], native[l], packets)
      /\ lists \in AllLists /\ native \in AllNatives
  BY ListIs DEF IInv, Types
<1>3. /\ lists' = [lists EXCEPT ![l].touched = TRUE] /\ UNCHANGED Recording
      /\ native' = [native EXCEPT ![l].fresh = FALSE]
      /\ Apply(Published([pk |-> packets, dev |-> device, pub |-> published], l, lists'[l]))
  BY Zenon DEF touch_sources, Recording
<1>4. /\ lists' = [lists EXCEPT ![l] = item] /\ lists'[l] = item
      /\ native' = [native EXCEPT ![l] = n]
  BY <1>1, <1>3 DEF AllLists, AllNatives
<1>5. item \in Items /\ item.packets = lists[l].packets /\ item.consumer = lists[l].consumer
      /\ item.awaiting = lists[l].awaiting /\ item.registered = lists[l].registered
  BY <1>1 DEF Items
<1>6. n \in Natives /\ n.writes = native[l].writes /\ n.reads_output = native[l].reads_output /\ n.open = native[l].open
  BY <1>1 DEF Natives
<1> HIDE DEF item, n
<1>7. Truly(item, n, packets)
  BY <1>1, <1>5, <1>6 DEF Truly
<1> QED BY <1>3, <1>4, <1>5, <1>6, <1>7, PublishingKeeps

(* Close.                                                                  *)
LEMMA CloseKeeps ==
  ASSUME IInv, NEW l \in Lists, Close(l)
  PROVE  IInv'
<1> DEFINE n == [native[l] EXCEPT !.open = FALSE, !.fresh = FALSE]
<1>1. native \in AllNatives /\ native[l] \in Natives
  BY DEF IInv, Types, AllNatives
<1>2. native' = [native EXCEPT ![l] = n] /\ UNCHANGED <<device, lists, published, packets>> /\ UNCHANGED Recording
  BY <1>1 DEF Close, Recording, AllNatives
<1>3. n \in Natives /\ n.writes = native[l].writes /\ n.reads_output = native[l].reads_output /\ ~n.open
  BY <1>1 DEF Natives
<1> HIDE DEF n
<1>4. native' \in AllNatives /\ \A m \in Lists :
        /\ native'[m].writes = native[m].writes /\ native'[m].reads_output = native[m].reads_output
        /\ native'[m].open => native[m].open
  BY <1>1, <1>2, <1>3 DEF AllNatives
<1>5. ListsFit(lists, native, published, packets) => ListsFit(lists, native', published, packets)
  BY <1>4 DEF ListsFit
<1>6. Fits(device, lists, published, deferred, packets, transaction, thread, gpu, completed, native)
        => Fits(device, lists, published, deferred, packets, transaction, thread, gpu, completed, native')
  BY <1>5, Zenon DEF Fits
<1>7. Types'
  BY <1>2, <1>4 DEF IInv, Types, Recording
<1> QED BY <1>2, <1>6, <1>7 DEF IInv, Recording
-----------------------------------------------------------------------------
(* Nothing refers to a packet that is free, so that it may be assigned.    *)
LEMMA NothingRefersToFree ==
  ASSUME NEW dev, NEW ls \in AllLists, NEW pub, NEW def, NEW pk \in AllPackets, NEW tr, NEW th \in AllSubmissions,
         NEW g \in AllWork, NEW done, NEW nat, Fits(dev, ls, pub, def, pk, tr, th, g, done, nat),
         NEW p \in Packets, ~pk[p].assigned, ~pk[p].quarantined
  PROVE  /\ \A q \in AllQueues : \A i \in DOMAIN g[q] :
              /\ Is(g, q, i, "fence") => p \notin g[q][i].packets
              /\ Is(g, q, i, "exec") => /\ \A w \in g[q][i].writes : w[1] # p
                                        /\ \A r \in g[q][i].reads : r[1] # p
         /\ p \notin th[Service].frames /\ ~pk[p].leased /\ ~InFlight(tr, p) /\ pk[p].in_flight = 0
         /\ \A l \in Lists : p \notin ls[l].packets
<1>1. /\ FencesFit(g, done, dev.last_signal, pk) /\ WritesFit(g, pk, tr, ls, pub, def) /\ ReadsFit(g, pk, th)
      /\ LeasesFit(pk, th, tr) /\ FlightFits(pk, th, tr) /\ ListsFit(ls, nat, pub, pk)
  BY Zenon DEF Fits
<1>2. \A q \in AllQueues : \A i \in DOMAIN g[q] :
              /\ Is(g, q, i, "fence") => p \notin g[q][i].packets
              /\ Is(g, q, i, "exec") => /\ \A w \in g[q][i].writes : w[1] # p
                                        /\ \A r \in g[q][i].reads : r[1] # p
  BY <1>1 DEF FencesFit, WritesFit, ReadsFit
<1>3. ~pk[p].leased /\ p \notin th[Service].frames
  BY <1>1 DEF LeasesFit
<1>4. ~InFlight(tr, p) /\ pk[p].in_flight = 0
  BY <1>1 DEF FlightFits
<1>5. \A l \in Lists : p \notin ls[l].packets
  BY <1>1 DEF ListsFit
<1> QED BY <1>2, <1>3, <1>4, <1>5

(* A free packet may be assigned: nothing refers to it.                    *)
LEMMA AssignKeeps ==
  ASSUME NEW dev, NEW ls \in AllLists, NEW pub, NEW def, NEW pk \in AllPackets, NEW tr, NEW th \in AllSubmissions,
         NEW g \in AllWork, NEW done, NEW nat, Fits(dev, ls, pub, def, pk, tr, th, g, done, nat),
         NEW p \in Packets, ~pk[p].assigned, ~pk[p].quarantined,
         NEW r \in Records, ~r.leased, ~r.submitted, r.in_flight = 0, r.gpu = "recorded"
  PROVE  /\ Fits(dev, ls, pub, def, [pk EXCEPT ![p] = r], tr, th, g, done, nat)
         /\ [pk EXCEPT ![p] = r] \in AllPackets
<1> DEFINE pk2 == [pk EXCEPT ![p] = r]
           last == dev.last_signal
<1>1. /\ Timeline(g, done, last, tr, dev.failed) /\ FencesFit(g, done, last, pk)
      /\ WritesFit(g, pk, tr, ls, pub, def) /\ ReadsFit(g, pk, th)
      /\ LeasesFit(pk, th, tr) /\ FlightFits(pk, th, tr)
      /\ ListsFit(ls, nat, pub, pk) /\ EscapesFit(th, ls, pub, pk, def, dev.failed, tr)
      /\ OutputsFit(g, pub, def, dev.failed)
  BY Zenon DEF Fits
<1>2. /\ \A q \in AllQueues : \A i \in DOMAIN g[q] :
              /\ Is(g, q, i, "fence") => p \notin g[q][i].packets
              /\ Is(g, q, i, "exec") => /\ \A w \in g[q][i].writes : w[1] # p
                                        /\ \A x \in g[q][i].reads : x[1] # p
      /\ p \notin th[Service].frames /\ ~pk[p].leased /\ ~InFlight(tr, p) /\ pk[p].in_flight = 0
      /\ \A l \in Lists : p \notin ls[l].packets
  BY NothingRefersToFree, Zenon
<1>3. pk2 \in AllPackets /\ pk2[p] = r /\ \A x \in Packets : x # p => pk2[x] = pk[x]
  BY DEF AllPackets
<1>4. /\ \A l \in Lists : \A x \in ls[l].packets : x \in Packets /\ x # p /\ pk2[x] = pk[x]
      /\ Service \in AllThreads /\ \A x \in th[Service].frames : pk2[x] = pk[x] /\ x \in Packets
  BY <1>2, <1>3 DEF AllLists, Items, AllThreads, AllSubmissions, Submissions
<1>5. \A q \in AllQueues : \A i \in DOMAIN g[q] :
        /\ Is(g, q, i, "fence") => \A x \in g[q][i].packets : pk2[x] = pk[x]
        /\ Is(g, q, i, "exec") => /\ \A w \in g[q][i].writes : pk2[w[1]] = pk[w[1]]
                                  /\ \A x \in g[q][i].reads : pk2[x[1]] = pk[x[1]]
  BY <1>2, <1>3, Standing, Kinds DEF Is
<1> HIDE DEF pk2, last
<1>6. FencesFit(g, done, last, pk2)
  <2>1. \A q \in AllQueues : \A i \in DOMAIN g[q] : Is(g, q, i, "fence") =>
          \A x \in g[q][i].packets : ~pk2[x].quarantined =>
            /\ pk2[x].assigned /\ pk2[x].gpu = "retiring" /\ q = pk2[x].producer
            /\ Passed(g, done, q, i, pk2[x].order[1] - 1)
    BY <1>1, <1>5 DEF FencesFit
  <2>2. ASSUME NEW x \in Packets, pk2[x].assigned, ~pk2[x].quarantined
        PROVE  /\ pk2[x].gpu \in {"retiring", "ready", "consuming"} => pk2[x].submitted
               /\ pk2[x].submitted => /\ pk2[x].order[1] \in 1..last
                                      /\ Passed(g, done, pk2[x].producer, End(g, pk2[x].producer), pk2[x].order[1] - 1)
    BY <1>1, <1>3, <2>2 DEF FencesFit
  <2> QED BY <2>1, <2>2, Zenon DEF FencesFit
<1>7. WritesFit(g, pk2, tr, ls, pub, def)
  <2>1. SUFFICES ASSUME NEW q \in AllQueues, NEW i \in DOMAIN g[q], Is(g, q, i, "exec"), NEW w \in g[q][i].writes
        PROVE  /\ pk2[w[1]].assigned /\ pk2[w[1]].token = w[2]
               /\ \/ pk2[w[1]].quarantined
                  \/ g[q][i].value = 0 /\ Doomed(w[1], pk2, ls, pub, def)
                  \/ g[q][i].value > 0 /\ InFlight(tr, w[1]) /\ g[q][i].value = tr.value
                  \/ g[q][i].value > 0 /\ Received(g, pk2, q, i, w[1])
    BY Zenon DEF WritesFit
  <2>2. pk2[w[1]] = pk[w[1]]
    BY <1>5, <2>1
  <2> QED BY <1>1, <2>1, <2>2 DEF WritesFit, Doomed, Received, Behind
<1>8. ReadsFit(g, pk2, th)
  BY <1>1, <1>5 DEF ReadsFit
<1>9. LeasesFit(pk2, th, tr)
  BY <1>1, <1>3, <1>4 DEF LeasesFit
<1>10. FlightFits(pk2, th, tr)
  <2>1. \A x \in Packets : InFlight(tr, x) => pk2[x] = pk[x]
    BY <1>2, <1>3
  <2>2. \A x \in Packets : pk2[x].in_flight = pk[x].in_flight
    BY <1>2, <1>3
  <2> QED BY <1>1, <2>1, <2>2 DEF FlightFits
<1>11. ListsFit(ls, nat, pub, pk2)
  <2>1. \A l \in Lists : {<<x, pk2[x].token>> : x \in ls[l].packets} = {<<x, pk[x].token>> : x \in ls[l].packets}
    BY <1>4
  <2>2. \A l \in Lists : /\ nat[l].writes = {<<x, pk2[x].token>> : x \in ls[l].packets}
                         /\ \A x \in ls[l].packets : pk2[x].assigned /\ pk2[x].gpu = "recorded"
    BY <1>1, <1>4, <2>1 DEF ListsFit
  <2> QED BY <1>1, <2>2, Zenon DEF ListsFit
<1>12. EscapesFit(th, ls, pub, pk2, def, dev.failed, tr)
  <2>1. SUFFICES ASSUME NEW t \in Threads, NEW k \in DOMAIN th[t].batch
        PROVE  EscapeFits(th[t], th[t].batch[k], ls, pub, pk2, def, dev.failed, tr)
    BY Zenon DEF EscapesFit
  <2> DEFINE l == th[t].batch[k]
  <2>2. l \in Lists
    BY DEF AllThreads, AllSubmissions, Submissions
  <2>3. EscapeFits(th[t], l, ls, pub, pk, def, dev.failed, tr)
    BY <1>1 DEF EscapesFit
  <2>4. \A x \in ls[l].packets : pk2[x] = pk[x]
    BY <1>4, <2>2
  <2> HIDE DEF l
  <2>5. EscapeFits(th[t], l, ls, pub, pk2, def, dev.failed, tr)
    BY <2>3, <2>4 DEF EscapeFits, Doomed
  <2> QED BY <2>5 DEF l
<1> QED BY <1>1, <1>3, <1>6, <1>7, <1>8, <1>9, <1>10, <1>11, <1>12 DEF Fits, pk2, last

(* The record a packet is assigned.                                        *)
LEMMA AssignedIs ==
  ASSUME NEW s \in Sections, next_token \in Nat, next_token < MaximumToken
  PROVE  /\ Assigned(s) \in Records /\ Assigned(s).assigned /\ Assigned(s).gpu = "recorded"
         /\ ~Assigned(s).leased /\ ~Assigned(s).submitted /\ Assigned(s).in_flight = 0
         /\ ~Assigned(s).retired /\ Assigned(s).token = next_token + 1 /\ ~Assigned(s).quarantined
<1>1. s.dev.session \in 0..MaximumSession
  BY SectionFields, ManagerAssumption DEF Devices
<1>2. /\ Fresh \in Records /\ ~Fresh.leased /\ ~Fresh.submitted /\ Fresh.in_flight = 0 /\ ~Fresh.retired
      /\ ~Fresh.quarantined
  BY ManagerAssumption DEF Fresh, Records, Orders, NoOrder, AllQueues
<1>3. next_token + 1 \in 0..MaximumToken
  BY ManagerAssumption
<1> HIDE DEF Fresh
<1> QED BY <1>1, <1>2, <1>3 DEF Assigned, Records

(* What capture_source and record_queue_tail start from.                   *)
LEMMA CollectingKeeps ==
  ASSUME IInv, NEW failing
  PROVE  LET s == Settled
         IN /\ Fits(s.dev, lists, s.pub, NothingDeferred, Collected(s.pk, failing), transaction, thread,
                    Retired(s.pk, failing, gpu), completed, native)
            /\ Unretired(lists, Collected(s.pk, failing)) /\ Collected(s.pk, failing) \in AllPackets
            /\ Retired(s.pk, failing, gpu) \in AllWork /\ s \in Sections
            /\ s.pk \in AllPackets /\ s.dev \in Devices /\ s.pub \in AllWords /\ OnlyFailed(device, s.dev)
<1>1. Types
  BY DEF IInv
<1> DEFINE s == Settled
<1>2. /\ Fits(s.dev, lists, s.pub, NothingDeferred, s.pk, transaction, thread, gpu, completed, native)
      /\ Unretired(lists, s.pk) /\ s \in Sections /\ OnlyFailed(device, s.dev)
  BY SettledKeeps
<1> HIDE DEF s
<1>3. /\ s.dev \in Devices /\ s.pk \in AllPackets /\ s.pub \in AllWords /\ transaction \in Receipts
      /\ lists \in AllLists /\ thread \in AllSubmissions /\ gpu \in AllWork /\ completed \in 0..MaximumSignal
  BY <1>1, <1>2, SectionFields DEF Types
<1>4. /\ Fits(s.dev, lists, s.pub, NothingDeferred, Collected(s.pk, failing), transaction, thread,
                    Retired(s.pk, failing, gpu), completed, native)
      /\ Unretired(lists, Collected(s.pk, failing)) /\ Collected(s.pk, failing) \in AllPackets
      /\ Retired(s.pk, failing, gpu) \in AllWork
  BY <1>2, <1>3, CollectKeeps
<1> QED BY <1>2, <1>3, <1>4 DEF s

(* apply_deferred leaves no notice.                                        *)
LEMMA NoticesTaken ==
  ASSUME deferred' = NothingDeferred
  PROVE  deferred' \in Notices
BY DEF NothingDeferred, Notices

(* capture_source.                                                         *)
LEMMA CaptureSourceKeeps ==
  ASSUME IInv, NEW l \in Lists, NEW p \in Packets, NEW failing, capture_source(l, p, failing)
  PROVE  IInv'
<1> DEFINE s == Settled
           pk == Collected(s.pk, failing)
           g == Retired(s.pk, failing, gpu)
           r == Assigned(s)
           pk2 == [pk EXCEPT ![p] = r]
           s2 == [s EXCEPT !.pk = pk2]
           item == [lists[l] EXCEPT !.packets = {p}]
           n == [native[l] EXCEPT !.writes = {<<p, next_token + 1>>}, !.fresh = FALSE]
           P == Published(s2, l, item)
<1>1. /\ Fits(s.dev, lists, s.pub, NothingDeferred, pk, transaction, thread, g, completed, native)
      /\ Unretired(lists, pk) /\ pk \in AllPackets /\ g \in AllWork /\ s \in Sections
      /\ s.pk \in AllPackets /\ s.dev \in Devices /\ s.pub \in AllWords
  BY CollectingKeeps
<1>2. /\ lists \in AllLists /\ native \in AllNatives /\ next_token \in 0..MaximumToken /\ transaction \in Receipts
      /\ thread \in AllSubmissions /\ completed \in 0..MaximumSignal /\ content \in [Packets -> Orders]
  BY DEF IInv, Types
<1>3. /\ Open(l) /\ lists[l].registered /\ gpu' = g /\ deferred' = NothingDeferred
      /\ UNCHANGED <<transaction, thread, completed, content>>
      /\ IF Free(s, pk, p)
           THEN /\ lists' = [lists EXCEPT ![l].packets = {p}]
                /\ Apply(Published([s EXCEPT !.pk = [pk EXCEPT ![p] = Assigned(s)]], l, lists'[l]))
                /\ next_token' = next_token + 1
                /\ native' = [native EXCEPT ![l].writes = {<<p, next_token + 1>>}, ![l].fresh = FALSE]
           ELSE /\ Apply([s EXCEPT !.pk = pk])
                /\ UNCHANGED <<lists, next_token, native>>
  BY Zenon DEF capture_source
<1>4. deferred' \in Notices
  BY <1>3, NoticesTaken
<1> HIDE DEF s, pk, g
<1>5. CASE Free(s, pk, p)
  <2>1. ~pk[p].assigned /\ ~pk[p].quarantined /\ next_token < MaximumToken
    BY <1>5 DEF Free
  <2>2. /\ r \in Records /\ r.assigned /\ r.gpu = "recorded" /\ ~r.leased /\ ~r.submitted /\ r.in_flight = 0
        /\ ~r.retired /\ r.token = next_token + 1
    BY <1>1, <1>2, <2>1, AssignedIs
  <2>3. /\ lists' = [lists EXCEPT ![l] = item] /\ lists'[l] = item
        /\ native' = [native EXCEPT ![l] = n] /\ next_token' = next_token + 1
    BY <1>2, <1>3, <1>5 DEF AllLists, AllNatives
  <2>4. Apply(P)
    BY <1>3, <1>5, <2>3, Zenon
  <2> HIDE DEF r
  <2>5. /\ Fits(s.dev, lists, s.pub, NothingDeferred, pk2, transaction, thread, g, completed, native)
        /\ pk2 \in AllPackets
    BY <1>1, <1>2, <2>1, <2>2, AssignKeeps
  <2>6. /\ \A m \in Lists : p \notin lists[m].packets
        /\ pk2[p] = r /\ \A x \in Packets : x # p => pk2[x] = pk[x]
    <3>1. \A m \in Lists : p \notin lists[m].packets
      BY <1>1, <1>2, <2>1, NothingRefersToFree
    <3> QED BY <1>1, <3>1 DEF AllPackets
  <2> HIDE DEF pk2
  <2>7. s2 \in Sections /\ s2.pk = pk2 /\ s2.dev = s.dev /\ s2.pub = s.pub
    BY <1>1, <2>5 DEF Sections
  <2>8. /\ native[l].open /\ Released(thread, l) /\ lists[l] \in Items /\ native[l] \in Natives
        /\ Truly(lists[l], native[l], packets)
    BY <1>3, OpenIs, ListIs
  <2>9. /\ item \in Items /\ item.packets = {p} /\ item.consumer = lists[l].consumer
        /\ item.awaiting = lists[l].awaiting /\ item.registered = lists[l].registered
    BY <2>8 DEF Items
  <2>10. /\ n \in Natives /\ n.writes = {<<p, next_token + 1>>} /\ n.reads_output = native[l].reads_output
         /\ n.open = native[l].open
    <3>1. next_token + 1 \in 0..MaximumToken
      BY <1>2, <2>1, ManagerAssumption
    <3>2. {<<p, next_token + 1>>} \in SUBSET (Packets \X (0..MaximumToken))
      BY <3>1
    <3> QED BY <2>8, <3>2 DEF Natives
  <2> HIDE DEF item, n, s2
  <2>11. Truly(item, n, s2.pk)
    <3>1. {<<x, s2.pk[x].token>> : x \in item.packets} = {<<p, next_token + 1>>}
      BY <2>2, <2>6, <2>7, <2>9
    <3> QED BY <1>3, <2>8, <2>9, <2>10, <3>1 DEF Truly
  <2>12. /\ P \in Sections /\ OnlyWorse(s2.pk, P.pk)
         /\ Fits(P.dev, [lists EXCEPT ![l] = item], P.pub, NothingDeferred, P.pk, transaction, thread, g, completed,
                 [native EXCEPT ![l] = n])
    <3>1. \A x \in item.packets : /\ s2.pk[x].assigned /\ s2.pk[x].gpu = "recorded"
                                  /\ \A m \in Lists : x \in lists[m].packets => m = l
      BY <2>2, <2>6, <2>7, <2>9
    <3>2. Fits(s2.dev, lists, s2.pub, NothingDeferred, s2.pk, transaction, thread, g, completed, native)
      BY <2>5, <2>7
    <3> QED BY <1>1, <1>2, <2>7, <2>8, <2>9, <2>11, <3>1, <3>2, PublishKeeps
  <2> HIDE DEF P
  <2>13. device' = P.dev /\ packets' = P.pk /\ published' = P.pub
    BY <2>4 DEF Apply
  <2>14. lists' \in AllLists /\ native' \in AllNatives /\ next_token' \in 0..MaximumToken
    <3>1. next_token' \in 0..MaximumToken
      BY <1>2, <2>1, <2>3, ManagerAssumption
    <3> QED BY <1>2, <2>3, <2>9, <2>10, <3>1 DEF AllLists, AllNatives
  <2>15. Types'
    BY <1>1, <1>2, <1>3, <1>4, <2>12, <2>13, <2>14, SectionFields DEF Types
  <2>16. Unretired(lists', packets')
    <3>1. ASSUME NEW m \in Lists, NEW x \in lists'[m].packets PROVE ~packets'[x].retired
      <4>1. x \in Packets /\ ~pk2[x].retired
        <5>1. CASE m = l
          BY <2>2, <2>3, <2>6, <2>9, <3>1, <5>1
        <5>2. CASE m # l
          <6>1. x \in lists[m].packets /\ x \in Packets
            BY <1>2, <2>3, <3>1, <5>2 DEF AllLists, Items
          <6>2. x # p /\ ~pk[x].retired
            BY <1>1, <2>6, <6>1 DEF Unretired
          <6> QED BY <2>6, <6>1, <6>2
        <5> QED BY <5>1, <5>2
      <4> QED BY <2>7, <2>12, <2>13, <4>1 DEF OnlyWorse
    <3> QED BY <3>1 DEF Unretired
  <2>17. Fits(device', lists', published', deferred', packets', transaction', thread', gpu', completed', native')
    BY <1>3, <2>3, <2>12, <2>13
  <2> QED BY <2>15, <2>16, <2>17, Zenon DEF IInv
<1>6. CASE ~Free(s, pk, p)
  <2>1. Apply([s EXCEPT !.pk = pk]) /\ UNCHANGED <<lists, next_token, native>>
    BY <1>3, <1>6
  <2>2. device' = s.dev /\ packets' = pk /\ published' = s.pub
    BY <1>1, <2>1 DEF Apply, Sections
  <2> QED BY <1>1, <1>2, <1>3, <1>4, <2>1, <2>2 DEF IInv, Types
<1> QED BY <1>5, <1>6

(* A list that is reset or destroyed: its packets are retired, and nothing *)
(* it held can be executed any more.                                       *)
LEMMA RetireListKeeps ==
  ASSUME IInv, NEW l \in Lists, NEW item \in Items, NEW failing, retire_list(l, item, failing), ~Held(l),
         item.packets = {}, ~item.consumer, ~item.awaiting
  PROVE  IInv'
<1> DEFINE s == Settled
           pk == [p \in Packets |-> IF p \in lists[l].packets THEN [s.pk[p] EXCEPT !.retired = TRUE] ELSE s.pk[p]]
           marked == [s EXCEPT !.pk = pk]
           r == Published(marked, l, item)
           lists2 == [lists EXCEPT ![l] = item]
           native2 == [native EXCEPT ![l] = Empty]
<1>1. /\ Fits(s.dev, lists, s.pub, NothingDeferred, s.pk, transaction, thread, gpu, completed, native)
      /\ Unretired(lists, s.pk) /\ s \in Sections
  BY SettledKeeps
<1>2. Types
  BY DEF IInv
<1>3. /\ lists' = lists2 /\ device' = r.dev /\ published' = r.pub
      /\ packets' = Collected(r.pk, failing) /\ gpu' = Retired(r.pk, failing, gpu)
      /\ deferred' = NothingDeferred /\ native' = native2
      /\ UNCHANGED <<next_token, transaction, thread, completed, content>>
  BY Zenon DEF retire_list, Collect
<1>4. /\ lists \in AllLists /\ native \in AllNatives /\ next_token \in 0..MaximumToken /\ transaction \in Receipts
      /\ thread \in AllSubmissions /\ completed \in 0..MaximumSignal /\ content \in [Packets -> Orders]
      /\ gpu \in AllWork
  BY <1>2 DEF Types
<1> HIDE DEF s
<1>5. s.pk \in AllPackets /\ s.dev \in Devices /\ s.pub \in AllWords
  BY <1>1, SectionFields
<1>6. /\ Alike(s.pk, pk)
      /\ \A p \in Packets : p \notin lists[l].packets => pk[p].retired = s.pk[p].retired
  <2>1. \A p \in Packets : /\ s.pk[p] \in Records /\ [s.pk[p] EXCEPT !.retired = TRUE] \in Records
                           /\ pk[p] = IF p \in lists[l].packets THEN [s.pk[p] EXCEPT !.retired = TRUE] ELSE s.pk[p]
    <3>1. \A x \in Records : [x EXCEPT !.retired = TRUE] \in Records
      BY Zenon DEF Records
    <3>2. \A p \in Packets : s.pk[p] \in Records
      BY <1>5 DEF AllPackets
    <3> QED BY <3>1, <3>2
  <2>2. pk \in AllPackets
    BY <2>1 DEF AllPackets
  <2> HIDE DEF pk
  <2>3. ASSUME NEW p \in Packets
        PROVE  /\ pk[p].gpu = s.pk[p].gpu /\ pk[p].assigned = s.pk[p].assigned
               /\ pk[p].leased = s.pk[p].leased /\ pk[p].in_flight = s.pk[p].in_flight
               /\ pk[p].submitted = s.pk[p].submitted /\ pk[p].producer = s.pk[p].producer
               /\ pk[p].order = s.pk[p].order /\ pk[p].token = s.pk[p].token
               /\ pk[p].consumer_value = s.pk[p].consumer_value
               /\ pk[p].quarantined = s.pk[p].quarantined
    <3>1. CASE pk[p] = s.pk[p]
      BY <3>1
    <3>2. CASE pk[p] = [s.pk[p] EXCEPT !.retired = TRUE]
      BY <2>1, <3>2 DEF Records
    <3> QED BY <2>1, <3>1, <3>2
  <2>4. \A p \in Packets : p \notin lists[l].packets => pk[p].retired = s.pk[p].retired
    BY <2>1
  <2> QED BY <2>2, <2>3, <2>4 DEF Alike
<1> HIDE DEF pk
<1>7. pk \in AllPackets
  BY <1>6 DEF Alike
<1>8. marked \in Sections /\ marked.pk = pk /\ marked.dev = s.dev /\ marked.pub = s.pub
  BY <1>1, <1>7 DEF Sections
<1> HIDE DEF marked
<1>9. Fits(s.dev, lists, s.pub, NothingDeferred, pk, transaction, thread, gpu, completed, native)
  <2>1. Serves(s.pk, s.pub, NothingDeferred, s.dev.failed, pk, s.pub, NothingDeferred, s.dev.failed)
    BY <1>6 DEF Serves, NothingDeferred
  <2> QED BY <1>1, <1>4, <1>5, <2>1, ServeKeeps
<1>10. Released(thread, l)
  BY Zenon DEF Held, Released
<1>11. Truly(item, Empty, marked.pk)
  <2>1. {<<p, marked.pk[p].token>> : p \in item.packets} = {}
    OBVIOUS
  <2>2. item.consumer = FALSE
    BY DEF Items
  <2> QED BY <2>1, <2>2 DEF Truly, Empty
<1>12. /\ r \in Sections /\ OnlyWorse(marked.pk, r.pk)
       /\ Fits(r.dev, lists2, r.pub, NothingDeferred, r.pk, transaction, thread, gpu, completed, native2)
  <2>1. Fits(marked.dev, lists, marked.pub, NothingDeferred, marked.pk, transaction, thread, gpu, completed, native)
    BY <1>8, <1>9
  <2>2. \A p \in item.packets : /\ marked.pk[p].assigned /\ marked.pk[p].gpu = "recorded"
                                /\ \A m \in Lists : p \in lists[m].packets => m = l
    OBVIOUS
  <2> QED BY <1>4, <1>8, <1>10, <1>11, <2>1, <2>2, PublishKeeps
<1> HIDE DEF r
<1>13. r.pk \in AllPackets /\ r.dev \in Devices /\ r.pub \in AllWords
  BY <1>12, SectionFields
<1>14. lists2 \in AllLists /\ native2 \in AllNatives
  <2>1. Empty \in Natives
    BY DEF Empty, Natives
  <2> QED BY <1>4, <2>1 DEF AllLists, AllNatives
<1>15. Unretired(lists2, r.pk)
  <2>1. ASSUME NEW m \in Lists, NEW p \in lists2[m].packets PROVE ~r.pk[p].retired
    <3>1. m # l /\ p \in lists[m].packets /\ p \in Packets
      BY <1>4, <2>1 DEF AllLists, Items
    <3>2. ListsFit(lists, native, s.pub, s.pk)
      BY <1>1, Zenon DEF Fits
    <3>3. p \notin lists[l].packets /\ ~s.pk[p].retired
      BY <1>1, <3>1, <3>2 DEF ListsFit, Unretired
    <3> QED BY <1>6, <1>8, <1>12, <3>1, <3>3 DEF OnlyWorse
  <2> QED BY <2>1 DEF Unretired
<1> HIDE DEF lists2, native2
<1>16. /\ Fits(r.dev, lists2, r.pub, NothingDeferred, Collected(r.pk, failing), transaction, thread,
               Retired(r.pk, failing, gpu), completed, native2)
       /\ Unretired(lists2, Collected(r.pk, failing)) /\ Collected(r.pk, failing) \in AllPackets
       /\ Retired(r.pk, failing, gpu) \in AllWork
  BY <1>4, <1>12, <1>13, <1>14, <1>15, CollectKeeps
<1>17. Types'
  BY <1>3, <1>4, <1>13, <1>14, <1>16, NoticesTaken DEF Types
<1> QED BY <1>3, <1>16, <1>17 DEF IInv

(* successful_reset.                                                       *)
LEMMA SuccessfulResetKeeps ==
  ASSUME IInv, NEW l \in Lists, NEW failing, successful_reset(l, failing)
  PROVE  IInv'
<1> DEFINE item == [Blank EXCEPT !.registered = TRUE, !.session = device.session]
<1>1. ~Held(l) /\ retire_list(l, item, failing)
  BY Zenon DEF successful_reset
<1>2. item \in Items /\ item.packets = {} /\ ~item.consumer /\ ~item.awaiting
  <2>1. /\ Blank \in Items /\ Blank.packets = {} /\ ~Blank.consumer /\ ~Blank.awaiting
    BY ManagerAssumption DEF Blank, Items
  <2>2. device.session \in 0..MaximumSession
    BY ManagerAssumption DEF IInv, Types, Devices
  <2> HIDE DEF Blank
  <2> QED BY <2>1, <2>2 DEF Items
<1> HIDE DEF item
<1> QED BY <1>1, <1>2, RetireListKeeps

(* destroy_command_list.                                                   *)
LEMMA DestroyListKeeps ==
  ASSUME IInv, NEW l \in Lists, NEW failing, destroy_command_list(l, failing)
  PROVE  IInv'
<1>1. ~Held(l) /\ retire_list(l, Blank, failing)
  BY Zenon DEF destroy_command_list
<1>2. Blank \in Items /\ Blank.packets = {} /\ ~Blank.consumer /\ ~Blank.awaiting
  BY ManagerAssumption DEF Blank, Items
<1> QED BY <1>1, <1>2, RetireListKeeps
-----------------------------------------------------------------------------
(* The steps of a submission that leave the receipts alone.                *)
LEMMA ThreadKeeps ==
  ASSUME NEW dev, NEW ls, NEW pub, NEW def, NEW pk, NEW tr \in Receipts, NEW th \in AllSubmissions, NEW g, NEW done, NEW nat,
         Fits(dev, ls, pub, def, pk, tr, th, g, done, nat),
         NEW t \in Threads, NEW s \in Submissions, th[t].pc \notin InReceipt, s.pc \notin InReceipt,
         \A k \in DOMAIN s.batch : EscapeFits(s, s.batch[k], ls, pub, pk, def, dev.failed, tr)
  PROVE  /\ Fits(dev, ls, pub, def, pk, tr, [th EXCEPT ![t] = s], g, done, nat)
         /\ [th EXCEPT ![t] = s] \in AllSubmissions
<1> DEFINE th2 == [th EXCEPT ![t] = s]
<1>1. /\ ReadsFit(g, pk, th) /\ LeasesFit(pk, th, tr) /\ FlightFits(pk, th, tr)
      /\ EscapesFit(th, ls, pub, pk, def, dev.failed, tr)
  BY Zenon DEF Fits
<1>2. Service \in AllThreads /\ t \in AllThreads /\ t # Service /\ Threads \subseteq AllThreads
  BY ManagerAssumption DEF AllThreads
<1>3. th2 \in AllSubmissions /\ th2[t] = s /\ \A u \in AllThreads : u # t => th2[u] = th[u]
  BY <1>2 DEF AllSubmissions
<1> HIDE DEF th2
<1>4. ReadsFit(g, pk, th2)
  BY <1>1, <1>2, <1>3 DEF ReadsFit
<1>5. LeasesFit(pk, th2, tr)
  BY <1>1, <1>2, <1>3 DEF LeasesFit
<1>6. FlightFits(pk, th2, tr)
  <2>1. \A u \in AllThreads : th2[u].pc \in InReceipt => tr # NoOne /\ tr.by = u
    BY <1>1, <1>3 DEF FlightFits
  <2>2. tr # NoOne => th2[tr.by].pc \in InReceipt /\ th2[tr.by].queue = tr.queue
    <3>1. SUFFICES ASSUME tr # NoOne PROVE th2[tr.by].pc \in InReceipt /\ th2[tr.by].queue = tr.queue
      OBVIOUS
    <3>2. th[tr.by].pc \in InReceipt /\ th[tr.by].queue = tr.queue
      BY <1>1, <3>1 DEF FlightFits
    <3>3. th2[tr.by] = th[tr.by]
      <4>1. tr.by \in AllThreads
        BY <3>1 DEF Receipts, Transactions
      <4> QED BY <1>3, <3>2, <4>1
    <3> QED BY <3>2, <3>3
  <2> QED BY <1>1, <2>1, <2>2, Zenon DEF FlightFits
<1>7. EscapesFit(th2, ls, pub, pk, def, dev.failed, tr)
  <2>1. ASSUME NEW u \in Threads, NEW k \in DOMAIN th2[u].batch
        PROVE  EscapeFits(th2[u], th2[u].batch[k], ls, pub, pk, def, dev.failed, tr)
    <3>1. CASE u = t
      BY <1>3, <2>1, <3>1
    <3>2. CASE u # t
      <4>1. th2[u] = th[u]
        BY <1>2, <1>3, <3>2
      <4> QED BY <1>1, <2>1, <4>1 DEF EscapesFit
    <3> QED BY <3>1, <3>2
  <2> QED BY <2>1 DEF EscapesFit
<1> QED BY <1>3, <1>4, <1>5, <1>6, <1>7 DEF Fits, th2

(* What a thread on its way leaves alone.                                  *)
Elsewhere == <<lists, packets, device, next_token, transaction, gpu, completed, native, content>>

(* A thread moves on, and may leave a notice.                              *)
LEMMA MovingKeeps ==
  ASSUME IInv, NEW t \in Threads, NEW s \in Submissions, thread[t].pc \notin InReceipt, s.pc \notin InReceipt,
         thread' = [thread EXCEPT ![t] = s], published' \in AllWords, deferred' \in Notices, UNCHANGED Elsewhere,
         Serves(packets, published, deferred, device.failed, packets, published', deferred', device.failed),
         ListsFit(lists, native, published', packets) =>
           \A k \in DOMAIN s.batch :
             EscapeFits(s, s.batch[k], lists, published', packets, deferred', device.failed, transaction)
  PROVE  IInv'
<1>1. Types /\ Unretired(lists, packets)
      /\ Fits(device, lists, published, deferred, packets, transaction, thread, gpu, completed, native)
  BY DEF IInv
<1>2. /\ device \in Devices /\ lists \in AllLists /\ packets \in AllPackets /\ thread \in AllSubmissions
      /\ gpu \in AllWork /\ transaction \in Receipts
  BY <1>1 DEF Types
<1>3. Fits(device, lists, published', deferred', packets, transaction, thread, gpu, completed, native)
  BY <1>1, <1>2, ServeKeeps
<1>4. ListsFit(lists, native, published', packets)
  BY <1>3, Zenon DEF Fits
<1>5. /\ Fits(device, lists, published', deferred', packets, transaction, thread', gpu, completed, native)
      /\ thread' \in AllSubmissions
  BY <1>2, <1>3, <1>4, ThreadKeeps
<1>6. Types'
  BY <1>1, <1>5 DEF Types, Elsewhere
<1> QED BY <1>1, <1>5, <1>6 DEF IInv, Elsewhere

(* A thread, its batch and the words.                                      *)
LEMMA ThreadIs ==
  ASSUME IInv, NEW t \in Threads
  PROVE  /\ t \in AllThreads /\ thread[t] \in Submissions /\ thread \in AllSubmissions
         /\ \A k \in DOMAIN thread[t].batch : /\ thread[t].batch[k] \in Lists
                                              /\ thread[t].batch[k] \in Range(thread[t].batch)
         /\ published \in AllWords /\ deferred \in Notices
         /\ \A l \in Lists : /\ published[l] \in Words /\ lists[l].packets \in SUBSET Packets
                             /\ published[l].packets = lists[l].packets /\ published[l].consumer = lists[l].consumer
         /\ EscapesFit(thread, lists, published, packets, deferred, device.failed, transaction)
<1>1. /\ thread \in AllSubmissions /\ published \in AllWords /\ deferred \in Notices /\ lists \in AllLists
  BY DEF IInv, Types
<1>2. /\ EscapesFit(thread, lists, published, packets, deferred, device.failed, transaction)
      /\ ListsFit(lists, native, published, packets)
  BY Zenon DEF IInv, Fits
<1>3. t \in AllThreads /\ thread[t] \in Submissions
  BY <1>1 DEF AllThreads, AllSubmissions
<1>4. thread[t].batch \in Seq(Lists)
  BY <1>3 DEF Submissions
<1>5. \A k \in DOMAIN thread[t].batch : /\ thread[t].batch[k] \in Lists
                                        /\ thread[t].batch[k] \in Range(thread[t].batch)
  BY <1>4 DEF Range
<1>6. \A l \in Lists : /\ published[l] \in Words /\ lists[l].packets \in SUBSET Packets
  BY <1>1 DEF AllWords, AllLists, Items
<1> QED BY <1>1, <1>2, <1>3, <1>5, <1>6 DEF ListsFit

(* Doing nothing serves what was not noticed.                              *)
LEMMA ServesItself ==
  ASSUME IInv
  PROVE  Serves(packets, published, deferred, device.failed, packets, published, deferred, device.failed)
BY DEF IInv, Types, Serves, Alike

(* submit.                                                                 *)
LEMMA SubmitKeeps ==
  ASSUME IInv, NEW t \in Threads, NEW q \in Queues, NEW batch \in Batches, submit(t, q, batch)
  PROVE  IInv'
<1> DEFINE s == [Idle EXCEPT !.pc = IF QueueBusy(q) THEN "classify" ELSE "before", !.queue = q, !.batch = batch]
<1>1. /\ thread[t].pc = "idle" /\ thread' = [thread EXCEPT ![t] = s]
      /\ UNCHANGED <<published, deferred>> /\ UNCHANGED Elsewhere
  BY Zenon DEF submit, Elsewhere
<1>2. s \in Submissions /\ s.pc \in {"classify", "before"}
  <2>1. batch \in Seq(Lists) /\ q \in AllQueues
    BY ManagerAssumption DEF AllQueues
  <2>2. Idle \in Submissions
    BY DEF Idle, Submissions, AllQueues
  <2>3. \A pc \in {"classify", "before"} :
          /\ [Idle EXCEPT !.pc = pc, !.queue = q, !.batch = batch] \in Submissions
          /\ [Idle EXCEPT !.pc = pc, !.queue = q, !.batch = batch].pc = pc
    <3> HIDE DEF Idle
    <3> QED BY <2>1, <2>2 DEF Submissions
  <2> HIDE DEF Idle
  <2> QED BY <2>3
<1> HIDE DEF s
<1>3. thread[t].pc \notin InReceipt /\ s.pc \notin InReceipt
  BY <1>1, <1>2 DEF InReceipt
<1>4. \A k \in DOMAIN s.batch :
        EscapeFits(s, s.batch[k], lists, published', packets, deferred', device.failed, transaction)
  BY <1>2 DEF EscapeFits
<1>5. /\ Serves(packets, published, deferred, device.failed, packets, published', deferred', device.failed)
      /\ published' \in AllWords /\ deferred' \in Notices
  BY <1>1, ServesItself DEF IInv, Types
<1> QED BY <1>1, <1>2, <1>3, <1>4, <1>5, MovingKeeps

(* The early returns of before_submission.                                 *)
LEMMA BeforeUnrelatedKeeps ==
  ASSUME IInv, NEW t \in Threads, before_unrelated(t)
  PROVE  IInv'
<1> DEFINE s == [thread[t] EXCEPT !.pc = "bypass"]
<1>1. /\ thread[t].pc = "before" /\ \A l \in Range(thread[t].batch) : Unrelated(published[l])
      /\ Step(t, "bypass")
      /\ UNCHANGED <<published, deferred>> /\ UNCHANGED Elsewhere
  BY Zenon DEF before_unrelated, Elsewhere
<1>2. /\ t \in AllThreads /\ thread[t] \in Submissions /\ thread \in AllSubmissions
         /\ \A k \in DOMAIN thread[t].batch : /\ thread[t].batch[k] \in Lists
                                              /\ thread[t].batch[k] \in Range(thread[t].batch)
         /\ \A l \in Lists : /\ published[l].packets = lists[l].packets /\ published[l].consumer = lists[l].consumer
  BY ThreadIs
<1>3. thread' = [thread EXCEPT ![t] = s]
  BY <1>1, <1>2 DEF Step, AllSubmissions
<1>4. s \in Submissions /\ s.pc = "bypass" /\ s.batch = thread[t].batch
  BY <1>2 DEF Submissions
<1> HIDE DEF s
<1>5. thread[t].pc \notin InReceipt /\ s.pc \notin InReceipt
  BY <1>1, <1>4 DEF InReceipt
<1>6. \A k \in DOMAIN s.batch :
        EscapeFits(s, s.batch[k], lists, published', packets, deferred', device.failed, transaction)
  BY <1>1, <1>2, <1>4 DEF EscapeFits, Unrelated, Owned
<1>7. /\ Serves(packets, published, deferred, device.failed, packets, published', deferred', device.failed)
      /\ published' \in AllWords /\ deferred' \in Notices
  BY <1>1, ServesItself DEF IInv, Types
<1> QED BY <1>1, <1>3, <1>4, <1>5, <1>6, <1>7, MovingKeeps

(* A contended batch: the words it saw are those it has to mark.           *)
LEMMA ClassifyKeeps ==
  ASSUME IInv, NEW t \in Threads, classify(t)
  PROVE  IInv'
<1> DEFINE seen == {<<l, published[l].escaped>> : l \in {x \in Range(thread[t].batch) : Owned(published[x])}}
           s == [thread[t] EXCEPT !.pc = "mark", !.seen = seen]
<1>1. /\ thread[t].pc = "classify" /\ thread' = [thread EXCEPT ![t].pc = "mark", ![t].seen = seen]
      /\ UNCHANGED <<published, deferred>> /\ UNCHANGED Elsewhere
  BY Zenon DEF classify, Elsewhere
<1>2. /\ t \in AllThreads /\ thread[t] \in Submissions /\ thread \in AllSubmissions
      /\ \A k \in DOMAIN thread[t].batch : /\ thread[t].batch[k] \in Lists
                                           /\ thread[t].batch[k] \in Range(thread[t].batch)
      /\ \A l \in Lists : /\ published[l] \in Words
                          /\ published[l].packets = lists[l].packets /\ published[l].consumer = lists[l].consumer
  BY ThreadIs
<1>3. \A l \in Range(thread[t].batch) : l \in Lists
  BY <1>2 DEF Range
<1>4. seen \in SUBSET (Lists \X BOOLEAN)
  <2>1. ASSUME NEW l \in Range(thread[t].batch) PROVE <<l, published[l].escaped>> \in Lists \X BOOLEAN
    BY <1>2, <1>3 DEF Words
  <2> QED BY <2>1
<1>5. \A l \in Range(thread[t].batch) : Owned(published[l]) => <<l, published[l].escaped>> \in seen
  OBVIOUS
<1>6. \A l \in Range(thread[t].batch) : published[l].escaped \in BOOLEAN
  BY <1>2, <1>3 DEF Words
<1> HIDE DEF seen
<1>7. thread' = [thread EXCEPT ![t] = s]
  BY <1>1, <1>2 DEF AllSubmissions
<1>8. s \in Submissions /\ s.pc = "mark" /\ s.batch = thread[t].batch /\ s.seen = seen
  BY <1>2, <1>4 DEF Submissions
<1> HIDE DEF s
<1>9. thread[t].pc \notin InReceipt /\ s.pc \notin InReceipt
  BY <1>1, <1>8 DEF InReceipt
<1>10. ASSUME NEW k \in DOMAIN s.batch
       PROVE  EscapeFits(s, s.batch[k], lists, published', packets, deferred', device.failed, transaction)
  <2> DEFINE l == thread[t].batch[k]
  <2>1. l \in Lists /\ l \in Range(thread[t].batch) /\ s.batch[k] = l
    BY <1>2, <1>8, <1>10
  <2> HIDE DEF l
  <2>2. lists[l].packets # {} \/ lists[l].consumer => \E b \in BOOLEAN : <<l, b>> \in seen
    BY <1>2, <1>5, <1>6, <2>1 DEF Owned
  <2> QED BY <1>8, <2>1, <2>2 DEF EscapeFits
<1>11. /\ Serves(packets, published, deferred, device.failed, packets, published', deferred', device.failed)
       /\ published' \in AllWords /\ deferred' \in Notices
  BY <1>1, ServesItself DEF IInv, Types
<1> QED BY <1>1, <1>7, <1>8, <1>9, <1>10, <1>11, MovingKeeps

(* mark: every owned list of the batch is marked, or the manager is told   *)
(* it is uncertain.                                                        *)
LEMMA MarkKeeps ==
  ASSUME IInv, NEW t \in Threads, mark(t)
  PROVE  IInv'
<1> DEFINE owned == {w[1] : w \in thread[t].seen}
           marked == {l \in Lists : <<l, published[l].escaped>> \in thread[t].seen}
           s == [thread[t] EXCEPT !.pc = IF marked = {} THEN "escape" ELSE "wake"]
<1>1. /\ thread[t].pc = "mark"
      /\ published' = [l \in Lists |-> IF l \in marked THEN [published[l] EXCEPT !.escaped = TRUE]
                                       ELSE published[l]]
      /\ deferred' = [deferred EXCEPT !.uncertain = @ \/ owned # marked]
      /\ Step(t, IF marked = {} THEN "escape" ELSE "wake")
      /\ UNCHANGED Elsewhere
  BY Zenon DEF mark, Elsewhere
<1>2. /\ t \in AllThreads /\ thread[t] \in Submissions /\ thread \in AllSubmissions
      /\ \A k \in DOMAIN thread[t].batch : thread[t].batch[k] \in Lists
      /\ published \in AllWords /\ deferred \in Notices
      /\ \A l \in Lists : published[l] \in Words
      /\ EscapesFit(thread, lists, published, packets, deferred, device.failed, transaction)
  BY ThreadIs
<1>3. \A l, b : <<l, b>> \in thread[t].seen => l \in owned
  <2>1. ASSUME NEW l, NEW b, <<l, b>> \in thread[t].seen PROVE l \in owned
    <3>1. <<l, b>>[1] = l
      OBVIOUS
    <3> QED BY <2>1, <3>1
  <2> QED BY <2>1
<1> HIDE DEF owned, marked
<1>4. /\ deferred' \in Notices /\ (deferred.recordings <=> deferred'.recordings)
      /\ (deferred.uncertain \/ owned # marked <=> deferred'.uncertain)
  BY <1>1, <1>2 DEF Notices
<1>5. /\ published' \in AllWords
      /\ \A l \in Lists : /\ published'[l].packets = published[l].packets /\ published'[l].consumer = published[l].consumer
                          /\ published[l].escaped => published'[l].escaped
                          /\ l \in marked => published'[l].escaped
  <2>1. \A l \in Lists : [published[l] EXCEPT !.escaped = TRUE] \in Words
    BY <1>2 DEF Words
  <2>2. published' \in AllWords
    BY <1>1, <1>2, <2>1 DEF AllWords
  <2> QED BY <1>1, <1>2, <2>2 DEF Words
<1>6. Serves(packets, published, deferred, device.failed, packets, published', deferred', device.failed)
  BY <1>4, <1>5 DEF IInv, Types, Serves, Alike
<1>7. thread' = [thread EXCEPT ![t] = s]
  BY <1>1, <1>2 DEF Step, AllSubmissions
<1>8. s \in Submissions /\ s.pc = (IF marked = {} THEN "escape" ELSE "wake") /\ s.batch = thread[t].batch
  BY <1>2 DEF Submissions
<1> HIDE DEF s
<1>9. thread[t].pc \notin InReceipt /\ s.pc \notin InReceipt
  BY <1>1, <1>8 DEF InReceipt
<1>10. ASSUME NEW k \in DOMAIN s.batch
       PROVE  EscapeFits(s, s.batch[k], lists, published', packets, deferred', device.failed, transaction)
  <2> DEFINE l == thread[t].batch[k]
  <2>1. l \in Lists /\ s.batch[k] = l /\ k \in DOMAIN thread[t].batch
    BY <1>2, <1>8, <1>10
  <2>2. EscapeFits(thread[t], l, lists, published, packets, deferred, device.failed, transaction)
    BY <1>2, <2>1 DEF EscapesFit
  <2> HIDE DEF l
  <2>3. lists[l].packets # {} \/ lists[l].consumer => l \in owned
    BY <1>1, <1>3, <2>2 DEF EscapeFits
  <2>4. lists[l].packets # {} \/ lists[l].consumer => deferred'.uncertain \/ (l \in marked /\ published'[l].escaped)
    BY <1>4, <1>5, <2>1, <2>3
  <2>5. \A p \in lists[l].packets : marked = {} => Doomed(p, packets, lists, published', deferred')
    BY <2>4 DEF Doomed
  <2> QED BY <1>8, <2>1, <2>4, <2>5 DEF EscapeFits
<1> QED BY <1>1, <1>4, <1>5, <1>6, <1>7, <1>8, <1>9, <1>10, MovingKeeps

(* wake.                                                                   *)
LEMMA WakeKeeps ==
  ASSUME IInv, NEW t \in Threads, wake(t)
  PROVE  IInv'
<1> DEFINE s == [thread[t] EXCEPT !.pc = "escape"]
<1>1. /\ thread[t].pc = "wake" /\ deferred' = [deferred EXCEPT !.recordings = TRUE] /\ Step(t, "escape")
      /\ UNCHANGED published /\ UNCHANGED Elsewhere
  BY Zenon DEF wake, Elsewhere
<1>2. /\ t \in AllThreads /\ thread[t] \in Submissions /\ thread \in AllSubmissions
      /\ \A k \in DOMAIN thread[t].batch : thread[t].batch[k] \in Lists
      /\ published \in AllWords /\ deferred \in Notices
      /\ EscapesFit(thread, lists, published, packets, deferred, device.failed, transaction)
  BY ThreadIs
<1>3. deferred' \in Notices /\ deferred'.recordings /\ (deferred'.uncertain <=> deferred.uncertain)
  BY <1>1, <1>2 DEF Notices
<1>4. Serves(packets, published, deferred, device.failed, packets, published', deferred', device.failed)
  BY <1>1, <1>3 DEF IInv, Types, Serves, Alike
<1>5. thread' = [thread EXCEPT ![t] = s]
  BY <1>1, <1>2 DEF Step, AllSubmissions
<1>6. s \in Submissions /\ s.pc = "escape" /\ s.batch = thread[t].batch
  BY <1>2 DEF Submissions
<1> HIDE DEF s
<1>7. thread[t].pc \notin InReceipt /\ s.pc \notin InReceipt
  BY <1>1, <1>6 DEF InReceipt
<1>8. ASSUME NEW k \in DOMAIN s.batch
      PROVE  EscapeFits(s, s.batch[k], lists, published', packets, deferred', device.failed, transaction)
  <2> DEFINE l == thread[t].batch[k]
  <2>1. l \in Lists /\ s.batch[k] = l /\ k \in DOMAIN thread[t].batch
    BY <1>2, <1>6, <1>8
  <2>2. EscapeFits(thread[t], l, lists, published, packets, deferred, device.failed, transaction)
    BY <1>2, <2>1 DEF EscapesFit
  <2> HIDE DEF l
  <2>3. \A p \in lists[l].packets : Doomed(p, packets, lists, published', deferred')
    BY <1>1, <1>3, <2>1, <2>2 DEF EscapeFits, Doomed
  <2> QED BY <1>1, <1>3, <1>6, <2>1, <2>2, <2>3 DEF EscapeFits
<1> QED BY <1>1, <1>2, <1>3, <1>4, <1>5, <1>6, <1>7, <1>8, MovingKeeps
-----------------------------------------------------------------------------
(* What a command of a receipt must satisfy to be appended.                *)
LEMMA TimelineMore ==
  ASSUME NEW g \in AllWork, NEW done \in Nat, NEW last \in Nat, NEW last2 \in Nat, last <= last2,
         NEW tr \in Receipts, NEW tr2 \in Receipts, NEW failed, NEW failed2, Timeline(g, done, last, tr, failed),
         NEW q \in AllQueues, NEW c \in Commands, NEW g2, g2 = Appended(g, q, c),
         c.op = "wait" => c.value <= last2,
         c.op = "signal" => /\ done < c.value /\ c.value <= last2 /\ last < c.value
                            /\ Passed(g, done, q, End(g, q), c.value - 1)
                            /\ \A r \in AllQueues : \A j \in DOMAIN g[r] :
                                 Ordered(g, r, j) /\ g[r][j].value = c.value => r = q,
         c.op = "exec" /\ c.value > 0 =>
           /\ done < c.value /\ c.value <= last2 + 1 /\ last < c.value
           /\ Passed(g, done, q, End(g, q), c.value - 1)
           /\ c.value = last2 + 1 => IF tr2 = NoOne THEN failed2 ELSE q = tr2.queue
           /\ \A r \in AllQueues : \A j \in DOMAIN g[r] : Ordered(g, r, j) /\ g[r][j].value = c.value => r = q,
         \A r \in AllQueues : \A j \in DOMAIN g[r] :
           Ordered(g, r, j) /\ g[r][j].value = last2 + 1 => IF tr2 = NoOne THEN failed2 ELSE r = tr2.queue,
         \A v \in last + 1..last2 : c.op = "signal" /\ c.value = v,
         tr2 # NoOne => tr2.value = last2 + 1 /\ Passed(g2, done, tr2.queue, End(g2, tr2.queue), last2)
  PROVE  Timeline(g2, done, last2, tr2, failed2) /\ Longer(g, g2)
<1> DEFINE e == End(g, q)
<1>1. /\ Longer(g, g2) /\ g2 \in AllWork
      /\ \A r \in AllQueues : \A i \in DOMAIN g2[r] : i \in DOMAIN g[r] \/ (r = q /\ i = e)
      /\ e \in DOMAIN g2[q] /\ g2[q][e] = c
  <2>1. /\ Longer(g, g2)
        /\ \A r \in AllQueues : \A i \in DOMAIN g2[r] : i \in DOMAIN g[r] \/ (r = q /\ i = End(g, q))
        /\ End(g, q) \in DOMAIN g2[q] /\ g2[q][End(g, q)] = c
    BY OneMore
  <2> QED BY <2>1 DEF Longer
<1>2. \A r \in AllQueues : \A i \in DOMAIN g[r] : i \in DOMAIN g2[r] /\ g2[r][i] = g[r][i]
  BY <1>1 DEF Longer
<1>3. \A r \in AllQueues : \A i, v : Passed(g, done, r, i, v) => Passed(g2, done, r, i, v)
  BY <1>1, PassedGrows
<1>4. /\ \A i \in DOMAIN g[q] : i < e
      /\ \A r \in AllQueues : \A i \in DOMAIN g[r] : i \in Nat
      /\ e \in Nat
  BY Standing DEF End
<1>5. \A r \in AllQueues : \A i \in DOMAIN g[r] :
        /\ Is(g2, r, i, "wait") <=> Is(g, r, i, "wait")
        /\ Is(g2, r, i, "signal") <=> Is(g, r, i, "signal")
        /\ Ordered(g2, r, i) <=> Ordered(g, r, i)
  BY <1>2 DEF Is, Ordered
<1>6. /\ Is(g2, q, e, "wait") <=> c.op = "wait"
      /\ Is(g2, q, e, "signal") <=> c.op = "signal"
      /\ Ordered(g2, q, e) <=> (c.op = "exec" /\ c.value > 0)
  BY <1>1 DEF Is, Ordered
<1>7. /\ c.op \in {"wait", "signal", "exec"} => c.value \in Nat
      /\ \A r \in AllQueues : \A i \in DOMAIN g[r] : g[r][i].op # "fence" => g[r][i].value \in Nat
  BY Standing, Kinds, ManagerAssumption
<1> HIDE DEF e
<1>8. \A r \in AllQueues : \A i \in DOMAIN g2[r] :
       /\ Is(g2, r, i, "wait") => g2[r][i].value <= last2
       /\ Is(g2, r, i, "signal") => /\ done < g2[r][i].value /\ g2[r][i].value <= last2
                                    /\ Passed(g2, done, r, i, g2[r][i].value - 1)
       /\ Ordered(g2, r, i) => /\ done < g2[r][i].value /\ g2[r][i].value <= last2 + 1
                               /\ Passed(g2, done, r, i, g2[r][i].value - 1)
                               /\ g2[r][i].value = last2 + 1 => IF tr2 = NoOne THEN failed2 ELSE r = tr2.queue
  <2>1. SUFFICES ASSUME NEW r \in AllQueues, NEW i \in DOMAIN g2[r]
        PROVE  /\ Is(g2, r, i, "wait") => g2[r][i].value <= last2
               /\ Is(g2, r, i, "signal") => /\ done < g2[r][i].value /\ g2[r][i].value <= last2
                                            /\ Passed(g2, done, r, i, g2[r][i].value - 1)
               /\ Ordered(g2, r, i) => /\ done < g2[r][i].value /\ g2[r][i].value <= last2 + 1
                                       /\ Passed(g2, done, r, i, g2[r][i].value - 1)
                                       /\ g2[r][i].value = last2 + 1 => IF tr2 = NoOne THEN failed2 ELSE r = tr2.queue
    BY Zenon
  <2>2. CASE i \in DOMAIN g[r]
    <3>1. g2[r][i] = g[r][i]
      BY <1>2, <2>2
    <3>2. Passed(g, done, r, i, g[r][i].value - 1) => Passed(g2, done, r, i, g[r][i].value - 1)
      BY <1>3
    <3>3. Is(g, r, i, "wait") => g[r][i].value <= last2
      BY <1>7, <2>2 DEF Timeline, Is
    <3>4. Is(g, r, i, "signal") => /\ done < g[r][i].value /\ g[r][i].value <= last2
                                   /\ Passed(g, done, r, i, g[r][i].value - 1)
      BY <1>7, <2>2 DEF Timeline, Is
    <3>5. Ordered(g, r, i) => /\ done < g[r][i].value /\ g[r][i].value <= last2 + 1
                              /\ Passed(g, done, r, i, g[r][i].value - 1)
                              /\ g[r][i].value = last2 + 1 => IF tr2 = NoOne THEN failed2 ELSE r = tr2.queue
      BY <1>7, <2>2 DEF Timeline, Is, Ordered
    <3> QED BY <1>5, <2>2, <3>1, <3>2, <3>3, <3>4, <3>5
  <2>3. CASE r = q /\ i = e
    <3>1. Passed(g, done, q, e, c.value - 1) => Passed(g2, done, q, e, c.value - 1)
      BY <1>3
    <3> QED BY <1>1, <1>6, <2>3, <3>1 DEF e
  <2> QED BY <1>1, <2>2, <2>3
<1>9. \A r, x \in AllQueues : \A i \in DOMAIN g2[r], j \in DOMAIN g2[x] :
       g2[r][i].op # "fence" /\ g2[x][j].op # "fence" /\ g2[r][i].value = g2[x][j].value =>
       /\ Is(g2, r, i, "signal") /\ Is(g2, x, j, "signal") => r = x /\ i = j
       /\ Is(g2, r, i, "signal") /\ Ordered(g2, x, j) => r = x /\ j < i
       /\ Ordered(g2, r, i) /\ Ordered(g2, x, j) => r = x
  <2>1. SUFFICES ASSUME NEW r \in AllQueues, NEW x \in AllQueues, NEW i \in DOMAIN g2[r], NEW j \in DOMAIN g2[x],
               g2[r][i].op # "fence", g2[x][j].op # "fence", g2[r][i].value = g2[x][j].value
        PROVE  /\ Is(g2, r, i, "signal") /\ Is(g2, x, j, "signal") => r = x /\ i = j
               /\ Is(g2, r, i, "signal") /\ Ordered(g2, x, j) => r = x /\ j < i
               /\ Ordered(g2, r, i) /\ Ordered(g2, x, j) => r = x
    OBVIOUS
  <2>2. CASE i \in DOMAIN g[r] /\ j \in DOMAIN g[x]
    <3>1. g2[r][i] = g[r][i] /\ g2[x][j] = g[x][j]
      BY <1>2, <2>2
    <3>2. g[r][i].op # "fence" /\ g[x][j].op # "fence" /\ g[r][i].value = g[x][j].value
      BY <2>1, <3>1
    <3>3. /\ Is(g, r, i, "signal") /\ Is(g, x, j, "signal") => r = x /\ i = j
          /\ Is(g, r, i, "signal") /\ Ordered(g, x, j) => r = x /\ j < i
          /\ Ordered(g, r, i) /\ Ordered(g, x, j) => r = x
      BY <2>2, <3>2, Zenon DEF Timeline
    <3> QED BY <1>5, <2>2, <3>3, Zenon
  <2>3. CASE i \in DOMAIN g[r] /\ x = q /\ j = e
    <3>1. g2[r][i] = g[r][i] /\ g2[x][j] = c /\ g[r][i].value = c.value
      BY <1>1, <1>2, <2>1, <2>3
    <3>2. ~Is(g, r, i, "signal") \/ ~(c.op = "signal" \/ (c.op = "exec" /\ c.value > 0))
      <4>1. Is(g, r, i, "signal") => g[r][i].value <= last
        BY <2>3 DEF Timeline
      <4> QED BY <1>7, <2>3, <3>1, <4>1 DEF Is
    <3>3. Ordered(g, r, i) /\ c.op = "exec" /\ c.value > 0 => r = q
      BY <2>3, <3>1
    <3> QED BY <1>5, <1>6, <2>3, <3>2, <3>3
  <2>4. CASE r = q /\ i = e /\ j \in DOMAIN g[x]
    <3>1. g2[x][j] = g[x][j] /\ g2[r][i] = c /\ g[x][j].value = c.value
      BY <1>1, <1>2, <2>1, <2>4
    <3>2. ~Is(g, x, j, "signal") \/ ~(c.op = "signal" \/ (c.op = "exec" /\ c.value > 0))
      <4>1. Is(g, x, j, "signal") => g[x][j].value <= last
        BY <2>4 DEF Timeline
      <4> QED BY <1>7, <2>4, <3>1, <4>1 DEF Is
    <3>3. Ordered(g, x, j) /\ (c.op = "signal" \/ (c.op = "exec" /\ c.value > 0)) => x = q
      BY <2>4, <3>1
    <3>4. x = q => j < e
      BY <1>4, <2>4
    <3> QED BY <1>5, <1>6, <2>4, <3>2, <3>3, <3>4
  <2>5. CASE r = q /\ i = e /\ x = q /\ j = e
    BY <1>6, <2>5
  <2> QED BY <1>1, <2>2, <2>3, <2>4, <2>5
<1>10. \A r \in AllQueues : \A i, j \in DOMAIN g2[r] :
       j < i /\ Is(g2, r, j, "wait") /\ Is(g2, r, i, "signal") => g2[r][j].value < g2[r][i].value
  <2>1. SUFFICES ASSUME NEW r \in AllQueues, NEW i \in DOMAIN g2[r], NEW j \in DOMAIN g2[r],
               j < i, Is(g2, r, j, "wait"), Is(g2, r, i, "signal")
        PROVE  g2[r][j].value < g2[r][i].value
    OBVIOUS
  <2>2. j \in DOMAIN g[r]
    <3>1. SUFFICES ASSUME r = q, j = e PROVE FALSE
      BY <1>1
    <3>2. i \in DOMAIN g[q] \/ i = e
      BY <1>1, <3>1
    <3> QED BY <1>4, <2>1, <3>1, <3>2
  <2>3. g2[r][j] = g[r][j] /\ Is(g, r, j, "wait")
    BY <1>2, <1>5, <2>1, <2>2
  <2>4. CASE i \in DOMAIN g[r]
    <3>1. g2[r][i] = g[r][i] /\ Is(g, r, i, "signal")
      BY <1>2, <1>5, <2>1, <2>4
    <3> QED BY <2>1, <2>2, <2>3, <2>4, <3>1 DEF Timeline
  <2>5. CASE r = q /\ i = e
    <3>1. g[r][j].value <= last /\ g[r][j].value \in Nat
      BY <1>7, <2>2, <2>3 DEF Timeline, Is
    <3>2. g2[r][i] = c /\ last < c.value /\ c.value \in Nat
      BY <1>1, <1>6, <1>7, <2>1, <2>5
    <3> QED BY <2>3, <3>1, <3>2
  <2> QED BY <1>1, <2>4, <2>5
<1>11. \A v \in done + 1..last2 : \E r \in AllQueues : \E i \in DOMAIN g2[r] :
       Is(g2, r, i, "signal") /\ g2[r][i].value = v
  <2>1. SUFFICES ASSUME NEW v \in done + 1..last2
        PROVE  \E r \in AllQueues : \E i \in DOMAIN g2[r] : Is(g2, r, i, "signal") /\ g2[r][i].value = v
    OBVIOUS
  <2>2. CASE v <= last
    <3>1. PICK r \in AllQueues : \E i \in DOMAIN g[r] : Is(g, r, i, "signal") /\ g[r][i].value = v
      BY <2>2 DEF Timeline
    <3>2. PICK i \in DOMAIN g[r] : Is(g, r, i, "signal") /\ g[r][i].value = v
      BY <3>1
    <3> QED BY <1>2, <1>5, <3>2
  <2>3. CASE v > last
    <3>1. c.op = "signal" /\ c.value = v
      BY <2>3
    <3> QED BY <1>1, <1>6, <3>1
  <2>4. v <= last \/ v > last
    OBVIOUS
  <2> QED BY <2>2, <2>3, <2>4, Zenon
<1>12. done <= last2
  BY DEF Timeline
<1> QED BY <1>1, <1>8, <1>9, <1>10, <1>11, <1>12, Zenon DEF Timeline

(* What a command must satisfy for the packets it writes and reads.        *)
MayWrite(c, pk, tr, ls, pub, def) ==
  \A w \in c.writes :
    /\ pk[w[1]].assigned /\ pk[w[1]].token = w[2]
    /\ \/ pk[w[1]].quarantined
       \/ c.value = 0 /\ Doomed(w[1], pk, ls, pub, def)
       \/ c.value > 0 /\ InFlight(tr, w[1]) /\ c.value = tr.value
MayRead(c, pk, th) ==
  \A r \in c.reads :
    /\ c.value > 0 /\ pk[r[1]].assigned /\ pk[r[1]].token = r[2]
    /\ \/ pk[r[1]].quarantined
       \/ /\ pk[r[1]].leased /\ r[1] \in th[Service].frames
          /\ th[Service].pc \in Reading /\ c.value = th[Service].value
MayOutput(c, pub, def, failed) ==
  /\ c.output = "write" => c.value > 0
  /\ c.output = "read" /\ c.value = 0 =>
       failed \/ def.uncertain \/ \E l \in Lists : pub[l].escaped /\ pub[l].consumer

(* One command more, which writes, reads and outputs only what it may.     *)
LEMMA WorkGrows ==
  ASSUME NEW g \in AllWork, NEW q \in AllQueues, NEW c \in Commands, NEW g2, g2 = Appended(g, q, c), c.op # "fence",
         NEW done, NEW last, NEW pk \in AllPackets, NEW tr, NEW th, NEW ls, NEW pub, NEW def, NEW failed,
         FencesFit(g, done, last, pk), WritesFit(g, pk, tr, ls, pub, def), ReadsFit(g, pk, th),
         OutputsFit(g, pub, def, failed),
         c.op = "exec" => /\ MayWrite(c, pk, tr, ls, pub, def) /\ MayRead(c, pk, th)
                          /\ MayOutput(c, pub, def, failed)
  PROVE  /\ FencesFit(g2, done, last, pk) /\ WritesFit(g2, pk, tr, ls, pub, def) /\ ReadsFit(g2, pk, th)
         /\ OutputsFit(g2, pub, def, failed)
<1> DEFINE e == End(g, q)
<1>1. /\ Longer(g, g2) /\ g2 \in AllWork
      /\ \A r \in AllQueues : \A i \in DOMAIN g2[r] : i \in DOMAIN g[r] \/ (r = q /\ i = e)
      /\ e \in DOMAIN g2[q] /\ g2[q][e] = c
  <2>1. /\ Longer(g, g2)
        /\ \A r \in AllQueues : \A i \in DOMAIN g2[r] : i \in DOMAIN g[r] \/ (r = q /\ i = End(g, q))
        /\ End(g, q) \in DOMAIN g2[q] /\ g2[q][End(g, q)] = c
    BY OneMore
  <2> QED BY <2>1 DEF Longer
<1>2. \A r \in AllQueues : \A i \in DOMAIN g[r] : i \in DOMAIN g2[r] /\ g2[r][i] = g[r][i]
  BY <1>1 DEF Longer
<1>3. \A i \in DOMAIN g[q] : i < e /\ i \in Nat /\ e \in Nat
  BY Standing DEF End
<1> HIDE DEF e
<1>4. \A r \in AllQueues : \A i \in DOMAIN g2[r] :
        /\ Is(g2, r, i, "fence") => i \in DOMAIN g[r] /\ g2[r][i] = g[r][i] /\ Is(g, r, i, "fence")
        /\ Is(g2, r, i, "exec") => \/ i \in DOMAIN g[r] /\ g2[r][i] = g[r][i] /\ Is(g, r, i, "exec")
                                   \/ r = q /\ i = e /\ c.op = "exec" /\ g2[r][i] = c
  BY <1>1, <1>2 DEF Is
<1>5. FencesFit(g2, done, last, pk)
  <2>1. ASSUME NEW r \in AllQueues, NEW i \in DOMAIN g2[r], Is(g2, r, i, "fence"),
               NEW p \in g2[r][i].packets, ~pk[p].quarantined
        PROVE  /\ pk[p].assigned /\ pk[p].gpu = "retiring" /\ r = pk[p].producer
               /\ Passed(g2, done, r, i, pk[p].order[1] - 1)
    <3>1. i \in DOMAIN g[r] /\ g2[r][i] = g[r][i] /\ Is(g, r, i, "fence")
      BY <1>4, <2>1
    <3>2. /\ pk[p].assigned /\ pk[p].gpu = "retiring" /\ r = pk[p].producer
          /\ Passed(g, done, r, i, pk[p].order[1] - 1)
      BY <2>1, <3>1 DEF FencesFit
    <3>3. Passed(g2, done, r, i, pk[p].order[1] - 1)
      BY <1>1, <3>2, PassedGrows
    <3> QED BY <3>2, <3>3
  <2>2. ASSUME NEW p \in Packets, pk[p].assigned, ~pk[p].quarantined
        PROVE  /\ pk[p].gpu \in {"retiring", "ready", "consuming"} => pk[p].submitted
               /\ pk[p].submitted => /\ pk[p].order[1] \in 1..last
                                     /\ Passed(g2, done, pk[p].producer, End(g2, pk[p].producer), pk[p].order[1] - 1)
    <3>1. pk[p].producer \in AllQueues
      BY DEF AllPackets, Records
    <3>2. Passed(g, done, pk[p].producer, End(g, pk[p].producer), pk[p].order[1] - 1)
            => Passed(g2, done, pk[p].producer, End(g2, pk[p].producer), pk[p].order[1] - 1)
      BY <1>1, <3>1, PassedGrows
    <3> QED BY <2>2, <3>2 DEF FencesFit
  <2> QED BY <2>1, <2>2, Zenon DEF FencesFit
<1>6. WritesFit(g2, pk, tr, ls, pub, def)
  <2>1. SUFFICES ASSUME NEW r \in AllQueues, NEW i \in DOMAIN g2[r], Is(g2, r, i, "exec"), NEW w \in g2[r][i].writes
        PROVE  /\ pk[w[1]].assigned /\ pk[w[1]].token = w[2]
               /\ \/ pk[w[1]].quarantined
                  \/ g2[r][i].value = 0 /\ Doomed(w[1], pk, ls, pub, def)
                  \/ g2[r][i].value > 0 /\ InFlight(tr, w[1]) /\ g2[r][i].value = tr.value
                  \/ g2[r][i].value > 0 /\ Received(g2, pk, r, i, w[1])
    BY Zenon DEF WritesFit
  <2>2. CASE i \in DOMAIN g[r] /\ g2[r][i] = g[r][i] /\ Is(g, r, i, "exec")
    <3>1. /\ pk[w[1]].assigned /\ pk[w[1]].token = w[2]
          /\ \/ pk[w[1]].quarantined
             \/ g2[r][i].value = 0 /\ Doomed(w[1], pk, ls, pub, def)
             \/ g2[r][i].value > 0 /\ InFlight(tr, w[1]) /\ g2[r][i].value = tr.value
             \/ g2[r][i].value > 0 /\ Received(g, pk, r, i, w[1])
      BY <2>1, <2>2 DEF WritesFit
    <3>2. ASSUME Received(g, pk, r, i, w[1]) PROVE Received(g2, pk, r, i, w[1])
      <4>1. Behind(g2, pk, r, i, w[1])
        <5>1. CASE pk[w[1]].gpu = "recorded"
          BY <5>1 DEF Behind
        <5>2. CASE pk[w[1]].gpu # "recorded"
          <6>1. /\ pk[w[1]].gpu = "retiring"
                /\ \E x \in AllQueues : \E j \in DOMAIN g[x] : Is(g, x, j, "fence") /\ w[1] \in g[x][j].packets
                /\ \A j \in DOMAIN g[r] : j < i /\ Is(g, r, j, "fence") => w[1] \notin g[r][j].packets
            BY <3>2, <5>2 DEF Received, Behind
          <6>2. \E x \in AllQueues : \E j \in DOMAIN g2[x] : Is(g2, x, j, "fence") /\ w[1] \in g2[x][j].packets
            BY <1>2, <6>1 DEF Is
          <6>3. \A j \in DOMAIN g2[r] : j < i /\ Is(g2, r, j, "fence") => w[1] \notin g2[r][j].packets
            BY <1>4, <6>1
          <6> QED BY <6>1, <6>2, <6>3 DEF Behind
        <5> QED BY <5>1, <5>2
      <4> QED BY <2>2, <3>2, <4>1 DEF Received
    <3> QED BY <3>1, <3>2
  <2>3. CASE r = q /\ i = e /\ c.op = "exec" /\ g2[r][i] = c
    BY <2>1, <2>3 DEF MayWrite
  <2> QED BY <1>4, <2>1, <2>2, <2>3
<1>7. ReadsFit(g2, pk, th)
  <2>1. SUFFICES ASSUME NEW r \in AllQueues, NEW i \in DOMAIN g2[r], Is(g2, r, i, "exec"), NEW x \in g2[r][i].reads
        PROVE  /\ g2[r][i].value > 0 /\ pk[x[1]].assigned /\ pk[x[1]].token = x[2]
               /\ \/ pk[x[1]].quarantined
                  \/ /\ pk[x[1]].leased /\ x[1] \in th[Service].frames
                     /\ th[Service].pc \in Reading /\ g2[r][i].value = th[Service].value
                  \/ pk[x[1]].gpu = "consuming" /\ pk[x[1]].consumer_value >= g2[r][i].value
    BY Zenon DEF ReadsFit
  <2> QED BY <1>4, <2>1 DEF ReadsFit, MayRead
<1>8. OutputsFit(g2, pub, def, failed)
  BY <1>4 DEF OutputsFit, MayOutput
<1> QED BY <1>5, <1>6, <1>7, <1>8

(* An execution is appended: of the receipt under way, or of no receipt.   *)
LEMMA ExecKeeps ==
  ASSUME NEW dev \in Devices, NEW ls \in AllLists, NEW pub, NEW def, NEW pk \in AllPackets, NEW tr \in Receipts,
         NEW th \in AllSubmissions, NEW g \in AllWork, NEW done \in Nat, NEW nat,
         Fits(dev, ls, pub, def, pk, tr, th, g, done, nat),
         NEW q \in AllQueues, NEW c \in Commands, c.op = "exec",
         c.value > 0 => tr # NoOne /\ c.value = tr.value /\ q = tr.queue,
         MayWrite(c, pk, tr, ls, pub, def), MayRead(c, pk, th), MayOutput(c, pub, def, dev.failed)
  PROVE  Fits(dev, ls, pub, def, pk, tr, th, Appended(g, q, c), done, nat) /\ Appended(g, q, c) \in AllWork
<1> DEFINE g2 == Appended(g, q, c)
           last == dev.last_signal
<1>1. /\ Timeline(g, done, last, tr, dev.failed) /\ FencesFit(g, done, last, pk)
      /\ WritesFit(g, pk, tr, ls, pub, def) /\ ReadsFit(g, pk, th)
      /\ OutputsFit(g, pub, def, dev.failed)
  BY Zenon DEF Fits
<1>2. last \in Nat /\ c.value \in Nat
  BY ManagerAssumption, Kinds DEF Devices
<1>3. /\ Longer(g, g2) /\ g2 \in AllWork
      /\ \A r \in AllQueues : \A i \in DOMAIN g2[r] : i \in DOMAIN g[r] \/ (r = q /\ i = End(g, q))
      /\ End(g, q) \in DOMAIN g2[q] /\ g2[q][End(g, q)] = c
  <2>1. /\ Longer(g, g2)
        /\ \A r \in AllQueues : \A i \in DOMAIN g2[r] : i \in DOMAIN g[r] \/ (r = q /\ i = End(g, q))
        /\ End(g, q) \in DOMAIN g2[q] /\ g2[q][End(g, q)] = c
    BY OneMore
  <2> QED BY <2>1 DEF Longer
<1>4. g2 = Appended(g, q, c)
  OBVIOUS
<1> HIDE DEF g2, last
<1>5. /\ FencesFit(g2, done, last, pk) /\ WritesFit(g2, pk, tr, ls, pub, def) /\ ReadsFit(g2, pk, th)
      /\ OutputsFit(g2, pub, def, dev.failed)
  BY <1>1, <1>4, WorkGrows
<1>6. Timeline(g2, done, last, tr, dev.failed)
  <2>1. CASE c.value = 0
    <3>1. \A r \in AllQueues : \A i \in DOMAIN g2[r] :
            i \in DOMAIN g[r] \/ Is(g2, r, i, "fence") \/ (Is(g2, r, i, "exec") /\ g2[r][i].value = 0)
      BY <1>3, <2>1 DEF Is
    <3> QED BY <1>1, <1>2, <1>3, <3>1, TimelineGrows
  <2>2. CASE c.value > 0
    <3>1. tr # NoOne /\ c.value = tr.value /\ q = tr.queue
      BY <2>2
    <3>2. /\ tr.value = last + 1 /\ Passed(g, done, tr.queue, End(g, tr.queue), last) /\ done <= last
          /\ \A r \in AllQueues : \A j \in DOMAIN g[r] : Ordered(g, r, j) /\ g[r][j].value = last + 1 => r = tr.queue
      BY <1>1, <3>1 DEF Timeline
    <3>3. /\ done < c.value /\ c.value <= last + 1 /\ last < c.value /\ c.value - 1 = last
          /\ Passed(g, done, q, End(g, q), c.value - 1)
      BY <1>2, <3>1, <3>2
    <3>4. Passed(g2, done, tr.queue, End(g2, tr.queue), last)
      BY <1>3, <3>1, <3>2, PassedGrows
    <3>5. \A v \in last + 1..last : c.op = "signal" /\ c.value = v
      BY <1>2
    <3>6. /\ ~(c.op = "wait") /\ ~(c.op = "signal") /\ last <= last /\ tr # NoOne /\ tr.value = last + 1
          /\ c.value = last + 1 => IF tr = NoOne THEN dev.failed ELSE q = tr.queue
          /\ \A r \in AllQueues : \A j \in DOMAIN g[r] : Ordered(g, r, j) /\ g[r][j].value = c.value => r = q
          /\ \A r \in AllQueues : \A j \in DOMAIN g[r] :
               Ordered(g, r, j) /\ g[r][j].value = last + 1 => IF tr = NoOne THEN dev.failed ELSE r = tr.queue
      BY <1>2, <3>1, <3>2
    <3> QED BY <1>1, <1>2, <1>4, <3>3, <3>4, <3>5, <3>6, TimelineMore
  <2> QED BY <1>2, <2>1, <2>2
<1>7. /\ LeasesFit(pk, th, tr) /\ FlightFits(pk, th, tr)
      /\ ListsFit(ls, nat, pub, pk) /\ EscapesFit(th, ls, pub, pk, def, dev.failed, tr)
  BY Zenon DEF Fits
<1> QED BY <1>3, <1>5, <1>6, <1>7 DEF Fits, g2, last
-----------------------------------------------------------------------------
(* What a native Execute puts on the queue.                                *)
LEMMA ExecIs ==
  ASSUME IInv, NEW t \in Threads, NEW v \in 0..MaximumSignal
  PROVE  LET b == thread[t].batch
             c == Exec(b, v)
         IN /\ c \in Commands /\ c.op = "exec" /\ c.value = v /\ c.reads = {} /\ c.output # "write"
            /\ c.output = "read" => \E k \in DOMAIN b : lists[b[k]].consumer
            /\ \A w \in c.writes : /\ packets[w[1]].assigned /\ packets[w[1]].token = w[2]
                                   /\ \E k \in DOMAIN b : w[1] \in lists[b[k]].packets
<1> DEFINE b == thread[t].batch
           c == Exec(b, v)
           W == UNION {{<<w[1], w[2], i>> : w \in native[b[i]].writes} : i \in DOMAIN b}
           out == IF \E l \in Range(b) : native[l].reads_output THEN "read" ELSE "none"
<1>1. /\ b \in Seq(Lists) /\ native \in AllNatives /\ lists \in AllLists
      /\ \A k \in DOMAIN b : b[k] \in Lists
  <2>1. thread[t] \in Submissions /\ native \in AllNatives /\ lists \in AllLists
    BY DEF IInv, Types, AllSubmissions, AllThreads
  <2>2. b \in Seq(Lists)
    BY <2>1 DEF Submissions
  <2> QED BY <2>1, <2>2
<1>2. ListsFit(lists, native, published, packets)
  BY Zenon DEF IInv, Fits
<1> HIDE DEF b
<1>3. ASSUME NEW w \in W
      PROVE  /\ w \in Packets \X (0..MaximumToken) \X Nat /\ w[3] <= Len(b)
             /\ packets[w[1]].assigned /\ packets[w[1]].token = w[2]
             /\ \E k \in DOMAIN b : w[1] \in lists[b[k]].packets
  <2>1. PICK i \in DOMAIN b : w \in {<<x[1], x[2], i>> : x \in native[b[i]].writes}
    OBVIOUS
  <2>2. PICK x \in native[b[i]].writes : w = <<x[1], x[2], i>>
    BY <2>1
  <2>3. b[i] \in Lists /\ i \in Nat /\ i <= Len(b) /\ Len(b) \in Nat
    BY <1>1
  <2>4. x \in Packets \X (0..MaximumToken)
    BY <1>1, <2>3 DEF AllNatives, Natives
  <2>5. x \in {<<p, packets[p].token>> : p \in lists[b[i]].packets}
    BY <1>2, <2>2, <2>3 DEF ListsFit
  <2>6. PICK p \in lists[b[i]].packets : x = <<p, packets[p].token>>
    BY <2>5
  <2>7. x[1] = p /\ x[2] = packets[p].token
    BY <2>6
  <2>8. w[1] = p /\ w[2] = packets[p].token /\ w[3] = i
    BY <2>2, <2>7
  <2>9. packets[p].assigned
    BY <1>2, <2>3, <2>6 DEF ListsFit
  <2>10. w \in Packets \X (0..MaximumToken) \X Nat
    BY <2>2, <2>3, <2>4
  <2> QED BY <2>3, <2>8, <2>9, <2>10, <2>6
<1>4. out \in {"none", "read"} /\ (out = "read" => \E k \in DOMAIN b : lists[b[k]].consumer)
  <2>1. ASSUME NEW l \in Range(b), native[l].reads_output PROVE \E k \in DOMAIN b : lists[b[k]].consumer
    <3>1. PICK k \in DOMAIN b : l = b[k]
      BY DEF Range
    <3>2. native[b[k]].reads_output = lists[b[k]].consumer
      BY <1>1, <1>2 DEF ListsFit
    <3> QED BY <2>1, <3>1, <3>2
  <2> QED BY <2>1
<1>5. c = [op |-> "exec", value |-> v, writes |-> W, reads |-> {}, output |-> out]
  BY Zenon DEF Exec
<1> HIDE DEF c, W, out
<1>6. /\ c.op = "exec" /\ c.value = v /\ c.reads = {} /\ c.output = out /\ c.writes = W
  BY <1>5
<1>7. c \in Commands
  <2>1. W \in SUBSET (Packets \X (0..MaximumToken) \X Nat)
    BY <1>3
  <2>2. c \in [op : {"exec"}, value : 0..MaximumSignal,
                   writes : SUBSET (Packets \X (0..MaximumToken) \X Nat), reads : SUBSET (Packets \X (0..MaximumToken)),
                   output : {"none", "read", "write"}]
    BY <1>4, <1>5, <2>1
  <2>3. Len(b) \in Nat /\ \A w \in c.writes : w[3] <= Len(b)
    BY <1>1, <1>3, <1>6
  <2>4. c \in Execs
    BY <2>2, <2>3 DEF Execs
  <2> QED BY <2>4 DEF Commands
<1> QED BY <1>3, <1>4, <1>6, <1>7 DEF b, c

(* A native Execute queues one command or none.                            *)
LEMMA EnqueuedIs ==
  ASSUME NEW q, NEW c
  PROVE  Enqueued(q, c) = gpu \/ Enqueued(q, c) = Appended(gpu, q, c)
BY DEF Enqueued, Appended

(* A batch that escaped or had nothing to order executes.                  *)
LEMMA ForwardUnorderedKeeps ==
  ASSUME IInv, NEW t \in Threads, forward_unordered(t)
  PROVE  IInv'
<1> DEFINE b == thread[t].batch
           c == Exec(b, 0)
           q == thread[t].queue
<1>1. /\ thread[t].pc \in {"bypass", "escape"} /\ gpu' = Enqueued(q, c) /\ Return(t)
      /\ UNCHANGED <<device, lists, published, deferred, packets, next_token, transaction, completed, native, content>>
  BY Zenon DEF forward_unordered
<1>2. Types /\ Unretired(lists, packets)
      /\ Fits(device, lists, published, deferred, packets, transaction, thread, gpu, completed, native)
  BY DEF IInv
<1>3. /\ device \in Devices /\ lists \in AllLists /\ packets \in AllPackets /\ thread \in AllSubmissions
      /\ gpu \in AllWork /\ transaction \in Receipts /\ completed \in Nat
  BY <1>2, ManagerAssumption DEF Types
<1>4. /\ thread[t] \in Submissions /\ \A k \in DOMAIN b : b[k] \in Lists
      /\ \A l \in Lists : published[l].packets = lists[l].packets /\ published[l].consumer = lists[l].consumer
      /\ EscapesFit(thread, lists, published, packets, deferred, device.failed, transaction)
  BY ThreadIs
<1>5. q \in AllQueues
  BY <1>4 DEF Submissions
<1>6. /\ c \in Commands /\ c.op = "exec" /\ c.value = 0 /\ c.reads = {} /\ c.output # "write"
      /\ c.output = "read" => \E k \in DOMAIN b : lists[b[k]].consumer
      /\ \A w \in c.writes : /\ packets[w[1]].assigned /\ packets[w[1]].token = w[2]
                             /\ \E k \in DOMAIN b : w[1] \in lists[b[k]].packets
  BY ExecIs, ManagerAssumption
<1>7. \A k \in DOMAIN b :
        /\ \A p \in lists[b[k]].packets : packets[p].quarantined \/ Doomed(p, packets, lists, published, deferred)
        /\ lists[b[k]].consumer => device.failed \/ deferred.uncertain \/ (published[b[k]].escaped /\ published[b[k]].consumer)
  <2>1. ASSUME NEW k \in DOMAIN b
        PROVE  /\ \A p \in lists[b[k]].packets : packets[p].quarantined \/ Doomed(p, packets, lists, published, deferred)
               /\ lists[b[k]].consumer => device.failed \/ deferred.uncertain \/ (published[b[k]].escaped /\ published[b[k]].consumer)
    <3>1. EscapeFits(thread[t], b[k], lists, published, packets, deferred, device.failed, transaction)
      BY <1>4 DEF EscapesFit
    <3>2. b[k] \in Lists
      BY <1>4
    <3> QED BY <1>1, <1>4, <3>1, <3>2 DEF EscapeFits
  <2> QED BY <2>1
<1> HIDE DEF c, b
<1>8. MayWrite(c, packets, transaction, lists, published, deferred)
  <2>1. \A w \in c.writes : packets[w[1]].quarantined \/ Doomed(w[1], packets, lists, published, deferred)
    BY <1>6, <1>7
  <2> QED BY <1>6, <2>1 DEF MayWrite
<1>9. MayRead(c, packets, thread)
  BY <1>6 DEF MayRead
<1>10. MayOutput(c, published, deferred, device.failed)
  BY <1>4, <1>6, <1>7 DEF MayOutput
<1> HIDE DEF q
<1>11. /\ Fits(device, lists, published, deferred, packets, transaction, thread, gpu', completed, native)
       /\ gpu' \in AllWork
  <2>1. CASE gpu' = gpu
    BY <1>2, <1>3, <2>1
  <2>2. CASE gpu' = Appended(gpu, q, c)
    BY <1>2, <1>3, <1>5, <1>6, <1>8, <1>9, <1>10, <2>2, ExecKeeps
  <2> QED BY <1>1, <2>1, <2>2, EnqueuedIs
<1>12. thread' = [thread EXCEPT ![t] = Idle]
  BY <1>1 DEF Return
<1>13. Idle \in Submissions /\ Idle.pc \notin InReceipt /\ thread[t].pc \notin InReceipt /\ DOMAIN Idle.batch = {}
  BY <1>1 DEF Idle, Submissions, AllQueues, InReceipt
<1> HIDE DEF Idle
<1>14. /\ Fits(device, lists, published, deferred, packets, transaction, thread', gpu', completed, native)
       /\ thread' \in AllSubmissions
  BY <1>3, <1>11, <1>12, <1>13, ThreadKeeps
<1>15. Types'
  BY <1>1, <1>2, <1>11, <1>14 DEF Types
<1> QED BY <1>1, <1>2, <1>14, <1>15 DEF IInv
-----------------------------------------------------------------------------
(* The thread of the receipt moves on inside it.                           *)
LEMMA InsideKeeps ==
  ASSUME NEW dev, NEW ls, NEW pub, NEW def, NEW pk, NEW tr \in Receipts, NEW th \in AllSubmissions, NEW g, NEW done, NEW nat,
         Fits(dev, ls, pub, def, pk, tr, th, g, done, nat),
         NEW t \in AllThreads, NEW s \in Submissions, th[t].pc \in InReceipt, s.pc \in {"after", "finish"},
         s.queue = th[t].queue, s.frames = th[t].frames, s.value = th[t].value
  PROVE  /\ Fits(dev, ls, pub, def, pk, tr, [th EXCEPT ![t] = s], g, done, nat)
         /\ [th EXCEPT ![t] = s] \in AllSubmissions
<1> DEFINE th2 == [th EXCEPT ![t] = s]
<1>1. /\ ReadsFit(g, pk, th) /\ LeasesFit(pk, th, tr) /\ FlightFits(pk, th, tr)
      /\ EscapesFit(th, ls, pub, pk, def, dev.failed, tr)
  BY Zenon DEF Fits
<1>2. Service \in AllThreads /\ Threads \subseteq AllThreads
  BY DEF AllThreads
<1>3. th2 \in AllSubmissions /\ th2[t] = s /\ \A u \in AllThreads : u # t => th2[u] = th[u]
  BY DEF AllSubmissions
<1> HIDE DEF th2
<1>4. /\ th2[Service].frames = th[Service].frames /\ th2[Service].value = th[Service].value
      /\ th2[Service].queue = th[Service].queue
      /\ th[Service].pc \in Reading => th2[Service].pc \in Reading
      /\ th2[Service].pc = "idle" => th[Service].pc = "idle"
      /\ th2[Service].pc \in InReceipt => th[Service].pc \in InReceipt
      /\ th2[Service].pc \in Reading \/ th2[Service].pc = th[Service].pc
      /\ th2[Service].pc = "consume" => th[Service].pc = "consume"
  BY <1>2, <1>3 DEF Reading, InReceipt
<1>5. ReadsFit(g, pk, th2)
  BY <1>1, <1>4 DEF ReadsFit
<1>6. LeasesFit(pk, th2, tr)
  BY <1>1, <1>4 DEF LeasesFit, InReceipt
<1>7. FlightFits(pk, th2, tr)
  <2>1. \A u \in AllThreads : th2[u].pc \in InReceipt => tr # NoOne /\ tr.by = u
    BY <1>1, <1>3 DEF FlightFits
  <2>2. tr # NoOne => th2[tr.by].pc \in InReceipt /\ th2[tr.by].queue = tr.queue
    <3>1. SUFFICES ASSUME tr # NoOne PROVE th2[tr.by].pc \in InReceipt /\ th2[tr.by].queue = tr.queue
      OBVIOUS
    <3>2. th[tr.by].pc \in InReceipt /\ th[tr.by].queue = tr.queue
      BY <1>1, <3>1 DEF FlightFits
    <3>3. th2[tr.by].pc \in InReceipt /\ th2[tr.by].queue = th[tr.by].queue
      <4>1. tr.by \in AllThreads
        BY <3>1 DEF Receipts, Transactions
      <4> QED BY <1>3, <3>2, <4>1 DEF InReceipt
    <3> QED BY <3>2, <3>3
  <2> QED BY <1>1, <2>1, <2>2, Zenon DEF FlightFits
<1>8. EscapesFit(th2, ls, pub, pk, def, dev.failed, tr)
  <2>1. ASSUME NEW u \in Threads, NEW k \in DOMAIN th2[u].batch
        PROVE  EscapeFits(th2[u], th2[u].batch[k], ls, pub, pk, def, dev.failed, tr)
    <3>1. CASE u = t
      BY <1>3, <3>1 DEF EscapeFits
    <3>2. CASE u # t
      <4>1. th2[u] = th[u]
        BY <1>2, <1>3, <3>2
      <4> QED BY <1>1, <2>1, <4>1 DEF EscapesFit
    <3> QED BY <3>1, <3>2
  <2> QED BY <2>1 DEF EscapesFit
<1> QED BY <1>3, <1>5, <1>6, <1>7, <1>8 DEF Fits, th2

(* The receipt of the thread inside it.                                    *)
LEMMA ReceiptIs ==
  ASSUME IInv, NEW t \in AllThreads, thread[t].pc \in InReceipt
  PROVE  /\ transaction # NoOne /\ transaction \in Transactions /\ transaction.by = t
         /\ transaction.queue = thread[t].queue /\ transaction.value = device.last_signal + 1
         /\ transaction.value \in 1..MaximumSignal /\ transaction.queue \in AllQueues
         /\ thread[t] \in Submissions
<1>1. /\ FlightFits(packets, thread, transaction)
      /\ Timeline(gpu, completed, device.last_signal, transaction, device.failed)
  BY Zenon DEF IInv, Fits
<1>2. transaction # NoOne /\ transaction.by = t /\ thread[t].queue = transaction.queue
  BY <1>1 DEF FlightFits
<1>3. transaction \in Transactions /\ thread[t] \in Submissions
  BY <1>2 DEF IInv, Types, Receipts, AllSubmissions
<1>4. transaction.value = device.last_signal + 1
  BY <1>1, <1>2 DEF Timeline
<1> QED BY <1>2, <1>3, <1>4 DEF Transactions

(* forward, inside a receipt.                                              *)
LEMMA ForwardKeeps ==
  ASSUME IInv, NEW t \in Threads, NEW nested \in BOOLEAN, forward(t, nested)
  PROVE  IInv'
<1> DEFINE b == thread[t].batch
           c == Exec(b, transaction.value)
           q == thread[t].queue
           s == [thread[t] EXCEPT !.pc = "after", !.nested = nested]
<1>1. /\ thread[t].pc = "forward" /\ gpu' = Enqueued(q, c)
      /\ thread' = [thread EXCEPT ![t].pc = "after", ![t].nested = nested]
      /\ UNCHANGED <<device, lists, published, deferred, packets, next_token, transaction, completed, native, content>>
  BY Zenon DEF forward
<1>2. Types /\ Unretired(lists, packets)
      /\ Fits(device, lists, published, deferred, packets, transaction, thread, gpu, completed, native)
  BY DEF IInv
<1>3. /\ device \in Devices /\ lists \in AllLists /\ packets \in AllPackets /\ thread \in AllSubmissions
      /\ gpu \in AllWork /\ transaction \in Receipts /\ completed \in Nat
  BY <1>2, ManagerAssumption DEF Types
<1>4. /\ thread[t] \in Submissions /\ \A k \in DOMAIN b : b[k] \in Lists
      /\ EscapesFit(thread, lists, published, packets, deferred, device.failed, transaction)
      /\ t \in AllThreads
  BY ThreadIs
<1>5. /\ transaction # NoOne /\ q = transaction.queue /\ q \in AllQueues /\ transaction.value \in 1..MaximumSignal
  BY <1>1, <1>4, ReceiptIs DEF InReceipt
<1>6. /\ c \in Commands /\ c.op = "exec" /\ c.value = transaction.value /\ c.reads = {} /\ c.output # "write"
      /\ \A w \in c.writes : /\ packets[w[1]].assigned /\ packets[w[1]].token = w[2]
                             /\ \E k \in DOMAIN b : w[1] \in lists[b[k]].packets
  <2>1. transaction.value \in 0..MaximumSignal
    BY <1>5, ManagerAssumption
  <2> QED BY <2>1, ExecIs
<1>7. \A k \in DOMAIN b : lists[b[k]].packets \subseteq transaction.packets
  <2>1. ASSUME NEW k \in DOMAIN b
        PROVE  lists[b[k]].packets \subseteq transaction.packets
    <3>1. EscapeFits(thread[t], b[k], lists, published, packets, deferred, device.failed, transaction)
      BY <1>4 DEF EscapesFit
    <3> QED BY <1>1, <3>1 DEF EscapeFits
  <2> QED BY <2>1
<1>8. c.value > 0
  BY <1>5, <1>6, ManagerAssumption
<1> HIDE DEF c, b
<1>9. MayWrite(c, packets, transaction, lists, published, deferred)
  <2>1. \A w \in c.writes : InFlight(transaction, w[1])
    BY <1>5, <1>6, <1>7 DEF InFlight
  <2> QED BY <1>6, <1>8, <2>1 DEF MayWrite
<1>10. MayRead(c, packets, thread)
  BY <1>6 DEF MayRead
<1>11. MayOutput(c, published, deferred, device.failed)
  BY <1>6, <1>8 DEF MayOutput
<1> HIDE DEF q
<1>12. /\ Fits(device, lists, published, deferred, packets, transaction, thread, gpu', completed, native)
       /\ gpu' \in AllWork
  <2>1. CASE gpu' = gpu
    BY <1>2, <1>3, <2>1
  <2>2. CASE gpu' = Appended(gpu, q, c)
    BY <1>2, <1>3, <1>5, <1>6, <1>9, <1>10, <1>11, <2>2, ExecKeeps
  <2> QED BY <1>1, <2>1, <2>2, EnqueuedIs
<1>13. thread' = [thread EXCEPT ![t] = s]
  BY <1>1, <1>3, <1>4 DEF AllSubmissions
<1>14. /\ s \in Submissions /\ s.pc = "after" /\ thread[t].pc \in InReceipt
       /\ s.queue = thread[t].queue /\ s.frames = thread[t].frames /\ s.value = thread[t].value
  BY <1>1, <1>4 DEF Submissions, InReceipt
<1> HIDE DEF s
<1>15. /\ Fits(device, lists, published, deferred, packets, transaction, thread', gpu', completed, native)
       /\ thread' \in AllSubmissions
  BY <1>3, <1>4, <1>12, <1>13, <1>14, InsideKeeps
<1>16. Types'
  BY <1>1, <1>2, <1>12, <1>15 DEF Types
<1> QED BY <1>1, <1>2, <1>15, <1>16 DEF IInv

(* forward_private.                                                        *)
LEMMA ForwardPrivateKeeps ==
  ASSUME IInv, forward_private
  PROVE  IInv'
<1> DEFINE R == {<<p, packets[p].token>> : p \in thread[Service].frames}
           c == [op |-> "exec", value |-> transaction.value, writes |-> {}, output |-> "write", reads |-> R]
           s == [thread[Service] EXCEPT !.pc = "after"]
           th2 == [thread EXCEPT ![Service] = s]
<1>1. /\ thread[Service].pc = "forward" /\ gpu' = [gpu EXCEPT ![PrivateQueue] = Append(@, c)]
      /\ Step(Service, "after")
      /\ UNCHANGED <<device, lists, published, deferred, packets, next_token, transaction, completed, native, content>>
  BY Zenon DEF forward_private
<1>2. Types /\ Unretired(lists, packets)
      /\ Fits(device, lists, published, deferred, packets, transaction, thread, gpu, completed, native)
  BY DEF IInv
<1>3. /\ device \in Devices /\ lists \in AllLists /\ packets \in AllPackets /\ thread \in AllSubmissions
      /\ gpu \in AllWork /\ transaction \in Receipts /\ completed \in Nat
      /\ Service \in AllThreads /\ PrivateQueue \in AllQueues
  BY <1>2, ManagerAssumption DEF Types, AllThreads, AllQueues
<1>4. LeasesFit(packets, thread, transaction)
  BY <1>2, Zenon DEF Fits
<1>5. /\ transaction # NoOne /\ transaction.queue = PrivateQueue /\ transaction.value \in 1..MaximumSignal
      /\ thread[Service].value = transaction.value /\ thread[Service] \in Submissions
  <2>1. thread[Service].pc \in InReceipt
    BY <1>1 DEF InReceipt
  <2> QED BY <1>1, <1>3, <1>4, <2>1, ReceiptIs DEF LeasesFit
<1>6. thread' = th2 /\ thread[Service].frames \in SUBSET Packets
  BY <1>1, <1>3, <1>5 DEF Step, AllSubmissions, Submissions
<1>7. /\ s \in Submissions /\ s.pc = "after" /\ thread[Service].pc \in InReceipt
      /\ s.queue = thread[Service].queue /\ s.frames = thread[Service].frames /\ s.value = thread[Service].value
  BY <1>1, <1>5 DEF Submissions, InReceipt
<1> HIDE DEF s
<1>8. /\ Fits(device, lists, published, deferred, packets, transaction, th2, gpu, completed, native)
      /\ th2 \in AllSubmissions /\ th2[Service] = s
  <2>1. th2[Service] = s
    BY <1>3 DEF AllSubmissions
  <2> QED BY <1>2, <1>3, <1>7, <2>1, InsideKeeps
<1> HIDE DEF th2
<1>9. c \in Commands
  <2>1. R \in SUBSET (Packets \X (0..MaximumToken))
    <3>1. \A p \in Packets : packets[p].token \in 0..MaximumToken
      BY <1>3 DEF AllPackets, Records
    <3> QED BY <1>6, <3>1
  <2>2. transaction.value \in 0..MaximumSignal
    BY <1>5, ManagerAssumption
  <2> HIDE DEF R
  <2>3. c \in [op : {"exec"}, value : 0..MaximumSignal,
                   writes : SUBSET (Packets \X (0..MaximumToken) \X Nat), reads : SUBSET (Packets \X (0..MaximumToken)),
                   output : {"none", "read", "write"}]
    BY <2>1, <2>2
  <2>4. 0 \in Nat /\ \A w \in c.writes : w[3] <= 0
    OBVIOUS
  <2>5. c \in Execs
    BY <2>3, <2>4 DEF Execs
  <2> QED BY <2>5 DEF Commands
<1>10. /\ c.op = "exec" /\ c.value = transaction.value /\ c.writes = {} /\ c.reads = R /\ c.output = "write"
       /\ c.value > 0
  BY <1>5, ManagerAssumption
<1>11. \A r \in R : r[1] \in thread[Service].frames /\ r[2] = packets[r[1]].token
  OBVIOUS
<1> HIDE DEF c, R
<1>12. MayWrite(c, packets, transaction, lists, published, deferred)
  BY <1>10 DEF MayWrite
<1>13. MayRead(c, packets, th2)
  BY <1>4, <1>5, <1>7, <1>8, <1>10, <1>11 DEF MayRead, LeasesFit, Reading
<1>14. MayOutput(c, published, deferred, device.failed)
  BY <1>10 DEF MayOutput
<1>15. /\ Fits(device, lists, published, deferred, packets, transaction, th2, gpu', completed, native)
       /\ gpu' \in AllWork
  <2>1. gpu' = Appended(gpu, PrivateQueue, c)
    BY <1>1 DEF Appended
  <2>2. c.value > 0 => transaction # NoOne /\ c.value = transaction.value /\ PrivateQueue = transaction.queue
    BY <1>5, <1>10
  <2> QED BY <1>3, <1>8, <1>9, <1>10, <1>12, <1>13, <1>14, <2>1, <2>2, ExecKeeps
<1>16. Types'
  BY <1>1, <1>2, <1>6, <1>8, <1>15 DEF Types
<1> QED BY <1>1, <1>2, <1>6, <1>15, <1>16 DEF IInv
-----------------------------------------------------------------------------
(* A device that fails in a section keeps every part.                      *)
LEMMA FailedKeeps ==
  ASSUME NEW s \in Sections, NEW ls \in AllLists, NEW def, NEW tr, NEW th \in AllSubmissions, NEW g \in AllWork,
         NEW done, NEW nat, Fits(s.dev, ls, s.pub, def, s.pk, tr, th, g, done, nat), Unretired(ls, s.pk)
  PROVE  LET f == Failed(s)
         IN /\ Fits(f.dev, ls, f.pub, def, f.pk, tr, th, g, done, nat) /\ Unretired(ls, f.pk)
            /\ f \in Sections /\ f.pk \in AllPackets /\ f.dev \in Devices /\ f.pub \in AllWords
            /\ f.dev.failed /\ f.dev.last_signal = s.dev.last_signal /\ f.pub = s.pub
            /\ \A l \in Lists : \A p \in ls[l].packets : f.pk[p].quarantined
<1> DEFINE f == Failed(s)
<1>1. s.pk \in AllPackets /\ s.dev \in Devices /\ s.pub \in AllWords
  BY SectionFields
<1>2. /\ f \in Sections /\ OnlyWorse(s.pk, f.pk) /\ f.pub = s.pub
      /\ OnlyFailed(s.dev, f.dev) /\ f.dev.failed
      /\ \A p \in Packets : s.pk[p].assigned => f.pk[p].quarantined
  BY FailedIs
<1> HIDE DEF f
<1>3. f.pk \in AllPackets /\ f.dev \in Devices /\ f.pub \in AllWords /\ f.dev.last_signal = s.dev.last_signal
  BY <1>2, SectionFields DEF OnlyFailed
<1>4. Serves(s.pk, s.pub, def, s.dev.failed, f.pk, f.pub, def, f.dev.failed)
  BY <1>2 DEF Serves, OnlyWorse
<1>5. Fits(f.dev, ls, f.pub, def, f.pk, tr, th, g, done, nat)
  BY <1>1, <1>3, <1>4, ServeKeeps
<1>6. \A l \in Lists : ls[l].packets \in SUBSET Packets
  BY DEF AllLists, Items
<1>7. ListsFit(ls, nat, s.pub, s.pk)
  BY Zenon DEF Fits
<1>8. \A l \in Lists : \A p \in ls[l].packets : f.pk[p].quarantined /\ ~f.pk[p].retired
  BY <1>2, <1>6, <1>7 DEF ListsFit, Unretired, OnlyWorse
<1> QED BY <1>2, <1>3, <1>5, <1>8 DEF Unretired, f

(* A receipt begins: its packets are in flight and its queue waits for the *)
(* receipt before it.                                                      *)
Launched(pk, S) == [p \in Packets |-> IF p \in S THEN [pk[p] EXCEPT !.in_flight = @ + 1] ELSE pk[p]]
Awaited(g, q, last) == IF last = 0 THEN g ELSE Appended(g, q, [op |-> "wait", value |-> last])

(* What begin_transaction makes of each packet.                            *)
LEMMA LaunchedIs ==
  ASSUME NEW pk \in AllPackets, NEW S, \A p \in Packets : pk[p].in_flight = 0
  PROVE  /\ Launched(pk, S) \in AllPackets
         /\ \A p \in Packets :
              LET r == Launched(pk, S)[p]
              IN /\ r.gpu = pk[p].gpu /\ r.assigned = pk[p].assigned /\ r.retired = pk[p].retired
                 /\ r.quarantined = pk[p].quarantined /\ r.leased = pk[p].leased /\ r.submitted = pk[p].submitted
                 /\ r.producer = pk[p].producer /\ r.order = pk[p].order /\ r.token = pk[p].token
                 /\ r.consumer_value = pk[p].consumer_value /\ r.in_flight = IF p \in S THEN 1 ELSE 0
<1> DEFINE pk2 == Launched(pk, S)
<1>1. ASSUME NEW p \in Packets
      PROVE  /\ pk2[p] \in Records
             /\ pk2[p].gpu = pk[p].gpu /\ pk2[p].assigned = pk[p].assigned /\ pk2[p].retired = pk[p].retired
             /\ pk2[p].quarantined = pk[p].quarantined /\ pk2[p].leased = pk[p].leased
             /\ pk2[p].submitted = pk[p].submitted /\ pk2[p].producer = pk[p].producer
             /\ pk2[p].order = pk[p].order /\ pk2[p].token = pk[p].token
             /\ pk2[p].consumer_value = pk[p].consumer_value /\ pk2[p].in_flight = IF p \in S THEN 1 ELSE 0
  <2>1. pk[p] \in Records /\ pk2[p] = IF p \in S THEN [pk[p] EXCEPT !.in_flight = pk[p].in_flight + 1] ELSE pk[p]
    BY DEF AllPackets, Launched
  <2>2. pk[p].in_flight + 1 = 1
    OBVIOUS
  <2> HIDE DEF pk2
  <2>3. CASE p \in S
    <3>1. pk2[p] = [pk[p] EXCEPT !.in_flight = 1]
      BY <2>1, <2>2, <2>3
    <3>2. pk2[p] \in Records
      BY <2>1, <3>1 DEF Records
    <3>3. /\ pk2[p].gpu = pk[p].gpu /\ pk2[p].assigned = pk[p].assigned /\ pk2[p].retired = pk[p].retired
          /\ pk2[p].quarantined = pk[p].quarantined /\ pk2[p].leased = pk[p].leased
          /\ pk2[p].submitted = pk[p].submitted /\ pk2[p].producer = pk[p].producer
      BY <2>1, <3>1 DEF Records
    <3>4. /\ pk2[p].order = pk[p].order /\ pk2[p].token = pk[p].token
          /\ pk2[p].consumer_value = pk[p].consumer_value /\ pk2[p].in_flight = 1
      BY <2>1, <3>1 DEF Records
    <3> QED BY <2>3, <3>2, <3>3, <3>4
  <2>4. CASE p \notin S
    BY <2>1, <2>4
  <2> QED BY <2>3, <2>4
<1>2. pk2 = [p \in Packets |-> pk2[p]]
  BY DEF Launched
<1> HIDE DEF pk2
<1>3. pk2 \in AllPackets
  BY <1>1, <1>2 DEF AllPackets
<1> QED BY <1>1, <1>3 DEF pk2

(* What a receipt carries, and the thread that enters it.                  *)
Carries(tr, pk) ==
  \A p \in tr.packets : /\ pk[p].assigned /\ pk[p].gpu = "recorded"
                        /\ \E i \in 1..tr.last_position : <<p, i>> \in tr.positions
Enters(t, s, tr, ls, pk) ==
  /\ t \in Threads => \A k \in DOMAIN s.batch : ls[s.batch[k]].packets \subseteq tr.packets
  /\ t = Service => /\ s.queue = PrivateQueue /\ s.value = tr.value
                    /\ \A p \in s.frames : pk[p].assigned /\ (pk[p].quarantined \/ pk[p].leased)

(* A receipt begins, behind a wait for the one before.                     *)
LEMMA BeginKeeps ==
  ASSUME NEW dev \in Devices, NEW ls \in AllLists, NEW pub, NEW def, NEW pk \in AllPackets,
         NEW th \in AllSubmissions, NEW g \in AllWork, NEW done \in Nat, NEW nat,
         Fits(dev, ls, pub, def, pk, NoOne, th, g, done, nat), ~dev.failed,
         NEW t \in AllThreads, th[t].pc \notin Reading, NEW s \in Submissions, s.pc = "forward",
         NEW tr \in Transactions, tr.by = t, tr.queue = s.queue, tr.value = dev.last_signal + 1,
         Carries(tr, pk), Enters(t, s, tr, ls, pk)
  PROVE  LET pk2 == Launched(pk, tr.packets)
             th2 == [th EXCEPT ![t] = s]
             g2  == Awaited(g, tr.queue, dev.last_signal)
         IN  /\ Fits(dev, ls, pub, def, pk2, tr, th2, g2, done, nat)
             /\ pk2 \in AllPackets /\ th2 \in AllSubmissions /\ g2 \in AllWork
<1> DEFINE pk2 == Launched(pk, tr.packets)
           th2 == [th EXCEPT ![t] = s]
           last == dev.last_signal
           q == tr.queue
           g2 == Awaited(g, q, last)
           c == [op |-> "wait", value |-> last]
<1>1. /\ Timeline(g, done, last, NoOne, dev.failed) /\ FencesFit(g, done, last, pk)
      /\ WritesFit(g, pk, NoOne, ls, pub, def) /\ ReadsFit(g, pk, th)
      /\ LeasesFit(pk, th, NoOne) /\ FlightFits(pk, th, NoOne)
      /\ ListsFit(ls, nat, pub, pk) /\ EscapesFit(th, ls, pub, pk, def, dev.failed, NoOne)
      /\ OutputsFit(g, pub, def, dev.failed)
  BY Zenon DEF Fits
<1>0. /\ \A p \in tr.packets : /\ pk[p].assigned /\ pk[p].gpu = "recorded"
                               /\ \E i \in 1..tr.last_position : <<p, i>> \in tr.positions
      /\ t \in Threads => \A k \in DOMAIN s.batch : ls[s.batch[k]].packets \subseteq tr.packets
      /\ t = Service => /\ s.queue = PrivateQueue /\ s.value = tr.value
                        /\ \A p \in s.frames : pk[p].assigned /\ (pk[p].quarantined \/ pk[p].leased)
  BY DEF Carries, Enters
<1>2. /\ last \in Nat /\ last <= MaximumSignal /\ MaximumSignal \in Nat
      /\ q \in AllQueues /\ tr.packets \in SUBSET Packets /\ tr # NoOne /\ tr \in Receipts /\ NoOne \in Receipts
      /\ tr.value \in 1..MaximumSignal
  BY ManagerAssumption DEF Devices, Transactions, Receipts
<1>3. Service \in AllThreads /\ Threads \subseteq AllThreads /\ Service \notin Threads
  BY ManagerAssumption DEF AllThreads
<1>4. \A p \in Packets : pk[p].in_flight = 0
  BY <1>1 DEF FlightFits, InFlight
<1>5. /\ pk2 \in AllPackets
      /\ \A p \in Packets :
           /\ pk2[p].gpu = pk[p].gpu /\ pk2[p].assigned = pk[p].assigned
           /\ pk2[p].quarantined = pk[p].quarantined /\ pk2[p].leased = pk[p].leased
           /\ pk2[p].submitted = pk[p].submitted /\ pk2[p].producer = pk[p].producer
           /\ pk2[p].order = pk[p].order /\ pk2[p].token = pk[p].token
           /\ pk2[p].consumer_value = pk[p].consumer_value
           /\ pk2[p].in_flight = IF p \in tr.packets THEN 1 ELSE 0
  BY <1>4, LaunchedIs
<1>6. th2 \in AllSubmissions /\ th2[t] = s /\ \A u \in AllThreads : u # t => th2[u] = th[u]
  BY DEF AllSubmissions
<1>7. /\ last = 0 => g2 = g
      /\ last # 0 => g2 = Appended(g, q, c) /\ c \in Commands /\ c.op = "wait" /\ c.value = last
  <2>1. last # 0 => c \in Waits
    BY <1>2 DEF Waits
  <2> QED BY <2>1 DEF Awaited, Commands
<1>8. \A u \in AllThreads : th[u].pc \notin InReceipt
  BY <1>1 DEF FlightFits
<1> HIDE DEF pk2, th2, last, q, g2, c
<1>9. /\ g2 \in AllWork /\ FencesFit(g2, done, last, pk) /\ WritesFit(g2, pk, NoOne, ls, pub, def)
      /\ ReadsFit(g2, pk, th) /\ OutputsFit(g2, pub, def, dev.failed)
  <2>1. CASE last = 0
    BY <1>1, <1>7, <2>1
  <2>2. CASE last # 0
    <3>1. g2 = Appended(g, q, c) /\ c \in Commands /\ c.op # "fence" /\ c.op # "exec"
      BY <1>7, <2>2
    <3>2. g2 \in AllWork
      <4>1. Longer(g, g2)
        BY <1>2, <3>1, OneMore
      <4> QED BY <4>1 DEF Longer
    <3> QED BY <1>1, <1>2, <3>1, <3>2, WorkGrows
  <2> QED BY <2>1, <2>2
<1>10. Timeline(g2, done, last, tr, dev.failed)
  <2>1. /\ \A r \in AllQueues : \A j \in DOMAIN g[r] : ~(Ordered(g, r, j) /\ g[r][j].value = last + 1)
    BY <1>1 DEF Timeline
  <2>2. tr.value = last + 1
    BY DEF last
  <2>3. CASE last = 0
    <3>1. Passed(g, done, q, End(g, q), last)
      BY <2>3 DEF Passed
    <3>2. g2 = g
      BY <1>7, <2>3
    <3>3. \A r \in AllQueues : \A j \in DOMAIN g[r] :
            Ordered(g, r, j) /\ g[r][j].value = last + 1 => IF tr = NoOne THEN dev.failed ELSE r = tr.queue
      BY <2>1
    <3>4. \A r \in AllQueues : \A i \in DOMAIN g[r] :
             /\ Is(g, r, i, "wait") => g[r][i].value <= last
             /\ Is(g, r, i, "signal") => /\ done < g[r][i].value /\ g[r][i].value <= last
                                         /\ Passed(g, done, r, i, g[r][i].value - 1)
             /\ Ordered(g, r, i) => /\ done < g[r][i].value /\ g[r][i].value <= last + 1
                                    /\ Passed(g, done, r, i, g[r][i].value - 1)
                                    /\ g[r][i].value = last + 1 => IF tr = NoOne THEN dev.failed ELSE r = tr.queue
      BY <1>1, <3>3 DEF Timeline
    <3>5. /\ done <= last
          /\ \A r, x \in AllQueues : \A i \in DOMAIN g[r], j \in DOMAIN g[x] :
               g[r][i].op # "fence" /\ g[x][j].op # "fence" /\ g[r][i].value = g[x][j].value =>
               /\ Is(g, r, i, "signal") /\ Is(g, x, j, "signal") => r = x /\ i = j
               /\ Is(g, r, i, "signal") /\ Ordered(g, x, j) => r = x /\ j < i
               /\ Ordered(g, r, i) /\ Ordered(g, x, j) => r = x
          /\ \A r \in AllQueues : \A i, j \in DOMAIN g[r] :
               j < i /\ Is(g, r, j, "wait") /\ Is(g, r, i, "signal") => g[r][j].value < g[r][i].value
          /\ \A v \in done + 1..last : \E r \in AllQueues : \E i \in DOMAIN g[r] :
               Is(g, r, i, "signal") /\ g[r][i].value = v
      BY <1>1, Zenon DEF Timeline
    <3>6. tr # NoOne => tr.value = last + 1 /\ Passed(g, done, tr.queue, End(g, tr.queue), last)
      BY <2>2, <3>1 DEF q
    <3>7. Timeline(g, done, last, tr, dev.failed)
      BY <3>4, <3>5, <3>6 DEF Timeline
    <3> QED BY <3>2, <3>7
  <2>4. CASE last # 0
    <3>1. g2 = Appended(g, q, c) /\ c \in Commands /\ c.op = "wait" /\ c.value = last
      BY <1>7, <2>4
    <3>2. Passed(g2, done, q, End(g2, q), last)
      <4>1. /\ End(g, q) \in DOMAIN g2[q] /\ g2[q][End(g, q)] = c
        BY <1>2, <3>1, OneMore
      <4>2. End(g, q) < End(g2, q)
        BY <1>2, <1>9, <4>1, Standing DEF End
      <4> QED BY <1>2, <3>1, <4>1, <4>2 DEF Passed, Is
    <3>3. /\ (c.op = "wait" => c.value <= last) /\ c.op # "signal" /\ c.op # "exec" /\ last <= last
          /\ \A r \in AllQueues : \A j \in DOMAIN g[r] :
               Ordered(g, r, j) /\ g[r][j].value = last + 1 => IF tr = NoOne THEN dev.failed ELSE r = tr.queue
          /\ \A v \in last + 1..last : c.op = "signal" /\ c.value = v
      BY <1>2, <2>1, <3>1
    <3>4. tr # NoOne => tr.value = last + 1 /\ Passed(g2, done, tr.queue, End(g2, tr.queue), last)
      BY <2>2, <3>2 DEF q
    <3> QED BY <1>1, <1>2, <3>1, <3>3, <3>4, TimelineMore
  <2> QED BY <2>3, <2>4
<1>11. FencesFit(g2, done, last, pk2)
  <2>1. ASSUME NEW r \in AllQueues, NEW i \in DOMAIN g2[r], Is(g2, r, i, "fence"),
               NEW p \in g2[r][i].packets, ~pk2[p].quarantined
        PROVE  /\ pk2[p].assigned /\ pk2[p].gpu = "retiring" /\ r = pk2[p].producer
               /\ Passed(g2, done, r, i, pk2[p].order[1] - 1)
    <3>1. p \in Packets
      BY <1>9, <2>1, Standing, Kinds DEF Is
    <3> QED BY <1>5, <1>9, <2>1, <3>1 DEF FencesFit
  <2>2. ASSUME NEW p \in Packets, pk2[p].assigned, ~pk2[p].quarantined
        PROVE  /\ pk2[p].gpu \in {"retiring", "ready", "consuming"} => pk2[p].submitted
               /\ pk2[p].submitted => /\ pk2[p].order[1] \in 1..last
                                      /\ Passed(g2, done, pk2[p].producer, End(g2, pk2[p].producer), pk2[p].order[1] - 1)
    BY <1>5, <1>9, <2>2 DEF FencesFit
  <2> QED BY <2>1, <2>2, Zenon DEF FencesFit
<1>12. WritesFit(g2, pk2, tr, ls, pub, def)
  <2>1. SUFFICES ASSUME NEW r \in AllQueues, NEW i \in DOMAIN g2[r], Is(g2, r, i, "exec"), NEW w \in g2[r][i].writes
        PROVE  /\ pk2[w[1]].assigned /\ pk2[w[1]].token = w[2]
               /\ \/ pk2[w[1]].quarantined
                  \/ g2[r][i].value = 0 /\ Doomed(w[1], pk2, ls, pub, def)
                  \/ g2[r][i].value > 0 /\ InFlight(tr, w[1]) /\ g2[r][i].value = tr.value
                  \/ g2[r][i].value > 0 /\ Received(g2, pk2, r, i, w[1])
    BY Zenon DEF WritesFit
  <2>2. w[1] \in Packets
    BY <1>9, <2>1, Standing, Kinds DEF Is
  <2>3. /\ pk[w[1]].assigned /\ pk[w[1]].token = w[2]
        /\ \/ pk[w[1]].quarantined
           \/ g2[r][i].value = 0 /\ Doomed(w[1], pk, ls, pub, def)
           \/ g2[r][i].value > 0 /\ Received(g2, pk, r, i, w[1])
    BY <1>9, <2>1 DEF WritesFit, InFlight
  <2>4. /\ Received(g2, pk, r, i, w[1]) => Received(g2, pk2, r, i, w[1])
        /\ Doomed(w[1], pk, ls, pub, def) => Doomed(w[1], pk2, ls, pub, def)
    BY <1>5, <2>2 DEF Received, Behind, Doomed
  <2> QED BY <1>5, <2>2, <2>3, <2>4
<1>13. th2[Service].pc \in Reading => th2[Service] = th[Service]
  BY <1>3, <1>6 DEF Reading
<1>14. th[Service].pc \in Reading => t # Service
  OBVIOUS
<1>15. ReadsFit(g2, pk2, th2)
  <2>1. SUFFICES ASSUME NEW r \in AllQueues, NEW i \in DOMAIN g2[r], Is(g2, r, i, "exec"), NEW x \in g2[r][i].reads
        PROVE  /\ g2[r][i].value > 0 /\ pk2[x[1]].assigned /\ pk2[x[1]].token = x[2]
               /\ \/ pk2[x[1]].quarantined
                  \/ /\ pk2[x[1]].leased /\ x[1] \in th2[Service].frames
                     /\ th2[Service].pc \in Reading /\ g2[r][i].value = th2[Service].value
                  \/ pk2[x[1]].gpu = "consuming" /\ pk2[x[1]].consumer_value >= g2[r][i].value
    BY Zenon DEF ReadsFit
  <2>2. x[1] \in Packets
    BY <1>9, <2>1, Standing, Kinds DEF Is
  <2> QED BY <1>3, <1>5, <1>6, <1>9, <1>14, <2>1, <2>2 DEF ReadsFit
<1>16. LeasesFit(pk2, th2, tr)
  <2>1. th[Service].frames \in SUBSET Packets /\ s.frames \in SUBSET Packets
    BY <1>3 DEF AllSubmissions, Submissions
  <2>2. CASE t = Service
    <3>1. th2[Service] = s
      BY <1>6, <2>2
    <3> QED BY <1>0, <1>1, <1>5, <2>1, <2>2, <3>1 DEF LeasesFit
  <2>3. CASE t # Service
    <3>1. th2[Service] = th[Service] /\ th[Service].pc \notin InReceipt
      BY <1>3, <1>6, <1>8, <2>3
    <3> QED BY <1>1, <1>5, <2>1, <3>1 DEF LeasesFit, InReceipt
  <2> QED BY <2>2, <2>3
<1>17. FlightFits(pk2, th2, tr)
  <2>1. \A u \in AllThreads : th2[u].pc \in InReceipt => tr # NoOne /\ tr.by = u
    BY <1>2, <1>6, <1>8
  <2>2. tr # NoOne => th2[tr.by].pc \in InReceipt /\ th2[tr.by].queue = tr.queue
    BY <1>6 DEF InReceipt
  <2>3. \A p \in Packets : pk2[p].in_flight = IF InFlight(tr, p) THEN 1 ELSE 0
    BY <1>2, <1>5 DEF InFlight
  <2>4. \A p \in Packets : InFlight(tr, p) =>
       /\ pk2[p].assigned /\ pk2[p].gpu = "recorded"
       /\ \E i \in 1..tr.last_position : <<p, i>> \in tr.positions
    BY <1>0, <1>5 DEF InFlight
  <2> QED BY <2>1, <2>2, <2>3, <2>4, Zenon DEF FlightFits
<1>18. \A l \in Lists : ls[l].packets \in SUBSET Packets
  BY DEF AllLists, Items
<1>19. ListsFit(ls, nat, pub, pk2)
  <2>1. \A l \in Lists : {<<p, pk2[p].token>> : p \in ls[l].packets} = {<<p, pk[p].token>> : p \in ls[l].packets}
    BY <1>5, <1>18
  <2>2. \A l \in Lists : /\ nat[l].writes = {<<p, pk2[p].token>> : p \in ls[l].packets}
                         /\ \A p \in ls[l].packets : pk2[p].assigned /\ pk2[p].gpu = "recorded"
    BY <1>1, <1>5, <1>18, <2>1 DEF ListsFit
  <2> QED BY <1>1, <2>2, Zenon DEF ListsFit
<1>20. EscapesFit(th2, ls, pub, pk2, def, dev.failed, tr)
  <2>1. SUFFICES ASSUME NEW u \in Threads, NEW k \in DOMAIN th2[u].batch
        PROVE  EscapeFits(th2[u], th2[u].batch[k], ls, pub, pk2, def, dev.failed, tr)
    BY Zenon DEF EscapesFit
  <2>2. CASE u = t
    <3>1. th2[u] = s
      BY <1>6, <2>2
    <3> QED BY <1>0, <2>1, <2>2, <3>1 DEF EscapeFits
  <2>3. CASE u # t
    <3>1. th2[u] = th[u] /\ u \in AllThreads
      BY <1>3, <1>6, <2>3
    <3> DEFINE l == th[u].batch[k]
    <3>2. l \in Lists
      BY <2>1, <3>1 DEF AllSubmissions, Submissions
    <3>3. EscapeFits(th[u], l, ls, pub, pk, def, dev.failed, NoOne)
      BY <1>1, <2>1, <3>1 DEF EscapesFit
    <3>4. th[u].pc # "forward"
      BY <1>8, <3>1 DEF InReceipt
    <3>5. \A p \in ls[l].packets : p \in Packets /\ pk2[p].quarantined = pk[p].quarantined
      BY <1>5, <1>18, <3>2
    <3> HIDE DEF l
    <3>6. EscapeFits(th[u], l, ls, pub, pk2, def, dev.failed, tr)
      BY <3>3, <3>4, <3>5 DEF EscapeFits, Doomed
    <3> QED BY <3>1, <3>6 DEF l
  <2> QED BY <2>2, <2>3
<1> QED BY <1>5, <1>6, <1>9, <1>10, <1>11, <1>12, <1>15, <1>16, <1>17, <1>19, <1>20
        DEF Fits, pk2, th2, g2, last, q
-----------------------------------------------------------------------------
(* The positions of a batch: where each packet of it was captured last.    *)
LEMMA PositionsAre ==
  ASSUME lists \in AllLists, NEW batch \in Seq(Lists), NEW S \in SUBSET Packets,
         \A p \in S : \E i \in DOMAIN batch : p \in lists[batch[i]].packets
  PROVE  /\ Positions(batch, S) \in SUBSET (Packets \X Nat)
         /\ \A p \in S : \E i \in 1..Len(batch) : <<p, i>> \in Positions(batch, S)
<1> DEFINE At(p) == CHOOSE i \in DOMAIN batch : /\ p \in lists[batch[i]].packets
                                                /\ \A j \in i + 1..Len(batch) : p \notin lists[batch[j]].packets
<1>1. DOMAIN batch = 1..Len(batch) /\ Len(batch) \in Nat
  OBVIOUS
<1>2. ASSUME NEW p \in S PROVE At(p) \in 1..Len(batch)
  <2> DEFINE T == {i \in 1..Len(batch) : p \in lists[batch[i]].packets}
  <2>1. T \in SUBSET Nat /\ T # {} /\ \A i \in T : i <= Len(batch)
    BY <1>1, <1>2
  <2>2. \E i \in T : \A j \in T : j <= i
    <3> HIDE DEF T
    <3> QED BY <1>1, <2>1, Largest
  <2>3. PICK i \in T : \A j \in T : j <= i
    BY <2>2
  <2>4. \A j \in i + 1..Len(batch) : p \notin lists[batch[j]].packets
    BY <1>1, <2>3
  <2> QED BY <1>1, <2>3, <2>4
<1> HIDE DEF At
<1>3. Positions(batch, S) = {<<p, At(p)>> : p \in S}
  BY DEF Positions, At
<1> QED BY <1>1, <1>2, <1>3

(* begin_transaction either fails the device or opens a receipt.           *)
LEMMA BeginsIs ==
  ASSUME IInv, NEW t \in AllThreads, NEW q \in AllQueues, NEW s \in Sections, s.dev.last_signal = device.last_signal,
         NEW S \in SUBSET Packets, NEW batch \in Seq(Lists), NEW private \in BOOLEAN, NEW source \in BOOLEAN,
         Positions(batch, S) \in SUBSET (Packets \X Nat),
         transaction = NoOne, begin_transaction(t, q, s, S, batch, private, source)
  PROVE  \/ Apply(Failed(s)) /\ transaction' = NoOne /\ gpu' = gpu
         \/ /\ ~s.dev.failed /\ device' = s.dev /\ published' = s.pub /\ packets' = Launched(s.pk, S)
            /\ gpu' = Awaited(gpu, q, s.dev.last_signal)
            /\ transaction' \in Transactions /\ transaction'.by = t /\ transaction'.queue = q
            /\ transaction'.value = s.dev.last_signal + 1 /\ transaction'.packets = S
            /\ transaction'.positions = Positions(batch, S) /\ transaction'.last_position = Len(batch)
<1> DEFINE tr == Transaction(t, q, s.dev.last_signal + 1, S, batch, private, source)
           pk2 == Launched(s.pk, S)
<1>1. \/ Apply(Failed(s)) /\ UNCHANGED <<transaction, gpu>>
      \/ /\ ~s.dev.failed /\ s.dev.last_signal < MaximumSignal
         /\ Apply([s EXCEPT !.pk = pk2]) /\ transaction' = tr
         /\ gpu' = IF s.dev.last_signal = 0 THEN gpu
                   ELSE [gpu EXCEPT ![q] = Append(@, [op |-> "wait", value |-> s.dev.last_signal])]
  BY Zenon DEF begin_transaction, Launched
<1>2. CASE Apply(Failed(s)) /\ UNCHANGED <<transaction, gpu>>
  BY <1>2
<1>3. CASE /\ ~s.dev.failed /\ s.dev.last_signal < MaximumSignal
           /\ Apply([s EXCEPT !.pk = pk2]) /\ transaction' = tr
           /\ gpu' = IF s.dev.last_signal = 0 THEN gpu
                     ELSE [gpu EXCEPT ![q] = Append(@, [op |-> "wait", value |-> s.dev.last_signal])]
  <2>1. lists \in AllLists /\ device.session \in 1..MaximumSession
    BY DEF IInv, Types, Devices
  <2>3. s.dev.last_signal + 1 \in 1..MaximumSignal
    <3>1. s.dev.last_signal \in 0..MaximumSignal
      BY SectionFields DEF Devices
    <3> QED BY <1>3, <3>1, ManagerAssumption
  <2>4. Len(batch) \in Nat
    OBVIOUS
  <2>5. /\ tr \in Transactions /\ tr.by = t /\ tr.queue = q /\ tr.value = s.dev.last_signal + 1 /\ tr.packets = S
        /\ tr.positions = Positions(batch, S) /\ tr.last_position = Len(batch)
    BY <2>1, <2>3, <2>4 DEF Transaction, Transactions
  <2>6. gpu' = Awaited(gpu, q, s.dev.last_signal)
    BY <1>3 DEF Awaited, Appended
  <2> HIDE DEF tr, pk2
  <2>7. device' = s.dev /\ published' = s.pub /\ packets' = pk2
    BY <1>3 DEF Apply, Sections
  <2> QED BY <1>3, <2>5, <2>6, <2>7 DEF pk2
<1> QED BY <1>1, <1>2, <1>3

(* before_submission.                                                      *)
LEMMA BeforeSubmissionKeeps ==
  ASSUME IInv, NEW t \in Threads, before_submission(t)
  PROVE  IInv'
<1> DEFINE s == Settled
           batch == thread[t].batch
           known == {l \in Range(batch) : lists[l].registered /\ ~lists[l].awaiting}
           related == {l \in known : lists[l].packets # {} \/ lists[l].consumer \/ lists[l].touched}
           S == UNION {lists[l].packets : l \in related}
           source == \E l \in related : lists[l].touched
           a == [thread[t] EXCEPT !.pc = "bypass"]
           b == [thread[t] EXCEPT !.pc = "forward"]
<1>1. /\ thread[t].pc = "before" /\ transaction = NoOne /\ deferred' = NothingDeferred
      /\ UNCHANGED <<lists, next_token, completed, native, content>>
      /\ \/ related = {} /\ Apply(s) /\ Step(t, "bypass") /\ UNCHANGED <<transaction, gpu>>
         \/ /\ begin_transaction(t, thread[t].queue, s, S, batch, FALSE, source)
            /\ Step(t, IF transaction' = NoOne THEN "bypass" ELSE "forward")
  BY Zenon DEF before_submission
<1>2. /\ Fits(s.dev, lists, s.pub, NothingDeferred, s.pk, NoOne, thread, gpu, completed, native)
      /\ Unretired(lists, s.pk) /\ s \in Sections /\ OnlyFailed(device, s.dev)
  BY <1>1, SettledKeeps
<1>3. /\ s.pk \in AllPackets /\ s.dev \in Devices /\ s.pub \in AllWords /\ s.dev.last_signal = device.last_signal
  BY <1>2, SectionFields DEF OnlyFailed
<1>4. /\ Types /\ lists \in AllLists /\ thread \in AllSubmissions /\ gpu \in AllWork /\ completed \in Nat
      /\ NoOne \in Receipts
  BY ManagerAssumption DEF IInv, Types, Receipts
<1>5. /\ t \in AllThreads /\ thread[t] \in Submissions
      /\ \A k \in DOMAIN batch : batch[k] \in Lists /\ batch[k] \in Range(batch)
      /\ \A l \in Lists : lists[l].packets \in SUBSET Packets
  BY ThreadIs
<1>6. thread[t].queue \in AllQueues /\ batch \in Seq(Lists)
  BY <1>5 DEF Submissions
<1>7. /\ a \in Submissions /\ a.pc = "bypass" /\ a.batch = batch
      /\ b \in Submissions /\ b.pc = "forward" /\ b.batch = batch /\ b.queue = thread[t].queue
  BY <1>5 DEF Submissions
<1>8. /\ Step(t, "bypass") => thread' = [thread EXCEPT ![t] = a]
      /\ Step(t, "forward") => thread' = [thread EXCEPT ![t] = b]
  BY <1>4, <1>5 DEF Step, AllSubmissions
<1>9. ListsFit(lists, native, s.pub, s.pk)
  BY <1>2, Zenon DEF Fits
<1>10. \A k \in DOMAIN batch : /\ batch[k] \notin related => lists[batch[k]].packets = {} /\ ~lists[batch[k]].consumer
                               /\ batch[k] \in related => lists[batch[k]].packets \subseteq S
  BY <1>5, <1>9 DEF ListsFit
<1>11. ASSUME NEW p \in S
       PROVE  /\ p \in Packets /\ s.pk[p].assigned /\ s.pk[p].gpu = "recorded"
              /\ \E i \in DOMAIN batch : p \in lists[batch[i]].packets
  <2>1. PICK l \in related : p \in lists[l].packets
    BY <1>11
  <2>2. PICK i \in DOMAIN batch : batch[i] = l
    BY <1>6, <2>1 DEF Range
  <2> QED BY <1>5, <1>9, <2>1, <2>2 DEF ListsFit
<1>12. S \in SUBSET Packets /\ source \in BOOLEAN
  BY <1>11
<1>17. /\ Positions(batch, S) \in SUBSET (Packets \X Nat)
       /\ \A p \in S : \E i \in 1..Len(batch) : <<p, i>> \in Positions(batch, S)
  <2>1. \A p \in S : \E i \in DOMAIN batch : p \in lists[batch[i]].packets
    BY <1>11
  <2> HIDE DEF S, batch
  <2> QED BY <1>4, <1>6, <1>12, <2>1, PositionsAre
<1>13. thread[t].pc \notin InReceipt /\ thread[t].pc \notin Reading /\ a.pc \notin InReceipt
  BY <1>1, <1>7 DEF InReceipt, Reading
<1>14. deferred' \in Notices
  BY <1>1, NoticesTaken
<1> HIDE DEF s, related, S, source, batch, a, b
<1>15. CASE related = {} /\ Apply(s) /\ Step(t, "bypass") /\ UNCHANGED <<transaction, gpu>>
  <2>1. \A k \in DOMAIN a.batch : EscapeFits(a, a.batch[k], lists, s.pub, s.pk, NothingDeferred, s.dev.failed, NoOne)
    BY <1>7, <1>10, <1>15 DEF EscapeFits
  <2>2. /\ Fits(s.dev, lists, s.pub, NothingDeferred, s.pk, NoOne, [thread EXCEPT ![t] = a], gpu, completed, native)
        /\ [thread EXCEPT ![t] = a] \in AllSubmissions
    BY <1>2, <1>4, <1>7, <1>13, <2>1, ThreadKeeps
  <2>3. /\ device' = s.dev /\ packets' = s.pk /\ published' = s.pub /\ thread' = [thread EXCEPT ![t] = a]
        /\ transaction' = NoOne /\ gpu' = gpu
    BY <1>1, <1>8, <1>15 DEF Apply
  <2> QED BY <1>1, <1>2, <1>3, <1>4, <1>14, <2>2, <2>3 DEF IInv, Types
<1>16. CASE /\ begin_transaction(t, thread[t].queue, s, S, batch, FALSE, source)
            /\ Step(t, IF transaction' = NoOne THEN "bypass" ELSE "forward")
  <2>1. \/ Apply(Failed(s)) /\ transaction' = NoOne /\ gpu' = gpu
        \/ /\ ~s.dev.failed /\ device' = s.dev /\ published' = s.pub /\ packets' = Launched(s.pk, S)
           /\ gpu' = Awaited(gpu, thread[t].queue, s.dev.last_signal)
           /\ transaction' \in Transactions /\ transaction'.by = t /\ transaction'.queue = thread[t].queue
           /\ transaction'.value = s.dev.last_signal + 1 /\ transaction'.packets = S
           /\ transaction'.positions = Positions(batch, S) /\ transaction'.last_position = Len(batch)
    <3>1. FALSE \in BOOLEAN /\ Positions(batch, S) \in SUBSET (Packets \X Nat)
      BY <1>17
    <3> DEFINE q == thread[t].queue
    <3>2. q \in AllQueues /\ t \in AllThreads /\ s \in Sections /\ s.dev.last_signal = device.last_signal
          /\ S \in SUBSET Packets /\ batch \in Seq(Lists) /\ source \in BOOLEAN
      BY <1>2, <1>3, <1>5, <1>6, <1>12
    <3>3. PICK private \in BOOLEAN : begin_transaction(t, q, s, S, batch, private, source)
      BY <1>16, <3>1, Zenon
    <3> HIDE DEF q
    <3>4. \/ Apply(Failed(s)) /\ transaction' = NoOne /\ gpu' = gpu
          \/ /\ ~s.dev.failed /\ device' = s.dev /\ published' = s.pub /\ packets' = Launched(s.pk, S)
             /\ gpu' = Awaited(gpu, q, s.dev.last_signal)
             /\ transaction' \in Transactions /\ transaction'.by = t /\ transaction'.queue = q
             /\ transaction'.value = s.dev.last_signal + 1 /\ transaction'.packets = S
             /\ transaction'.positions = Positions(batch, S) /\ transaction'.last_position = Len(batch)
      BY <1>1, <3>1, <3>2, <3>3, BeginsIs
    <3> QED BY <3>4 DEF q
  <2>2. CASE Apply(Failed(s)) /\ transaction' = NoOne /\ gpu' = gpu
    <3> DEFINE f == Failed(s)
    <3>1. /\ Fits(f.dev, lists, f.pub, NothingDeferred, f.pk, NoOne, thread, gpu, completed, native)
          /\ Unretired(lists, f.pk) /\ f.pk \in AllPackets /\ f.dev \in Devices /\ f.pub \in AllWords
          /\ f.dev.failed /\ \A l \in Lists : \A p \in lists[l].packets : f.pk[p].quarantined
      BY <1>2, <1>4, FailedKeeps
    <3>2. device' = f.dev /\ packets' = f.pk /\ published' = f.pub
      BY <2>2 DEF Apply
    <3> HIDE DEF f
    <3>3. \A k \in DOMAIN a.batch : EscapeFits(a, a.batch[k], lists, f.pub, f.pk, NothingDeferred, f.dev.failed, NoOne)
      BY <1>5, <1>7, <3>1 DEF EscapeFits, batch
    <3>4. /\ Fits(f.dev, lists, f.pub, NothingDeferred, f.pk, NoOne, [thread EXCEPT ![t] = a], gpu, completed, native)
          /\ [thread EXCEPT ![t] = a] \in AllSubmissions
      BY <1>4, <1>7, <1>13, <3>1, <3>3, ThreadKeeps
    <3>5. thread' = [thread EXCEPT ![t] = a]
      BY <1>8, <1>16, <2>2
    <3> QED BY <1>1, <1>4, <1>14, <2>2, <3>1, <3>2, <3>4, <3>5 DEF IInv, Types
  <2>3. CASE /\ ~s.dev.failed /\ device' = s.dev /\ published' = s.pub /\ packets' = Launched(s.pk, S)
             /\ gpu' = Awaited(gpu, thread[t].queue, s.dev.last_signal)
             /\ transaction' \in Transactions /\ transaction'.by = t /\ transaction'.queue = thread[t].queue
             /\ transaction'.value = s.dev.last_signal + 1 /\ transaction'.packets = S
             /\ transaction'.positions = Positions(batch, S) /\ transaction'.last_position = Len(batch)
    <3>1. transaction' # NoOne /\ thread' = [thread EXCEPT ![t] = b] /\ t # Service
      BY <1>8, <1>16, <2>3, ManagerAssumption
    <3> DEFINE tr == transaction'
    <3>2. /\ tr \in Transactions /\ tr.by = t /\ tr.queue = b.queue /\ tr.value = s.dev.last_signal + 1
          /\ tr.packets = S
          /\ tr.positions = Positions(batch, S) /\ tr.last_position = Len(batch)
      BY <1>7, <2>3
    <3> HIDE DEF tr
    <3>3. Carries(tr, s.pk)
      BY <1>11, <1>17, <3>2 DEF Carries
    <3>4. Enters(t, b, tr, lists, s.pk)
      BY <1>7, <1>10, <3>1, <3>2 DEF Enters
    <3>5. /\ Fits(s.dev, lists, s.pub, NothingDeferred, Launched(s.pk, tr.packets), tr, [thread EXCEPT ![t] = b],
                  Awaited(gpu, tr.queue, s.dev.last_signal), completed, native)
          /\ Launched(s.pk, tr.packets) \in AllPackets /\ [thread EXCEPT ![t] = b] \in AllSubmissions
          /\ Awaited(gpu, tr.queue, s.dev.last_signal) \in AllWork
      BY <1>2, <1>3, <1>4, <1>5, <1>7, <1>13, <2>3, <3>2, <3>3, <3>4, BeginKeeps
    <3>6. /\ device' = s.dev /\ published' = s.pub /\ packets' = Launched(s.pk, tr.packets)
          /\ gpu' = Awaited(gpu, tr.queue, s.dev.last_signal) /\ transaction' = tr
      BY <1>7, <2>3, <3>2 DEF tr
    <3>7. Unretired(lists, packets')
      <4>1. \A p \in Packets : s.pk[p].in_flight = 0
        BY <1>2, Zenon DEF Fits, FlightFits, InFlight
      <4>2. \A p \in Packets : packets'[p].retired = s.pk[p].retired
        BY <1>3, <2>3, <4>1, LaunchedIs
      <4> QED BY <1>2, <1>5, <4>2 DEF Unretired
    <3>8. tr \in Receipts
      BY <3>2 DEF Receipts
    <3> QED BY <1>1, <1>3, <1>4, <1>14, <3>1, <3>5, <3>6, <3>7, <3>8 DEF IInv, Types
  <2> QED BY <2>1, <2>2, <2>3
<1> QED BY <1>1, <1>15, <1>16
-----------------------------------------------------------------------------
(* The service outside the receipts.                                       *)
LEMMA ServiceKeeps ==
  ASSUME NEW dev, NEW ls, NEW pub, NEW def, NEW pk, NEW tr \in Receipts, NEW th \in AllSubmissions, NEW g, NEW done, NEW nat,
         Fits(dev, ls, pub, def, pk, tr, th, g, done, nat),
         NEW s \in Submissions, th[Service].pc \notin InReceipt, s.pc \in {"idle", "consume", "stopped"},
         s.queue = PrivateQueue, s.pc = "idle" => s.frames = {}, s.pc = "consume" => s.value <= MaximumSignal,
         \A p \in s.frames : pk[p].assigned /\ (pk[p].quarantined \/ pk[p].leased),
         ReadsFit(g, pk, [th EXCEPT ![Service] = s])
  PROVE  /\ Fits(dev, ls, pub, def, pk, tr, [th EXCEPT ![Service] = s], g, done, nat)
         /\ [th EXCEPT ![Service] = s] \in AllSubmissions
<1> DEFINE th2 == [th EXCEPT ![Service] = s]
<1>1. /\ Timeline(g, done, dev.last_signal, tr, dev.failed)
      /\ FencesFit(g, done, dev.last_signal, pk)
      /\ WritesFit(g, pk, tr, ls, pub, def)
      /\ LeasesFit(pk, th, tr) /\ FlightFits(pk, th, tr)
      /\ ListsFit(ls, nat, pub, pk) /\ EscapesFit(th, ls, pub, pk, def, dev.failed, tr)
      /\ OutputsFit(g, pub, def, dev.failed) /\ ReadsFit(g, pk, th2)
  BY Zenon DEF Fits
<1>2. Service \in AllThreads /\ Service \notin Threads
  BY ManagerAssumption DEF AllThreads
<1>3. th2 \in AllSubmissions /\ th2[Service] = s /\ \A u \in AllThreads : u # Service => th2[u] = th[u]
  BY <1>2 DEF AllSubmissions
<1> HIDE DEF th2
<1>4. LeasesFit(pk, th2, tr)
  BY <1>1, <1>3 DEF LeasesFit, Reading
<1>5. FlightFits(pk, th2, tr)
  <2>1. \A u \in AllThreads : th2[u].pc \in InReceipt => tr # NoOne /\ tr.by = u
    BY <1>1, <1>3 DEF FlightFits, InReceipt
  <2>2. tr # NoOne => th2[tr.by].pc \in InReceipt /\ th2[tr.by].queue = tr.queue
    <3>1. tr # NoOne => tr.by \in AllThreads /\ tr.by # Service
      BY <1>1 DEF FlightFits, Receipts, Transactions
    <3> QED BY <1>1, <1>3, <3>1 DEF FlightFits
  <2> QED BY <1>1, <2>1, <2>2 DEF FlightFits
<1>6. EscapesFit(th2, ls, pub, pk, def, dev.failed, tr)
  <2>1. \A u \in Threads : th2[u] = th[u]
    BY <1>2, <1>3 DEF AllThreads
  <2> QED BY <1>1, <2>1 DEF EscapesFit
<1> QED BY <1>1, <1>3, <1>4, <1>5, <1>6 DEF Fits, th2

(* begin_private_submission.                                               *)
LEMMA BeginPrivateKeeps ==
  ASSUME IInv, NEW frames \in SUBSET Packets, begin_private_submission(frames)
  PROVE  IInv'
<1> DEFINE s == Settled
           v == device.last_signal + 1
           a == [thread[Service] EXCEPT !.pc = "stopped", !.frames = {}, !.value = v]
           b == [thread[Service] EXCEPT !.pc = "forward", !.frames = frames, !.value = v]
<1>1. /\ transaction = NoOne /\ thread[Service].pc = "idle" /\ \A p \in frames : packets[p].leased
      /\ begin_transaction(Service, PrivateQueue, s, {}, <<>>, TRUE, FALSE)
      /\ thread' = [thread EXCEPT ![Service].pc = IF transaction' = NoOne THEN "stopped" ELSE "forward",
                                  ![Service].frames = IF transaction' = NoOne THEN {} ELSE frames,
                                  ![Service].value = device.last_signal + 1]
      /\ deferred' = NothingDeferred
      /\ UNCHANGED <<lists, next_token, completed, native, content>>
  BY Zenon DEF begin_private_submission
<1>2. /\ Fits(s.dev, lists, s.pub, NothingDeferred, s.pk, NoOne, thread, gpu, completed, native)
      /\ Unretired(lists, s.pk) /\ s \in Sections /\ OnlyFailed(device, s.dev) /\ OnlyWorse(packets, s.pk)
  BY <1>1, SettledKeeps
<1>3. /\ s.pk \in AllPackets /\ s.dev \in Devices /\ s.pub \in AllWords /\ s.dev.last_signal = device.last_signal
  BY <1>2, SectionFields DEF OnlyFailed
<1>4. /\ Types /\ lists \in AllLists /\ thread \in AllSubmissions /\ gpu \in AllWork /\ completed \in Nat
      /\ NoOne \in Receipts /\ Service \in AllThreads /\ PrivateQueue \in AllQueues /\ v \in Nat
      /\ \A l \in Lists : lists[l].packets \in SUBSET Packets
  BY ManagerAssumption DEF IInv, Types, Receipts, AllThreads, AllQueues, Devices, AllLists, Items
<1>5. thread[Service] \in Submissions
  BY <1>4 DEF AllSubmissions
<1>6. LeasesFit(s.pk, thread, NoOne) /\ ReadsFit(gpu, s.pk, thread) /\ LeasesFit(packets, thread, NoOne)
  BY <1>1, <1>2, Zenon DEF Fits, IInv
<1>7. thread[Service].queue = PrivateQueue
  BY <1>6 DEF LeasesFit
<1>8. /\ a \in Submissions /\ a.pc = "stopped" /\ a.frames = {} /\ a.queue = PrivateQueue
      /\ b \in Submissions /\ b.pc = "forward" /\ b.frames = frames /\ b.queue = PrivateQueue /\ b.value = v
  BY <1>4, <1>5, <1>7 DEF Submissions
<1>9. /\ transaction' = NoOne => thread' = [thread EXCEPT ![Service] = a]
      /\ transaction' # NoOne => thread' = [thread EXCEPT ![Service] = b]
  BY <1>1, <1>4, <1>5 DEF AllSubmissions
<1>10. \A p \in frames : s.pk[p].assigned /\ s.pk[p].leased
  BY <1>1, <1>2, <1>6 DEF LeasesFit, OnlyWorse, Alike
<1>11. /\ <<>> \in Seq(Lists) /\ Positions(<<>>, {}) = {} /\ {} \in SUBSET Packets
       /\ Positions(<<>>, {}) \in SUBSET (Packets \X Nat)
  BY DEF Positions
<1>12. thread[Service].pc \notin InReceipt /\ thread[Service].pc \notin Reading
  BY <1>1 DEF InReceipt, Reading
<1>13. deferred' \in Notices
  BY <1>1, NoticesTaken
<1> HIDE DEF s, v, a, b
<1>14. PICK private \in BOOLEAN, source \in BOOLEAN :
         begin_transaction(Service, PrivateQueue, s, {}, <<>>, private, source)
  <2>1. TRUE \in BOOLEAN /\ FALSE \in BOOLEAN
    OBVIOUS
  <2> QED BY <1>1, <2>1, Zenon
<1>15. \/ Apply(Failed(s)) /\ transaction' = NoOne /\ gpu' = gpu
       \/ /\ ~s.dev.failed /\ device' = s.dev /\ published' = s.pub /\ packets' = Launched(s.pk, {})
          /\ gpu' = Awaited(gpu, PrivateQueue, s.dev.last_signal)
          /\ transaction' \in Transactions /\ transaction'.by = Service /\ transaction'.queue = PrivateQueue
          /\ transaction'.value = s.dev.last_signal + 1 /\ transaction'.packets = {}
  BY <1>1, <1>2, <1>3, <1>4, <1>11, <1>14, BeginsIs
<1>16. CASE Apply(Failed(s)) /\ transaction' = NoOne /\ gpu' = gpu
  <2> DEFINE f == Failed(s)
             th2 == [thread EXCEPT ![Service] = a]
  <2>1. /\ Fits(f.dev, lists, f.pub, NothingDeferred, f.pk, NoOne, thread, gpu, completed, native)
        /\ Unretired(lists, f.pk) /\ f.pk \in AllPackets /\ f.dev \in Devices /\ f.pub \in AllWords
    BY <1>2, <1>4, FailedKeeps
  <2>2. device' = f.dev /\ packets' = f.pk /\ published' = f.pub
    BY <1>16 DEF Apply
  <2> HIDE DEF f
  <2>3. ReadsFit(gpu, f.pk, th2)
    <3>1. ReadsFit(gpu, f.pk, thread)
      BY <2>1, Zenon DEF Fits
    <3> HIDE DEF th2
    <3> QED BY <1>12, <3>1 DEF ReadsFit
  <2>4. /\ Fits(f.dev, lists, f.pub, NothingDeferred, f.pk, NoOne, th2, gpu, completed, native)
        /\ th2 \in AllSubmissions
    BY <1>4, <1>8, <1>12, <2>1, <2>3, ServiceKeeps
  <2>5. thread' = th2
    BY <1>9, <1>16
  <2> QED BY <1>1, <1>4, <1>13, <1>16, <2>1, <2>2, <2>4, <2>5 DEF IInv, Types
<1>17. CASE /\ ~s.dev.failed /\ device' = s.dev /\ published' = s.pub /\ packets' = Launched(s.pk, {})
            /\ gpu' = Awaited(gpu, PrivateQueue, s.dev.last_signal)
            /\ transaction' \in Transactions /\ transaction'.by = Service /\ transaction'.queue = PrivateQueue
            /\ transaction'.value = s.dev.last_signal + 1 /\ transaction'.packets = {}
  <2>1. transaction' # NoOne /\ thread' = [thread EXCEPT ![Service] = b] /\ Service \notin Threads
    BY <1>9, <1>17, ManagerAssumption
  <2> DEFINE tr == transaction'
  <2>2. /\ tr \in Transactions /\ tr.by = Service /\ tr.queue = b.queue /\ tr.value = s.dev.last_signal + 1
        /\ tr.packets = {} /\ b.value = tr.value
    BY <1>3, <1>8, <1>17 DEF v
  <2>3. tr \in Receipts
    BY <1>17 DEF Receipts
  <2> HIDE DEF tr
  <2>4. Carries(tr, s.pk)
    BY <2>2 DEF Carries
  <2>5. Enters(Service, b, tr, lists, s.pk)
    BY <1>8, <1>10, <2>1, <2>2 DEF Enters
  <2>6. /\ Fits(s.dev, lists, s.pub, NothingDeferred, Launched(s.pk, tr.packets), tr, [thread EXCEPT ![Service] = b],
                Awaited(gpu, tr.queue, s.dev.last_signal), completed, native)
        /\ Launched(s.pk, tr.packets) \in AllPackets /\ [thread EXCEPT ![Service] = b] \in AllSubmissions
        /\ Awaited(gpu, tr.queue, s.dev.last_signal) \in AllWork
    BY <1>2, <1>3, <1>4, <1>8, <1>12, <1>17, <2>2, <2>4, <2>5, BeginKeeps
  <2>7. /\ device' = s.dev /\ published' = s.pub /\ packets' = Launched(s.pk, tr.packets)
        /\ gpu' = Awaited(gpu, tr.queue, s.dev.last_signal) /\ transaction' = tr
    BY <1>8, <1>17, <2>2 DEF tr
  <2>8. Unretired(lists, packets')
    <3>1. \A p \in Packets : s.pk[p].in_flight = 0
      BY <1>2, Zenon DEF Fits, FlightFits, InFlight
    <3>2. \A p \in Packets : packets'[p].retired = s.pk[p].retired
      BY <1>3, <1>17, <3>1, LaunchedIs
    <3> QED BY <1>2, <1>4, <3>2 DEF Unretired
  <2> QED BY <1>1, <1>3, <1>4, <1>13, <2>1, <2>3, <2>6, <2>7, <2>8 DEF IInv, Types
<1> QED BY <1>15, <1>16, <1>17
-----------------------------------------------------------------------------
(* The receipt under way may carry more, and may be refused.               *)
LEMMA ReceiptGrows ==
  ASSUME NEW dev, NEW ls \in AllLists, NEW pub, NEW def, NEW pk \in AllPackets, NEW tr \in Transactions,
         NEW th \in AllSubmissions, NEW g \in AllWork, NEW done, NEW nat, Fits(dev, ls, pub, def, pk, tr, th, g, done, nat),
         NEW tr2 \in Transactions, tr2.by = tr.by, tr2.queue = tr.queue, tr2.value = tr.value,
         tr.packets \subseteq tr2.packets, Carries(tr2, pk), NEW pk2,
         \A p \in Packets :
           /\ pk2[p].gpu = pk[p].gpu /\ pk2[p].assigned = pk[p].assigned
           /\ pk2[p].quarantined = pk[p].quarantined /\ pk2[p].leased = pk[p].leased
           /\ pk2[p].submitted = pk[p].submitted /\ pk2[p].producer = pk[p].producer
           /\ pk2[p].order = pk[p].order /\ pk2[p].token = pk[p].token
           /\ pk2[p].consumer_value = pk[p].consumer_value
           /\ pk2[p].in_flight = IF p \in tr2.packets THEN 1 ELSE 0
  PROVE  Fits(dev, ls, pub, def, pk2, tr2, th, g, done, nat)
<1> DEFINE last == dev.last_signal
<1>1. /\ Timeline(g, done, last, tr, dev.failed) /\ FencesFit(g, done, last, pk)
      /\ WritesFit(g, pk, tr, ls, pub, def) /\ ReadsFit(g, pk, th)
      /\ LeasesFit(pk, th, tr) /\ FlightFits(pk, th, tr)
      /\ ListsFit(ls, nat, pub, pk) /\ EscapesFit(th, ls, pub, pk, def, dev.failed, tr)
      /\ OutputsFit(g, pub, def, dev.failed)
  BY Zenon DEF Fits
<1> HIDE DEF last
<1>2. tr # NoOne /\ tr2 # NoOne /\ tr2.packets \in SUBSET Packets
  BY ManagerAssumption DEF Transactions
<1>3. Timeline(g, done, last, tr2, dev.failed)
  <2>1. \A r \in AllQueues : \A i \in DOMAIN g[r] :
             /\ Is(g, r, i, "wait") => g[r][i].value <= last
             /\ Is(g, r, i, "signal") => /\ done < g[r][i].value /\ g[r][i].value <= last
                                         /\ Passed(g, done, r, i, g[r][i].value - 1)
             /\ Ordered(g, r, i) => /\ done < g[r][i].value /\ g[r][i].value <= last + 1
                                    /\ Passed(g, done, r, i, g[r][i].value - 1)
                                    /\ g[r][i].value = last + 1 => IF tr2 = NoOne THEN dev.failed ELSE r = tr2.queue
    BY <1>1, <1>2 DEF Timeline
  <2>2. tr2.value = last + 1 /\ Passed(g, done, tr2.queue, End(g, tr2.queue), last)
    BY <1>1, <1>2 DEF Timeline
  <2> QED BY <1>1, <2>1, <2>2, Zenon DEF Timeline
<1>4. FencesFit(g, done, last, pk2)
  <2>1. ASSUME NEW r \in AllQueues, NEW i \in DOMAIN g[r], Is(g, r, i, "fence"),
               NEW p \in g[r][i].packets, ~pk2[p].quarantined
        PROVE  /\ pk2[p].assigned /\ pk2[p].gpu = "retiring" /\ r = pk2[p].producer
               /\ Passed(g, done, r, i, pk2[p].order[1] - 1)
    <3>1. p \in Packets
      BY <2>1, Standing, Kinds DEF Is
    <3> QED BY <1>1, <2>1, <3>1 DEF FencesFit
  <2>2. ASSUME NEW p \in Packets, pk2[p].assigned, ~pk2[p].quarantined
        PROVE  /\ pk2[p].gpu \in {"retiring", "ready", "consuming"} => pk2[p].submitted
               /\ pk2[p].submitted => /\ pk2[p].order[1] \in 1..last
                                      /\ Passed(g, done, pk2[p].producer, End(g, pk2[p].producer), pk2[p].order[1] - 1)
    BY <1>1, <2>2 DEF FencesFit
  <2> QED BY <2>1, <2>2, Zenon DEF FencesFit
<1>5. WritesFit(g, pk2, tr2, ls, pub, def)
  <2>1. SUFFICES ASSUME NEW r \in AllQueues, NEW i \in DOMAIN g[r], Is(g, r, i, "exec"), NEW w \in g[r][i].writes
        PROVE  /\ pk2[w[1]].assigned /\ pk2[w[1]].token = w[2]
               /\ \/ pk2[w[1]].quarantined
                  \/ g[r][i].value = 0 /\ Doomed(w[1], pk2, ls, pub, def)
                  \/ g[r][i].value > 0 /\ InFlight(tr2, w[1]) /\ g[r][i].value = tr2.value
                  \/ g[r][i].value > 0 /\ Received(g, pk2, r, i, w[1])
    BY Zenon DEF WritesFit
  <2>2. w[1] \in Packets
    BY <2>1, Standing, Kinds DEF Is
  <2>3. /\ pk[w[1]].assigned /\ pk[w[1]].token = w[2]
        /\ \/ pk[w[1]].quarantined
           \/ g[r][i].value = 0 /\ Doomed(w[1], pk, ls, pub, def)
           \/ g[r][i].value > 0 /\ InFlight(tr, w[1]) /\ g[r][i].value = tr.value
           \/ g[r][i].value > 0 /\ Received(g, pk, r, i, w[1])
    BY <1>1, <2>1 DEF WritesFit
  <2>4. /\ Received(g, pk, r, i, w[1]) => Received(g, pk2, r, i, w[1])
        /\ Doomed(w[1], pk, ls, pub, def) => Doomed(w[1], pk2, ls, pub, def)
        /\ InFlight(tr, w[1]) => InFlight(tr2, w[1])
    BY <1>2, <2>2 DEF Received, Behind, Doomed, InFlight
  <2> QED BY <2>2, <2>3, <2>4
<1>6. ReadsFit(g, pk2, th)
  <2>1. SUFFICES ASSUME NEW r \in AllQueues, NEW i \in DOMAIN g[r], Is(g, r, i, "exec"), NEW x \in g[r][i].reads
        PROVE  /\ g[r][i].value > 0 /\ pk2[x[1]].assigned /\ pk2[x[1]].token = x[2]
               /\ \/ pk2[x[1]].quarantined
                  \/ /\ pk2[x[1]].leased /\ x[1] \in th[Service].frames
                     /\ th[Service].pc \in Reading /\ g[r][i].value = th[Service].value
                  \/ pk2[x[1]].gpu = "consuming" /\ pk2[x[1]].consumer_value >= g[r][i].value
    BY Zenon DEF ReadsFit
  <2>2. x[1] \in Packets
    BY <2>1, Standing, Kinds DEF Is
  <2> QED BY <1>1, <2>1, <2>2 DEF ReadsFit
<1>7. LeasesFit(pk2, th, tr2)
  <2>1. th[Service].frames \in SUBSET Packets
    BY DEF AllSubmissions, Submissions, AllThreads
  <2> QED BY <1>1, <2>1 DEF LeasesFit
<1>8. FlightFits(pk2, th, tr2)
  <2>1. /\ \A u \in AllThreads : th[u].pc \in InReceipt => tr2 # NoOne /\ tr2.by = u
        /\ tr2 # NoOne => th[tr2.by].pc \in InReceipt /\ th[tr2.by].queue = tr2.queue
    BY <1>1, <1>2 DEF FlightFits
  <2>2. \A p \in Packets : pk2[p].in_flight = IF InFlight(tr2, p) THEN 1 ELSE 0
    BY <1>2 DEF InFlight
  <2>3. \A p \in Packets : InFlight(tr2, p) =>
       /\ pk2[p].assigned /\ pk2[p].gpu = "recorded"
       /\ \E i \in 1..tr2.last_position : <<p, i>> \in tr2.positions
    BY DEF InFlight, Carries
  <2> QED BY <2>1, <2>2, <2>3, Zenon DEF FlightFits
<1>9. \A l \in Lists : ls[l].packets \in SUBSET Packets
  BY DEF AllLists, Items
<1>10. ListsFit(ls, nat, pub, pk2)
  <2>1. \A l \in Lists : {<<p, pk2[p].token>> : p \in ls[l].packets} = {<<p, pk[p].token>> : p \in ls[l].packets}
    BY <1>9
  <2>2. \A l \in Lists : /\ nat[l].writes = {<<p, pk2[p].token>> : p \in ls[l].packets}
                         /\ \A p \in ls[l].packets : pk2[p].assigned /\ pk2[p].gpu = "recorded"
    BY <1>1, <1>9, <2>1 DEF ListsFit
  <2> QED BY <1>1, <2>2, Zenon DEF ListsFit
<1>11. EscapesFit(th, ls, pub, pk2, def, dev.failed, tr2)
  <2>1. SUFFICES ASSUME NEW u \in Threads, NEW k \in DOMAIN th[u].batch
        PROVE  EscapeFits(th[u], th[u].batch[k], ls, pub, pk2, def, dev.failed, tr2)
    BY Zenon DEF EscapesFit
  <2> DEFINE l == th[u].batch[k]
  <2>2. l \in Lists
    BY <2>1 DEF AllThreads, AllSubmissions, Submissions
  <2>3. EscapeFits(th[u], l, ls, pub, pk, def, dev.failed, tr)
    BY <1>1, <2>1 DEF EscapesFit
  <2>4. \A p \in ls[l].packets : p \in Packets /\ pk2[p].quarantined = pk[p].quarantined
    BY <1>9, <2>2
  <2> HIDE DEF l
  <2>5. EscapeFits(th[u], l, ls, pub, pk2, def, dev.failed, tr2)
    BY <2>3, <2>4 DEF EscapeFits, Doomed
  <2> QED BY <2>5 DEF l
<1> QED BY <1>1, <1>3, <1>4, <1>5, <1>6, <1>7, <1>8, <1>10, <1>11 DEF Fits, last

(* The record of the queue tail: retired from the start, and in flight or  *)
(* out of use.                                                             *)
LEMMA TailIs ==
  ASSUME NEW s \in Sections, next_token \in Nat, next_token < MaximumToken
  PROVE  LET r == [Assigned(s) EXCEPT !.retired = TRUE]
             i == [r EXCEPT !.in_flight = 1]
             o == [r EXCEPT !.quarantined = TRUE]
         IN /\ r \in Records /\ r.assigned /\ r.gpu = "recorded" /\ ~r.leased /\ ~r.submitted /\ r.in_flight = 0
            /\ r.token = next_token + 1
            /\ i \in Records /\ i.assigned = r.assigned /\ i.gpu = r.gpu /\ i.leased = r.leased
            /\ i.submitted = r.submitted /\ i.in_flight = 1 /\ i.token = r.token /\ i.quarantined = r.quarantined
            /\ i.producer = r.producer /\ i.order = r.order /\ i.consumer_value = r.consumer_value
            /\ o \in Records /\ ~o.leased /\ ~o.submitted /\ o.in_flight = 0 /\ o.gpu = "recorded"
<1> DEFINE a == Assigned(s)
<1>1. /\ a \in Records /\ a.assigned /\ a.gpu = "recorded" /\ ~a.leased /\ ~a.submitted /\ a.in_flight = 0
      /\ a.token = next_token + 1
  BY AssignedIs
<1> HIDE DEF a
<1> DEFINE r == [a EXCEPT !.retired = TRUE]
<1>2. /\ r \in Records /\ r.assigned /\ r.gpu = "recorded" /\ ~r.leased /\ ~r.submitted /\ r.in_flight = 0
      /\ r.token = next_token + 1
  BY <1>1 DEF Records
<1> HIDE DEF r
<1> DEFINE i == [r EXCEPT !.in_flight = 1]
           o == [r EXCEPT !.quarantined = TRUE]
<1>3. /\ i \in Records /\ i.assigned = r.assigned /\ i.gpu = r.gpu /\ i.leased = r.leased
      /\ i.submitted = r.submitted /\ i.in_flight = 1
  <2>1. \A n \in 0..1 : [r EXCEPT !.in_flight = n] \in Records
    BY <1>2 DEF Records
  <2>2. 1 \in 0..1
    OBVIOUS
  <2>3. i \in Records
    BY <2>1, <2>2
  <2>4. i.assigned = r.assigned /\ i.gpu = r.gpu /\ i.leased = r.leased
    BY <1>2 DEF Records
  <2>5. i.submitted = r.submitted /\ i.in_flight = 1
    BY <1>2 DEF Records
  <2> QED BY <2>3, <2>4, <2>5
<1>4. /\ i.token = r.token /\ i.quarantined = r.quarantined
      /\ i.producer = r.producer /\ i.order = r.order /\ i.consumer_value = r.consumer_value
  BY <1>2 DEF Records
<1>5. o \in Records
  <2>1. \A b \in BOOLEAN : [r EXCEPT !.quarantined = b] \in Records
    BY <1>2 DEF Records
  <2> QED BY <2>1
<1>6. ~o.leased /\ ~o.submitted /\ o.in_flight = 0 /\ o.gpu = "recorded"
  <2>1. o.leased = r.leased /\ o.submitted = r.submitted /\ o.in_flight = r.in_flight /\ o.gpu = r.gpu
    BY <1>2 DEF Records
  <2> QED BY <1>2, <2>1
<1> QED BY <1>2, <1>3, <1>4, <1>5, <1>6 DEF r, a

(* finish_tail: a tail capture joins the receipt, or does not.             *)
LEMMA FinishTailKeeps ==
  ASSUME IInv, NEW t \in AllThreads, NEW p \in Packets, NEW closed \in BOOLEAN, NEW failing,
         finish_tail(t, p, closed, failing)
  PROVE  IInv'
<1> DEFINE s == Settled
           refused == thread[t].nested \/ s.dev.failed
           b == [thread[t] EXCEPT !.pc = "finish"]
           th2 == [thread EXCEPT ![t] = b]
<1>1. /\ thread[t].pc = "after" /\ device' = s.dev /\ published' = s.pub
      /\ \/ /\ packets' = s.pk /\ transaction' = [transaction EXCEPT !.refused = refused]
            /\ UNCHANGED <<gpu, next_token>>
         \/ record_queue_tail(s, p, closed, failing)
      /\ deferred' = NothingDeferred /\ Step(t, "finish")
      /\ UNCHANGED <<lists, completed, native, content>>
  BY Zenon DEF finish_tail
<1>2. /\ Fits(s.dev, lists, s.pub, NothingDeferred, s.pk, transaction, thread, gpu, completed, native)
      /\ Unretired(lists, s.pk) /\ s \in Sections
  BY SettledKeeps
<1>3. s.pk \in AllPackets /\ s.dev \in Devices /\ s.pub \in AllWords
  BY <1>2, SectionFields
<1>4. /\ Types /\ lists \in AllLists /\ thread \in AllSubmissions /\ gpu \in AllWork /\ completed \in Nat
      /\ next_token \in 0..MaximumToken /\ next_token \in Nat
      /\ \A l \in Lists : lists[l].packets \in SUBSET Packets
  BY ManagerAssumption DEF IInv, Types, AllLists, Items
<1>5. /\ transaction # NoOne /\ transaction \in Transactions /\ transaction.value \in 1..MaximumSignal
      /\ transaction.queue \in AllQueues /\ thread[t] \in Submissions
  BY <1>1, ReceiptIs DEF InReceipt
<1>6. /\ b \in Submissions /\ b.pc = "finish" /\ b.queue = thread[t].queue /\ b.frames = thread[t].frames
      /\ b.value = thread[t].value /\ thread[t].pc \in InReceipt
  BY <1>1, <1>5 DEF Submissions, InReceipt
<1>7. thread' = th2
  BY <1>1, <1>4, <1>5 DEF Step, AllSubmissions
<1>8. deferred' \in Notices /\ refused \in BOOLEAN
  BY <1>1, <1>3, <1>5, NoticesTaken DEF Devices, Submissions
<1> HIDE DEF s, b, th2, refused
<1>9. CASE /\ packets' = s.pk /\ transaction' = [transaction EXCEPT !.refused = refused]
           /\ UNCHANGED <<gpu, next_token>>
  <2> DEFINE tr2 == [transaction EXCEPT !.refused = refused]
  <2>1. /\ tr2 \in Transactions /\ tr2.by = transaction.by /\ tr2.queue = transaction.queue
        /\ tr2.value = transaction.value /\ tr2.packets = transaction.packets
        /\ tr2.positions = transaction.positions /\ tr2.last_position = transaction.last_position
    BY <1>5, <1>8 DEF Transactions
  <2> HIDE DEF tr2
  <2>2. FlightFits(s.pk, thread, transaction)
    BY <1>2, Zenon DEF Fits
  <2>3. Carries(tr2, s.pk) /\ \A x \in Packets : s.pk[x].in_flight = IF x \in tr2.packets THEN 1 ELSE 0
    <3>1. transaction.packets \in SUBSET Packets
      BY <1>5 DEF Transactions
    <3> QED BY <1>5, <2>1, <2>2, <3>1 DEF Carries, FlightFits, InFlight
  <2>4. Fits(s.dev, lists, s.pub, NothingDeferred, s.pk, tr2, thread, gpu, completed, native)
    BY <1>2, <1>3, <1>4, <1>5, <2>1, <2>3, ReceiptGrows
  <2>5. tr2 \in Receipts
    BY <2>1 DEF Receipts
  <2>6. /\ Fits(s.dev, lists, s.pub, NothingDeferred, s.pk, tr2, th2, gpu, completed, native)
        /\ th2 \in AllSubmissions
    BY <1>4, <1>6, <2>4, <2>5, InsideKeeps DEF th2
  <2>7. transaction' = tr2
    BY <1>9 DEF tr2
  <2> QED BY <1>1, <1>2, <1>3, <1>4, <1>7, <1>8, <1>9, <2>5, <2>6, <2>7 DEF IInv, Types
<1>10. CASE record_queue_tail(s, p, closed, failing)
  <2> DEFINE pk == Collected(s.pk, failing)
             g == Retired(s.pk, failing, gpu)
             r == [Assigned(s) EXCEPT !.retired = TRUE]
             i == [r EXCEPT !.in_flight = 1]
             o == [r EXCEPT !.quarantined = TRUE]
             at == transaction.last_position + 1
             tr2 == [transaction EXCEPT !.packets = transaction.packets \cup {p}, !.last_position = at,
                                        !.positions = transaction.positions \cup {<<p, at>>}]
             c == [op |-> "exec", value |-> transaction.value, reads |-> {},
                   writes |-> {<<p, next_token + 1, at>>}, output |-> "none"]
             q == transaction.queue
  <2>1. /\ Fits(s.dev, lists, s.pub, NothingDeferred, pk, transaction, thread, g, completed, native)
        /\ Unretired(lists, pk) /\ pk \in AllPackets /\ g \in AllWork
    BY CollectingKeeps DEF s
  <2>2. /\ Free(s, pk, p) /\ next_token' = next_token + 1
        /\ IF closed
             THEN /\ packets' = [pk EXCEPT ![p] = [r EXCEPT !.in_flight = 1]]
                  /\ CaptureTail(p, r.token, transaction.last_position + 1, g)
             ELSE /\ packets' = [pk EXCEPT ![p] = [r EXCEPT !.quarantined = TRUE]]
                  /\ gpu' = g /\ UNCHANGED transaction
    BY <1>10, Zenon DEF record_queue_tail
  <2>3. ~pk[p].assigned /\ ~pk[p].quarantined /\ next_token < MaximumToken
    BY <2>2 DEF Free
  <2>4. /\ r \in Records /\ r.assigned /\ r.gpu = "recorded" /\ ~r.leased /\ ~r.submitted /\ r.in_flight = 0
        /\ r.token = next_token + 1
        /\ i \in Records /\ i.assigned = r.assigned /\ i.gpu = r.gpu /\ i.leased = r.leased
        /\ i.submitted = r.submitted /\ i.in_flight = 1 /\ i.token = r.token /\ i.quarantined = r.quarantined
        /\ i.producer = r.producer /\ i.order = r.order /\ i.consumer_value = r.consumer_value
        /\ o \in Records /\ ~o.leased /\ ~o.submitted /\ o.in_flight = 0 /\ o.gpu = "recorded"
    BY <1>2, <1>4, <2>3, TailIs
  <2> HIDE DEF pk, g, r, i, o
  <2>5. \A l \in Lists : p \notin lists[l].packets
    BY <1>4, <2>1, <2>3, NothingRefersToFree
  <2>6. p \notin transaction.packets
    <3>1. ~InFlight(transaction, p)
      BY <1>4, <2>1, <2>3, NothingRefersToFree
    <3> QED BY <1>5, <3>1 DEF InFlight
  <2>7. next_token' \in 0..MaximumToken /\ next_token + 1 \in 0..MaximumToken
    BY <1>4, <2>2, <2>3, ManagerAssumption
  <2>8. transaction \in Receipts
    BY <1>5 DEF Receipts
  <2>9. ASSUME NEW x, packets' = [pk EXCEPT ![p] = x] PROVE Unretired(lists, packets')
    <3>1. \A y \in Packets : y # p => packets'[y] = pk[y]
      BY <2>1, <2>9 DEF AllPackets
    <3> QED BY <1>4, <2>1, <2>5, <3>1 DEF Unretired
  <2>10. CASE closed
    <3> DEFINE pk1 == [pk EXCEPT ![p] = r]
               pk2 == [pk EXCEPT ![p] = i]
    <3>1. /\ Fits(s.dev, lists, s.pub, NothingDeferred, pk1, transaction, thread, g, completed, native)
          /\ pk1 \in AllPackets
      BY <1>4, <2>1, <2>3, <2>4, AssignKeeps
    <3>2. /\ pk1[p] = r /\ pk2[p] = i /\ pk2 \in AllPackets
          /\ \A x \in Packets : x # p => pk1[x] = pk[x] /\ pk2[x] = pk[x]
      BY <2>1, <2>4 DEF AllPackets
    <3> HIDE DEF pk1, pk2
    <3>3. /\ tr2 \in Transactions /\ tr2.by = transaction.by /\ tr2.queue = q
          /\ tr2.value = transaction.value /\ tr2.packets = transaction.packets \cup {p}
          /\ tr2.positions = transaction.positions \cup {<<p, at>>} /\ tr2.last_position = at
          /\ at \in Nat /\ at = transaction.last_position + 1
      <4>1. transaction.packets \cup {p} \in SUBSET Packets
        BY <1>5 DEF Transactions
      <4>2. at \in Nat
        BY <1>5 DEF Transactions
      <4>3. transaction.positions \cup {<<p, at>>} \in SUBSET (Packets \X Nat)
        BY <1>5, <4>2 DEF Transactions
      <4> HIDE DEF at
      <4>4. tr2 \in Transactions
        BY <1>5, <4>1, <4>2, <4>3 DEF Transactions
      <4>5. /\ tr2.by = transaction.by /\ tr2.queue = q
            /\ tr2.value = transaction.value /\ tr2.packets = transaction.packets \cup {p}
        BY <1>5 DEF Transactions
      <4>6. tr2.positions = transaction.positions \cup {<<p, at>>} /\ tr2.last_position = at
        BY <1>5 DEF Transactions
      <4> QED BY <4>2, <4>4, <4>5, <4>6 DEF at
    <3>4. /\ transaction' = tr2 /\ gpu' = Appended(g, q, c) /\ packets' = pk2
      BY <2>2, <2>4, <2>10 DEF CaptureTail, Appended, pk2, i
    <3>5. /\ c \in Commands /\ c.op = "exec" /\ c.value = transaction.value /\ c.value > 0
          /\ c.reads = {} /\ c.output = "none" /\ c.writes = {<<p, next_token + 1, at>>}
      <4>1. {<<p, next_token + 1, at>>} \in SUBSET (Packets \X (0..MaximumToken) \X Nat)
        BY <2>7, <3>3
      <4>2. transaction.value \in 0..MaximumSignal /\ transaction.value > 0
        BY <1>5, ManagerAssumption
      <4>3. c \in [op : {"exec"}, value : 0..MaximumSignal,
                   writes : SUBSET (Packets \X (0..MaximumToken) \X Nat), reads : SUBSET (Packets \X (0..MaximumToken)),
                   output : {"none", "read", "write"}]
        BY <4>1, <4>2
      <4>4. at \in Nat /\ \A w \in c.writes : w[3] <= at
        BY <3>3
      <4>5. c \in Execs
        BY <4>3, <4>4 DEF Execs
      <4> QED BY <4>2, <4>5 DEF Commands
    <3> HIDE DEF tr2, c, at, q
    <3>6. FlightFits(pk1, thread, transaction)
      BY <3>1, Zenon DEF Fits
    <3>7. Carries(tr2, pk1)
      <4>1. \A x \in transaction.packets : /\ pk1[x].assigned /\ pk1[x].gpu = "recorded"
                                           /\ \E k \in 1..transaction.last_position : <<x, k>> \in transaction.positions
        <5>1. transaction.packets \in SUBSET Packets
          BY <1>5 DEF Transactions
        <5> QED BY <1>5, <3>6, <5>1 DEF FlightFits, InFlight
      <4>2. \A k \in 1..transaction.last_position : k \in 1..tr2.last_position
        BY <1>5, <3>3 DEF Transactions
      <4>3. at \in 1..tr2.last_position
        BY <1>5, <3>3 DEF Transactions
      <4> QED BY <2>4, <3>2, <3>3, <4>1, <4>2, <4>3 DEF Carries
    <3>8. ASSUME NEW x \in Packets
          PROVE
           /\ pk2[x].gpu = pk1[x].gpu /\ pk2[x].assigned = pk1[x].assigned
           /\ pk2[x].quarantined = pk1[x].quarantined /\ pk2[x].leased = pk1[x].leased
           /\ pk2[x].submitted = pk1[x].submitted /\ pk2[x].producer = pk1[x].producer
           /\ pk2[x].order = pk1[x].order /\ pk2[x].token = pk1[x].token
           /\ pk2[x].consumer_value = pk1[x].consumer_value
           /\ pk2[x].in_flight = IF x \in tr2.packets THEN 1 ELSE 0
      <4>1. pk1[x].in_flight = IF x \in transaction.packets THEN 1 ELSE 0
        BY <1>5, <3>6 DEF FlightFits, InFlight
      <4>2. CASE x = p
        BY <2>4, <3>2, <3>3, <4>2
      <4>3. CASE x # p
        BY <3>2, <3>3, <4>1, <4>3
      <4> QED BY <4>2, <4>3
    <3>9. Fits(s.dev, lists, s.pub, NothingDeferred, pk2, tr2, thread, g, completed, native)
      <4>1. transaction.packets \subseteq tr2.packets
        BY <3>3
      <4> QED BY <1>4, <1>5, <2>1, <3>1, <3>3, <3>7, <3>8, <4>1, ReceiptGrows DEF q
    <3>10. tr2 \in Receipts /\ tr2 # NoOne
      BY <3>3, ManagerAssumption DEF Receipts
    <3>11. MayWrite(c, pk2, tr2, lists, s.pub, NothingDeferred)
      <4>1. pk2[p].assigned /\ pk2[p].token = next_token + 1
        BY <2>4, <3>2
      <4>2. InFlight(tr2, p) /\ c.value = tr2.value /\ c.value > 0
        BY <3>3, <3>5, <3>10 DEF InFlight
      <4>3. \A w \in c.writes : w[1] = p /\ w[2] = next_token + 1
        BY <3>5
      <4> QED BY <4>1, <4>2, <4>3 DEF MayWrite
    <3>12. MayRead(c, pk2, thread) /\ MayOutput(c, s.pub, NothingDeferred, s.dev.failed)
      BY <3>5 DEF MayRead, MayOutput
    <3>13. /\ Fits(s.dev, lists, s.pub, NothingDeferred, pk2, tr2, thread, Appended(g, q, c), completed, native)
           /\ Appended(g, q, c) \in AllWork
      <4>1. c \in Commands /\ c.op = "exec" /\ (c.value > 0 => tr2 # NoOne /\ c.value = tr2.value /\ q = tr2.queue)
        BY <3>3, <3>5, <3>10
      <4>2. q \in AllQueues
        BY <1>5 DEF q, Transactions
      <4>3. s.dev \in Devices /\ lists \in AllLists /\ thread \in AllSubmissions /\ completed \in Nat
        BY <1>3, <1>4, <1>5
      <4> QED BY <2>1, <3>2, <3>9, <3>10, <3>11, <3>12, <4>1, <4>2, <4>3, ExecKeeps
    <3>14. /\ Fits(s.dev, lists, s.pub, NothingDeferred, pk2, tr2, th2, gpu', completed, native)
           /\ th2 \in AllSubmissions /\ gpu' \in AllWork
      BY <1>4, <1>6, <3>4, <3>10, <3>13, InsideKeeps DEF th2
    <3>15. Unretired(lists, packets')
      BY <2>9, <3>4 DEF pk2
    <3> QED BY <1>1, <1>3, <1>4, <1>7, <1>8, <2>7, <3>2, <3>4, <3>10, <3>14, <3>15 DEF IInv, Types
  <2>11. CASE ~closed
    <3> DEFINE pk2 == [pk EXCEPT ![p] = o]
    <3>1. /\ Fits(s.dev, lists, s.pub, NothingDeferred, pk2, transaction, thread, g, completed, native)
          /\ pk2 \in AllPackets
      BY <1>4, <2>1, <2>3, <2>4, AssignKeeps
    <3>2. packets' = pk2 /\ gpu' = g /\ transaction' = transaction
      BY <2>2, <2>11 DEF o
    <3>3. Unretired(lists, packets')
      BY <2>9, <3>2
    <3> HIDE DEF pk2
    <3>4. /\ Fits(s.dev, lists, s.pub, NothingDeferred, pk2, transaction, th2, g, completed, native)
          /\ th2 \in AllSubmissions
      BY <1>4, <1>6, <2>8, <3>1, InsideKeeps DEF th2
    <3> QED BY <1>1, <1>3, <1>4, <1>7, <1>8, <2>1, <2>7, <2>8, <3>1, <3>2, <3>3, <3>4 DEF IInv, Types
  <2> QED BY <2>10, <2>11
<1> QED BY <1>1, <1>9, <1>10
-----------------------------------------------------------------------------
(* A receipt ends: its packets are submitted under its value, or out of    *)
(* use.                                                                    *)
Ends(tr, pk, ok, pk2) ==
  /\ pk2 \in AllPackets
  /\ \A p \in Packets :
       /\ pk2[p].gpu = pk[p].gpu /\ pk2[p].assigned = pk[p].assigned /\ pk2[p].retired = pk[p].retired
       /\ pk2[p].leased = pk[p].leased /\ pk2[p].token = pk[p].token
       /\ pk2[p].consumer_value = pk[p].consumer_value /\ pk2[p].in_flight = 0
       /\ pk[p].quarantined => pk2[p].quarantined
       /\ p \notin tr.packets => pk2[p] = pk[p]
       /\ p \in tr.packets /\ ok => /\ pk2[p].submitted /\ pk2[p].producer = tr.queue
                                    /\ pk2[p].order[1] = tr.value
       /\ p \in tr.packets /\ ~ok => pk2[p].quarantined

(* What finish_transaction makes of each packet.                           *)
LEMMA SettleIs ==
  ASSUME transaction \in Transactions, NEW pk \in AllPackets, NEW ok \in BOOLEAN,
         \A p \in Packets : pk[p].in_flight = IF p \in transaction.packets THEN 1 ELSE 0,
         Carries(transaction, pk)
  PROVE  Ends(transaction, pk, ok, Settle(pk, ok))
<1> DEFINE tr == transaction
           At(p) == CHOOSE i \in 1..tr.last_position : <<p, i>> \in tr.positions
           pk2 == Settle(pk, ok)
<1>1. /\ tr.value \in 1..MaximumSignal /\ tr.queue \in AllQueues /\ tr.last_position \in Nat
      /\ tr.packets \in SUBSET Packets
  BY DEF Transactions
<1>2. pk2 = [p \in Packets |->
               IF p \notin tr.packets THEN pk[p]
               ELSE IF ok THEN [pk[p] EXCEPT !.in_flight = pk[p].in_flight - 1, !.submitted = TRUE, !.producer = tr.queue,
                                             !.order = <<tr.value, At(p)>>]
               ELSE [pk[p] EXCEPT !.in_flight = pk[p].in_flight - 1, !.quarantined = TRUE]]
  BY DEF Settle
<1>3. \A p \in tr.packets : At(p) \in Nat
  <2>1. ASSUME NEW p \in tr.packets PROVE At(p) \in 1..tr.last_position
    BY <2>1 DEF Carries
  <2>2. \A n \in 1..tr.last_position : n \in Nat
    BY <1>1
  <2> HIDE DEF At, pk2
  <2> QED BY <2>1, <2>2
<1> HIDE DEF At, pk2
<1>4. ASSUME NEW p \in Packets
      PROVE  /\ pk2[p] \in Records
             /\ pk2[p].gpu = pk[p].gpu /\ pk2[p].assigned = pk[p].assigned /\ pk2[p].retired = pk[p].retired
             /\ pk2[p].leased = pk[p].leased /\ pk2[p].token = pk[p].token
             /\ pk2[p].consumer_value = pk[p].consumer_value /\ pk2[p].in_flight = 0
             /\ pk[p].quarantined => pk2[p].quarantined
             /\ p \notin tr.packets => pk2[p] = pk[p]
             /\ p \in tr.packets /\ ok => /\ pk2[p].submitted /\ pk2[p].producer = tr.queue
                                          /\ pk2[p].order[1] = tr.value
             /\ p \in tr.packets /\ ~ok => pk2[p].quarantined
  <2>1. pk[p] \in Records
    BY DEF AllPackets
  <2>2. CASE p \notin tr.packets
    <3>1. pk2[p] = pk[p]
      BY <1>2, <2>2
    <3> QED BY <2>1, <2>2, <3>1
  <2>3. CASE p \in tr.packets /\ ok
    <3> DEFINE o == <<tr.value, At(p)>>
               q == tr.queue
    <3>1. o \in Orders /\ o[1] = tr.value /\ q \in AllQueues
      BY <1>1, <1>3, <2>3, ManagerAssumption DEF Orders
    <3>2. pk2[p] = [pk[p] EXCEPT !.in_flight = 0, !.submitted = TRUE, !.producer = q, !.order = o]
      <4>1. pk[p].in_flight - 1 = 0
        BY <2>3
      <4> QED BY <1>2, <2>3, <4>1
    <3> HIDE DEF o, q
    <3>3. pk2[p] \in Records
      <4>1. \A n \in 0..1, b \in BOOLEAN : [pk[p] EXCEPT !.in_flight = n, !.submitted = b, !.producer = q, !.order = o] \in Records
        BY <2>1, <3>1 DEF Records
      <4>2. 0 \in 0..1 /\ TRUE \in BOOLEAN
        OBVIOUS
      <4> QED BY <3>2, <4>1, <4>2
    <3>4. /\ pk2[p].gpu = pk[p].gpu /\ pk2[p].assigned = pk[p].assigned /\ pk2[p].retired = pk[p].retired
          /\ pk2[p].leased = pk[p].leased /\ pk2[p].token = pk[p].token
      BY <2>1, <3>2 DEF Records
    <3>5. /\ pk2[p].consumer_value = pk[p].consumer_value /\ pk2[p].in_flight = 0
          /\ pk2[p].quarantined = pk[p].quarantined
      BY <2>1, <3>2 DEF Records
    <3>6. pk2[p].submitted /\ pk2[p].producer = q /\ pk2[p].order = o
      BY <2>1, <3>2 DEF Records
    <3> QED BY <2>3, <3>1, <3>3, <3>4, <3>5, <3>6 DEF q
  <2>4. CASE p \in tr.packets /\ ~ok
    <3>1. pk2[p] = [pk[p] EXCEPT !.in_flight = 0, !.quarantined = TRUE]
      <4>1. pk[p].in_flight - 1 = 0
        BY <2>4
      <4> QED BY <1>2, <2>4, <4>1
    <3>2. pk2[p] \in Records
      <4>1. \A n \in 0..1, b \in BOOLEAN : [pk[p] EXCEPT !.in_flight = n, !.quarantined = b] \in Records
        BY <2>1 DEF Records
      <4>2. 0 \in 0..1 /\ TRUE \in BOOLEAN
        OBVIOUS
      <4> QED BY <3>1, <4>1, <4>2
    <3>3. /\ pk2[p].gpu = pk[p].gpu /\ pk2[p].assigned = pk[p].assigned /\ pk2[p].retired = pk[p].retired
          /\ pk2[p].leased = pk[p].leased /\ pk2[p].token = pk[p].token
      BY <2>1, <3>1 DEF Records
    <3>4. pk2[p].consumer_value = pk[p].consumer_value /\ pk2[p].in_flight = 0 /\ pk2[p].quarantined
      BY <2>1, <3>1 DEF Records
    <3> QED BY <2>4, <3>2, <3>3, <3>4
  <2> QED BY <2>2, <2>3, <2>4
<1>5. pk2 \in AllPackets
  BY <1>2, <1>4 DEF AllPackets
<1> QED BY <1>4, <1>5 DEF Ends, pk2

(* The receipt of a thread ends, with or without its signal.               *)
Leaves(t, s, r) ==
  /\ t # Service => s = Idle
  /\ t = Service => s.pc \in {"consume", "stopped"} /\ s.queue = r.queue /\ s.frames = r.frames /\ s.value = r.value

(* The queues with one signal more, or as they were.                      *)
Signalled(g, g2) ==
  /\ Longer(g, g2)
  /\ \A r \in AllQueues : \A i \in DOMAIN g2[r] : i \in DOMAIN g[r] \/ Is(g2, r, i, "signal")

(* What has become of the device, the packets and the queues by then.      *)
Over(tr, pk, dev, g, done, pk2, dev2, g2) ==
  \E ok \in BOOLEAN : /\ Ends(tr, pk, ok, pk2) /\ Signalled(g, g2)
                      /\ dev2.failed = dev.failed /\ dev.last_signal <= dev2.last_signal
                      /\ ok => dev2.last_signal = tr.value
                      /\ Timeline(g2, done, dev2.last_signal, NoOne, dev2.failed)

(* A receipt that is over leaves a state the invariant allows.             *)
LEMMA EndKeeps ==
  ASSUME NEW dev \in Devices, NEW ls \in AllLists, NEW pub, NEW def, NEW pk \in AllPackets, NEW tr \in Transactions,
         NEW th \in AllSubmissions, NEW g \in AllWork, NEW done \in Nat, NEW nat,
         Fits(dev, ls, pub, def, pk, tr, th, g, done, nat),
         NEW t \in AllThreads, th[t].pc = "finish", NEW s \in Submissions, Leaves(t, s, th[t]),
         NEW pk2, NEW dev2 \in Devices, NEW g2 \in AllWork, Over(tr, pk, dev, g, done, pk2, dev2, g2),
         NEW th2, th2 = [th EXCEPT ![t] = s]
  PROVE  Fits(dev2, ls, pub, def, pk2, NoOne, th2, g2, done, nat)
<1>a. PICK ok \in BOOLEAN : /\ Ends(tr, pk, ok, pk2) /\ Signalled(g, g2)
                            /\ dev2.failed = dev.failed /\ dev.last_signal <= dev2.last_signal
                            /\ ok => dev2.last_signal = tr.value
                            /\ Timeline(g2, done, dev2.last_signal, NoOne, dev2.failed)
  BY DEF Over
<1> USE <1>a
<1> DEFINE last == dev.last_signal
           last2 == dev2.last_signal
           q == tr.queue
<1>0. /\ Longer(g, g2)
      /\ \A r \in AllQueues : \A i \in DOMAIN g2[r] : i \in DOMAIN g[r] \/ Is(g2, r, i, "signal")
  BY DEF Signalled
<1>1. /\ Timeline(g, done, last, tr, dev.failed) /\ FencesFit(g, done, last, pk)
      /\ WritesFit(g, pk, tr, ls, pub, def) /\ ReadsFit(g, pk, th)
      /\ LeasesFit(pk, th, tr) /\ FlightFits(pk, th, tr)
      /\ ListsFit(ls, nat, pub, pk) /\ EscapesFit(th, ls, pub, pk, def, dev.failed, tr)
      /\ OutputsFit(g, pub, def, dev.failed)
  BY Zenon DEF Fits
<1>2. /\ last \in Nat /\ last2 \in Nat /\ last <= last2 /\ q \in AllQueues /\ tr.packets \in SUBSET Packets
      /\ tr # NoOne /\ tr.value = last + 1 /\ tr.by = t /\ tr.value \in Nat
  BY <1>1, ManagerAssumption DEF Devices, Transactions, FlightFits, InReceipt, Timeline
<1>3. Service \in AllThreads /\ Threads \subseteq AllThreads /\ Service \notin Threads
  BY ManagerAssumption DEF AllThreads
<1>4. /\ pk2 \in AllPackets
      /\ \A p \in Packets :
           /\ pk2[p].gpu = pk[p].gpu /\ pk2[p].assigned = pk[p].assigned /\ pk2[p].retired = pk[p].retired
           /\ pk2[p].leased = pk[p].leased /\ pk2[p].token = pk[p].token
           /\ pk2[p].consumer_value = pk[p].consumer_value /\ pk2[p].in_flight = 0
           /\ pk[p].quarantined => pk2[p].quarantined
           /\ p \notin tr.packets => pk2[p] = pk[p]
           /\ p \in tr.packets /\ ok => /\ pk2[p].submitted /\ pk2[p].producer = tr.queue
                                        /\ pk2[p].order[1] = tr.value
           /\ p \in tr.packets /\ ~ok => pk2[p].quarantined
  BY DEF Ends
<1>5. th2 \in AllSubmissions /\ th2[t] = s /\ \A u \in AllThreads : u # t => th2[u] = th[u]
  BY DEF AllSubmissions
<1>6. \A r \in AllQueues : \A i \in DOMAIN g2[r] : ~Is(g2, r, i, "signal") =>
        i \in DOMAIN g[r] /\ g2[r][i] = g[r][i] /\ \A op : Is(g2, r, i, op) => Is(g, r, i, op)
  BY <1>0 DEF Longer, Is
<1>7. \A p \in tr.packets : pk[p].gpu = "recorded" /\ pk[p].assigned
  BY <1>1, <1>2 DEF FlightFits, InFlight
<1>8. \A u \in AllThreads : u # t => th[u].pc \notin InReceipt
  BY <1>1, <1>2 DEF FlightFits
<1>9. s.pc \notin InReceipt /\ (t # Service => s.batch = <<>>)
  BY DEF Leaves, Idle, InReceipt
<1> HIDE DEF last, last2, q
<1>10. \A r \in AllQueues : \A v : Passed(g, done, r, End(g, r), v) => Passed(g2, done, r, End(g2, r), v)
  BY <1>0, PassedGrows
<1>11. \A r \in AllQueues : \A v, i : Passed(g, done, r, i, v) => Passed(g2, done, r, i, v)
  BY <1>0, PassedGrows
<1>12. FencesFit(g2, done, last2, pk2)
  <2>1. ASSUME NEW r \in AllQueues, NEW i \in DOMAIN g2[r], Is(g2, r, i, "fence"),
               NEW p \in g2[r][i].packets, ~pk2[p].quarantined
        PROVE  /\ pk2[p].assigned /\ pk2[p].gpu = "retiring" /\ r = pk2[p].producer
               /\ Passed(g2, done, r, i, pk2[p].order[1] - 1)
    <3>1. p \in Packets
      BY <2>1, Standing, Kinds DEF Is
    <3>2. i \in DOMAIN g[r] /\ g2[r][i] = g[r][i] /\ Is(g, r, i, "fence")
      BY <1>6, <2>1 DEF Is
    <3>3. /\ pk[p].assigned /\ pk[p].gpu = "retiring" /\ r = pk[p].producer
          /\ Passed(g, done, r, i, pk[p].order[1] - 1)
      BY <1>1, <1>4, <2>1, <3>1, <3>2 DEF FencesFit
    <3>4. pk2[p] = pk[p]
      BY <1>4, <1>7, <3>1, <3>3
    <3> QED BY <1>11, <3>3, <3>4
  <2>2. ASSUME NEW p \in Packets, pk2[p].assigned, ~pk2[p].quarantined
        PROVE  /\ pk2[p].gpu \in {"retiring", "ready", "consuming"} => pk2[p].submitted
               /\ pk2[p].submitted => /\ pk2[p].order[1] \in 1..last2
                                      /\ Passed(g2, done, pk2[p].producer, End(g2, pk2[p].producer), pk2[p].order[1] - 1)
    <3>1. CASE p \in tr.packets
      <4>1. ok
        BY <1>4, <2>2, <3>1
      <4>2. pk2[p].order[1] = tr.value /\ pk2[p].producer = q /\ pk2[p].gpu = "recorded"
        BY <1>4, <1>7, <3>1, <4>1 DEF q
      <4>3. tr.value \in 1..last2 /\ tr.value - 1 = last
        BY <1>2, <4>1 DEF last2
      <4>4. Passed(g, done, q, End(g, q), last)
        BY <1>1, <1>2 DEF Timeline, q
      <4>5. Passed(g2, done, q, End(g2, q), last)
        BY <1>2, <1>10, <4>4
      <4> QED BY <4>2, <4>3, <4>5
    <3>2. CASE p \notin tr.packets
      <4>1. pk2[p] = pk[p]
        BY <1>4, <3>2
      <4>2. /\ pk[p].gpu \in {"retiring", "ready", "consuming"} => pk[p].submitted
            /\ pk[p].submitted => /\ pk[p].order[1] \in 1..last
                                  /\ Passed(g, done, pk[p].producer, End(g, pk[p].producer), pk[p].order[1] - 1)
        BY <1>1, <2>2, <4>1 DEF FencesFit
      <4>3. pk[p].producer \in AllQueues
        BY DEF AllPackets, Records
      <4>4. \A n \in 1..last : n \in 1..last2
        BY <1>2
      <4> QED BY <1>10, <4>1, <4>2, <4>3, <4>4
    <3> QED BY <3>1, <3>2
  <2> QED BY <2>1, <2>2, Zenon DEF FencesFit
<1>13. WritesFit(g2, pk2, NoOne, ls, pub, def)
  <2>1. SUFFICES ASSUME NEW r \in AllQueues, NEW i \in DOMAIN g2[r], Is(g2, r, i, "exec"), NEW w \in g2[r][i].writes
        PROVE  /\ pk2[w[1]].assigned /\ pk2[w[1]].token = w[2]
               /\ \/ pk2[w[1]].quarantined
                  \/ g2[r][i].value = 0 /\ Doomed(w[1], pk2, ls, pub, def)
                  \/ g2[r][i].value > 0 /\ InFlight(NoOne, w[1]) /\ g2[r][i].value = NoOne.value
                  \/ g2[r][i].value > 0 /\ Received(g2, pk2, r, i, w[1])
    BY Zenon DEF WritesFit
  <2> DEFINE p == w[1]
             v == g2[r][i].value
  <2>2. p \in Packets /\ v \in Nat
    BY <2>1, Standing, Kinds, ManagerAssumption DEF Is
  <2>3. i \in DOMAIN g[r] /\ g2[r][i] = g[r][i] /\ Is(g, r, i, "exec")
    BY <1>6, <2>1 DEF Is
  <2>4. /\ pk[p].assigned /\ pk[p].token = w[2]
        /\ \/ pk[p].quarantined
           \/ v = 0 /\ Doomed(p, pk, ls, pub, def)
           \/ v > 0 /\ InFlight(tr, p) /\ v = tr.value
           \/ v > 0 /\ Received(g, pk, r, i, p)
    BY <1>1, <2>1, <2>3 DEF WritesFit
  <2>5. v > 0 /\ v = tr.value => r = q
    BY <1>1, <1>2, <2>3 DEF Timeline, Ordered, q
  <2> HIDE DEF p, v
  <2>6. Doomed(p, pk, ls, pub, def) => Doomed(p, pk2, ls, pub, def)
    BY <1>4, <2>2 DEF Doomed
  <2>7. CASE v > 0 /\ InFlight(tr, p) /\ v = tr.value
    <3>1. CASE ok
      <4>1. /\ pk2[p].submitted /\ pk2[p].producer = q /\ pk2[p].order[1] = tr.value /\ pk2[p].gpu = "recorded"
        BY <1>4, <1>7, <2>2, <2>7, <3>1 DEF InFlight, q
      <4>2. Received(g2, pk2, r, i, p)
        BY <2>5, <2>7, <4>1 DEF Received, Behind, v
      <4> QED BY <1>4, <2>2, <2>4, <2>7, <4>2 DEF p, v
    <3>2. CASE ~ok
      <4>1. pk2[p].quarantined
        BY <1>4, <2>2, <2>7, <3>2 DEF InFlight
      <4> QED BY <1>4, <2>2, <2>4, <4>1 DEF p, v
    <3> QED BY <3>1, <3>2
  <2>8. CASE v > 0 /\ Received(g, pk, r, i, p) /\ ~pk[p].quarantined
    <3>1. CASE p \in tr.packets /\ ok
      <4>1. /\ pk2[p].submitted /\ pk2[p].producer = q /\ pk2[p].order[1] = tr.value /\ pk2[p].gpu = "recorded"
        BY <1>4, <1>7, <2>2, <3>1 DEF q
      <4>2. v <= pk[p].order[1] /\ pk[p].submitted
        <5>1. pk[p].order[1] \in Nat
          BY <2>2, ManagerAssumption DEF AllPackets, Records, Orders
        <5> QED BY <2>2, <2>3, <2>8, <5>1 DEF Received, v
      <4>3. pk[p].order[1] \in 1..last
        BY <1>1, <2>2, <2>4, <2>8, <4>2 DEF FencesFit
      <4>4. v < tr.value
        BY <1>2, <2>2, <4>2, <4>3
      <4>5. Received(g2, pk2, r, i, p)
        BY <4>1, <4>4 DEF Received, Behind, v
      <4> QED BY <1>4, <2>2, <2>4, <2>8, <4>5 DEF p, v
    <3>2. CASE p \in tr.packets /\ ~ok
      <4>1. pk2[p].quarantined
        BY <1>4, <2>2, <3>2
      <4> QED BY <1>4, <2>2, <2>4, <4>1 DEF p, v
    <3>3. CASE p \notin tr.packets
      <4>1. pk2[p] = pk[p]
        BY <1>4, <2>2, <3>3
      <4>2. Behind(g2, pk2, r, i, p)
        <5>1. Behind(g, pk, r, i, p)
          BY <2>8 DEF Received
        <5>2. \A x \in AllQueues : \A j \in DOMAIN g[x] : j \in DOMAIN g2[x] /\ g2[x][j] = g[x][j]
          BY <1>0 DEF Longer
        <5>3. \A j \in DOMAIN g2[r] : Is(g2, r, j, "fence") => Is(g, r, j, "fence") /\ g2[r][j] = g[r][j] /\ j \in DOMAIN g[r]
          BY <1>6 DEF Is
        <5> QED BY <4>1, <5>1, <5>2, <5>3 DEF Behind, Is
      <4>3. Received(g2, pk2, r, i, p)
        BY <2>3, <2>8, <4>1, <4>2 DEF Received
      <4> QED BY <1>4, <2>2, <2>4, <2>8, <4>3 DEF p, v
    <3> QED BY <3>1, <3>2, <3>3
  <2>9. CASE pk[p].quarantined
    BY <1>4, <2>2, <2>4, <2>9 DEF p, v
  <2>10. CASE v = 0 /\ Doomed(p, pk, ls, pub, def)
    BY <1>4, <2>2, <2>4, <2>6, <2>10 DEF p, v
  <2> QED BY <2>4, <2>7, <2>8, <2>9, <2>10
<1>14. ReadsFit(g2, pk2, th2)
  <2>1. SUFFICES ASSUME NEW r \in AllQueues, NEW i \in DOMAIN g2[r], Is(g2, r, i, "exec"), NEW x \in g2[r][i].reads
        PROVE  /\ g2[r][i].value > 0 /\ pk2[x[1]].assigned /\ pk2[x[1]].token = x[2]
               /\ \/ pk2[x[1]].quarantined
                  \/ /\ pk2[x[1]].leased /\ x[1] \in th2[Service].frames
                     /\ th2[Service].pc \in Reading /\ g2[r][i].value = th2[Service].value
                  \/ pk2[x[1]].gpu = "consuming" /\ pk2[x[1]].consumer_value >= g2[r][i].value
    BY Zenon DEF ReadsFit
  <2>2. x[1] \in Packets
    BY <2>1, Standing, Kinds DEF Is
  <2>3. i \in DOMAIN g[r] /\ g2[r][i] = g[r][i] /\ Is(g, r, i, "exec")
    BY <1>6, <2>1 DEF Is
  <2>4. /\ th2[Service].frames = th[Service].frames /\ th2[Service].value = th[Service].value
        /\ th[Service].pc \in Reading => th2[Service].pc \in Reading
    BY <1>3, <1>5 DEF Leaves, Reading
  <2>5. /\ g[r][i].value > 0 /\ pk[x[1]].assigned /\ pk[x[1]].token = x[2]
        /\ \/ pk[x[1]].quarantined
           \/ /\ pk[x[1]].leased /\ x[1] \in th[Service].frames
              /\ th[Service].pc \in Reading /\ g[r][i].value = th[Service].value
           \/ pk[x[1]].gpu = "consuming" /\ pk[x[1]].consumer_value >= g[r][i].value
    BY <1>1, <2>1, <2>3 DEF ReadsFit
  <2> QED BY <1>4, <2>2, <2>3, <2>4, <2>5
<1>15. LeasesFit(pk2, th2, NoOne)
  <2>1. /\ th2[Service].frames = th[Service].frames /\ th2[Service].queue = th[Service].queue
        /\ th2[Service].pc = "idle" => th[Service].pc = "idle"
        /\ th2[Service].pc \notin InReceipt
        /\ th2[Service].pc \in {"consume", "stopped"} \/ th2[Service].pc = th[Service].pc
        /\ th2[Service].pc = "consume" => th2[Service].value <= MaximumSignal
    <3>1. CASE t = Service
      <4>1. th[Service].value = tr.value
        BY <1>1, <3>1 DEF LeasesFit
      <4>2. tr.value <= MaximumSignal
        BY ManagerAssumption DEF Transactions
      <4> QED BY <1>5, <3>1, <4>1, <4>2 DEF Leaves, InReceipt
    <3>2. CASE t # Service
      BY <1>1, <1>3, <1>5, <1>8, <3>2 DEF LeasesFit
    <3> QED BY <3>1, <3>2
  <2>2. th[Service].frames \in SUBSET Packets
    BY <1>3 DEF AllSubmissions, Submissions
  <2>3. \A p \in Packets : /\ pk2[p].assigned = pk[p].assigned /\ pk2[p].leased = pk[p].leased
                           /\ pk2[p].gpu = pk[p].gpu /\ (pk[p].quarantined => pk2[p].quarantined)
    BY <1>4
  <2>4. /\ \A p \in Packets : pk[p].leased => pk[p].assigned /\ (pk[p].quarantined \/ pk[p].gpu = "ready")
        /\ th[Service].pc = "idle" => th[Service].frames = {}
        /\ \A p \in th[Service].frames : pk[p].assigned /\ (pk[p].quarantined \/ pk[p].leased)
        /\ th[Service].pc \in Reading \cup {"idle", "forward"} /\ th[Service].queue = PrivateQueue
    BY <1>1 DEF LeasesFit
  <2> QED BY <2>1, <2>2, <2>3, <2>4 DEF LeasesFit, InReceipt, Reading
<1>16. FlightFits(pk2, th2, NoOne)
  <2>1. \A u \in AllThreads : th2[u].pc \notin InReceipt
    BY <1>5, <1>8, <1>9
  <2> QED BY <1>4, <2>1 DEF FlightFits, InFlight
<1>17. \A l \in Lists : ls[l].packets \in SUBSET Packets
  BY DEF AllLists, Items
<1>18. ListsFit(ls, nat, pub, pk2)
  <2>1. \A l \in Lists : {<<p, pk2[p].token>> : p \in ls[l].packets} = {<<p, pk[p].token>> : p \in ls[l].packets}
    BY <1>4, <1>17
  <2>2. \A l \in Lists : /\ nat[l].writes = {<<p, pk2[p].token>> : p \in ls[l].packets}
                         /\ \A p \in ls[l].packets : pk2[p].assigned /\ pk2[p].gpu = "recorded"
    BY <1>1, <1>4, <1>17, <2>1 DEF ListsFit
  <2> QED BY <1>1, <2>2, Zenon DEF ListsFit
<1>19. EscapesFit(th2, ls, pub, pk2, def, dev2.failed, NoOne)
  <2>1. SUFFICES ASSUME NEW u \in Threads, NEW k \in DOMAIN th2[u].batch
        PROVE  EscapeFits(th2[u], th2[u].batch[k], ls, pub, pk2, def, dev2.failed, NoOne)
    BY Zenon DEF EscapesFit
  <2>2. u # t
    BY <1>3, <1>5, <1>9, <2>1
  <2>3. th2[u] = th[u] /\ u \in AllThreads
    BY <1>3, <1>5, <2>2
  <2> DEFINE l == th[u].batch[k]
  <2>4. l \in Lists
    BY <2>1, <2>3 DEF AllSubmissions, Submissions
  <2>5. EscapeFits(th[u], l, ls, pub, pk, def, dev.failed, tr)
    BY <1>1, <2>1, <2>3 DEF EscapesFit
  <2>6. th[u].pc # "forward"
    BY <1>8, <2>2, <2>3 DEF InReceipt
  <2>7. \A p \in ls[l].packets : p \in Packets /\ (pk[p].quarantined => pk2[p].quarantined)
    BY <1>4, <1>17, <2>4
  <2> HIDE DEF l
  <2>8. EscapeFits(th[u], l, ls, pub, pk2, def, dev2.failed, NoOne)
    BY <2>5, <2>6, <2>7 DEF EscapeFits, Doomed
  <2> QED BY <2>3, <2>8 DEF l
<1>20. OutputsFit(g2, pub, def, dev2.failed)
  <2>1. ASSUME NEW r \in AllQueues, NEW i \in DOMAIN g2[r], Is(g2, r, i, "exec")
        PROVE  Is(g, r, i, "exec") /\ g2[r][i] = g[r][i] /\ i \in DOMAIN g[r]
    BY <1>6, <2>1 DEF Is
  <2> QED BY <1>1, <2>1 DEF OutputsFit
<1> QED BY <1>5, <1>12, <1>13, <1>14, <1>15, <1>16, <1>18, <1>19, <1>20 DEF Fits, last2

(* The signal of a receipt reaches its queue, and the receipt is over.     *)
LEMMA SignalTimeline ==
  ASSUME NEW g \in AllWork, NEW done \in Nat, NEW last \in Nat, NEW tr \in Transactions, NEW failed,
         Timeline(g, done, last, tr, failed), NEW c \in Commands, c.op = "signal", c.value = tr.value,
         NEW g2, g2 = Appended(g, tr.queue, c)
  PROVE  Timeline(g2, done, tr.value, NoOne, failed)
<1> DEFINE q == tr.queue
           last2 == tr.value
           none == NoOne
<1>1. /\ tr # NoOne /\ q \in AllQueues /\ tr \in Receipts /\ none \in Receipts /\ last2 \in Nat
  BY ManagerAssumption DEF Receipts, Transactions
<1>2. /\ done <= last /\ Passed(g, done, q, End(g, q), last) /\ last2 = last + 1
      /\ \A r \in AllQueues : \A j \in DOMAIN g[r] :
           Ordered(g, r, j) => g[r][j].value <= last + 1 /\ (g[r][j].value = last + 1 => r = q)
  BY <1>1 DEF Timeline
<1>3. /\ c.value - 1 = last /\ done < c.value /\ c.value <= last2 /\ last < c.value /\ last <= last2
      /\ c.op # "wait" /\ c.op # "exec"
  BY <1>2
<1>4. Passed(g, done, q, End(g, q), c.value - 1)
  BY <1>2, <1>3
<1>5. \A r \in AllQueues : \A j \in DOMAIN g[r] : Ordered(g, r, j) /\ g[r][j].value = c.value => r = q
  BY <1>2, <1>3
<1>6. \A r \in AllQueues : \A j \in DOMAIN g[r] :
           Ordered(g, r, j) /\ g[r][j].value = last2 + 1 => IF none = NoOne THEN failed ELSE r = none.queue
  <2>1. ASSUME NEW r \in AllQueues, NEW j \in DOMAIN g[r], Ordered(g, r, j) PROVE g[r][j].value # last2 + 1
    <3>1. g[r][j].value \in Nat
      BY <2>1, Standing, Kinds, ManagerAssumption DEF Ordered, Is
    <3> QED BY <1>2, <2>1, <3>1
  <2> QED BY <2>1
<1>7. \A v \in last + 1..last2 : c.op = "signal" /\ c.value = v
  BY <1>2
<1>8. none # NoOne => none.value = last2 + 1 /\ Passed(g2, done, none.queue, End(g2, none.queue), last2)
  OBVIOUS
<1> HIDE DEF q, last2, none
<1>9. g2 = Appended(g, q, c)
  BY DEF q
<1>10. Timeline(g2, done, last2, none, failed)
  BY <1>1, <1>3, <1>4, <1>5, <1>6, <1>7, <1>8, <1>9, TimelineMore
<1> QED BY <1>10 DEF last2, none

(* finish_signal.                                                          *)
LEMMA FinishSignalKeeps ==
  ASSUME IInv, NEW t \in AllThreads, NEW signalled \in BOOLEAN, NEW failing, finish_signal(t, signalled, failing)
  PROVE  IInv'
<1> DEFINE s == Settled
           tr == transaction
           q == transaction.queue
           refused == transaction.refused \/ s.dev.failed
           ok == signalled /\ ~refused
           marked == [s EXCEPT !.dev.last_signal = transaction.value]
           e == IF signalled THEN marked ELSE Failed(s)
           pk == Settle(e.pk, ok)
           c == [op |-> "signal", value |-> transaction.value]
           g == IF signalled THEN Appended(gpu, q, c) ELSE gpu
           r == IF t # Service THEN Idle
                ELSE [thread[t] EXCEPT !.pc = IF signalled /\ ~refused THEN "consume" ELSE "stopped"]
           th2 == [thread EXCEPT ![t] = r]
<1>1. /\ thread[t].pc = "finish" /\ device' = e.dev /\ published' = e.pub
      /\ packets' = Collected(pk, failing) /\ gpu' = Retired(pk, failing, g)
      /\ IF t # Service THEN Return(t)
         ELSE Step(t, IF signalled /\ ~refused THEN "consume" ELSE "stopped")
      /\ deferred' = NothingDeferred /\ transaction' = NoOne
      /\ UNCHANGED <<lists, next_token, completed, native, content>>
  BY DEF finish_signal, Collect, Appended
<1>2. /\ Fits(s.dev, lists, s.pub, NothingDeferred, s.pk, tr, thread, gpu, completed, native)
      /\ Unretired(lists, s.pk) /\ s \in Sections
  BY SettledKeeps
<1>3. s.pk \in AllPackets /\ s.dev \in Devices /\ s.pub \in AllWords
  BY <1>2, SectionFields
<1>4. /\ Types /\ lists \in AllLists /\ thread \in AllSubmissions /\ gpu \in AllWork /\ completed \in Nat
      /\ completed \in 0..MaximumSignal /\ NoOne \in Receipts
      /\ \A l \in Lists : lists[l].packets \in SUBSET Packets
  BY ManagerAssumption DEF IInv, Types, AllLists, Items, Receipts
<1>5. /\ tr # NoOne /\ tr \in Transactions /\ tr.value \in 1..MaximumSignal /\ q \in AllQueues
      /\ thread[t] \in Submissions /\ tr \in Receipts
  BY <1>1, ReceiptIs DEF InReceipt, Receipts
<1>6. s.dev.last_signal \in Nat /\ tr.value = s.dev.last_signal + 1 /\ tr.value \in Nat
  <2>1. Timeline(gpu, completed, s.dev.last_signal, tr, s.dev.failed)
    BY <1>2, Zenon DEF Fits
  <2> QED BY <1>3, <1>5, <2>1, ManagerAssumption DEF Timeline, Devices
<1>7. refused \in BOOLEAN /\ ok \in BOOLEAN
  BY <1>3, <1>5 DEF Devices, Transactions
<1>8. r \in Submissions /\ Leaves(t, r, thread[t])
  <2>1. CASE t # Service
    BY <2>1 DEF Leaves, Idle, Submissions, AllQueues
  <2>2. CASE t = Service
    <3>1. \A pc \in {"consume", "stopped"} :
            /\ [thread[t] EXCEPT !.pc = pc] \in Submissions /\ [thread[t] EXCEPT !.pc = pc].pc = pc
            /\ [thread[t] EXCEPT !.pc = pc].queue = thread[t].queue
            /\ [thread[t] EXCEPT !.pc = pc].frames = thread[t].frames
            /\ [thread[t] EXCEPT !.pc = pc].value = thread[t].value
      BY <1>5 DEF Submissions
    <3> QED BY <2>2, <3>1 DEF Leaves
  <2> QED BY <2>1, <2>2
<1>9. thread' = th2
  BY <1>1, <1>4, <1>5 DEF Step, Return, AllSubmissions
<1>10. deferred' \in Notices
  BY <1>1, NoticesTaken
<1> HIDE DEF s, tr, q, refused, ok, e, pk, c, g, r, th2, marked
<1>11. /\ Fits(e.dev, lists, e.pub, NothingDeferred, pk, NoOne, th2, g, completed, native)
       /\ Unretired(lists, pk) /\ e.dev \in Devices /\ e.pub \in AllWords /\ pk \in AllPackets
       /\ g \in AllWork /\ th2 \in AllSubmissions
  <2>1. CASE signalled
    <3>1. e = marked
      BY <2>1 DEF e
    <3>2. e.pk = s.pk /\ e.pub = s.pub
      BY <1>2, <3>1 DEF Sections, marked
    <3>3. e.dev = [s.dev EXCEPT !.last_signal = tr.value]
      BY <1>2, <3>1 DEF Sections, marked, tr
    <3>4. e.dev \in Devices /\ e.dev.failed = s.dev.failed /\ e.dev.last_signal = tr.value
      <4>1. tr.value \in 0..MaximumSignal
        BY <1>5, ManagerAssumption
      <4> QED BY <1>3, <3>3, <4>1 DEF Devices
    <3>5. FlightFits(s.pk, thread, tr) /\ Timeline(gpu, completed, s.dev.last_signal, tr, s.dev.failed)
      BY <1>2, Zenon DEF Fits
    <3>6. \A p \in Packets : s.pk[p].in_flight = IF p \in tr.packets THEN 1 ELSE 0
      BY <1>5, <3>5 DEF FlightFits, InFlight
    <3>7. Carries(tr, s.pk)
      <4>1. tr.packets \in SUBSET Packets
        BY <1>5 DEF Transactions
      <4> QED BY <1>5, <3>5, <4>1 DEF FlightFits, InFlight, Carries
    <3>8. Ends(tr, s.pk, ok, pk)
      BY <1>3, <1>5, <1>7, <3>2, <3>6, <3>7, SettleIs DEF tr, pk
    <3>9. g = Appended(gpu, q, c)
      BY <2>1 DEF g
    <3>10. c \in Commands /\ c.op = "signal" /\ c.value = tr.value
      <4>1. c \in Marks
        BY <1>5 DEF c, Marks, tr
      <4> QED BY <4>1 DEF c, Commands, tr
    <3>11. Signalled(gpu, g) /\ g \in AllWork
      <4>1. /\ Longer(gpu, g)
            /\ \A x \in AllQueues : \A i \in DOMAIN g[x] : i \in DOMAIN gpu[x] \/ (x = q /\ i = End(gpu, q))
            /\ End(gpu, q) \in DOMAIN g[q] /\ g[q][End(gpu, q)] = c
        BY <1>4, <1>5, <3>9, <3>10, OneMore
      <4> QED BY <3>10, <4>1 DEF Longer, Is, Signalled
    <3>12. Timeline(g, completed, tr.value, NoOne, s.dev.failed)
      BY <1>4, <1>5, <1>6, <3>5, <3>9, <3>10, SignalTimeline DEF q, tr
    <3>13. s.dev.last_signal <= e.dev.last_signal /\ (ok => e.dev.last_signal = tr.value) /\ thread[t].pc = "finish"
      BY <1>1, <1>6, <3>4
    <3>14. Timeline(g, completed, e.dev.last_signal, NoOne, e.dev.failed)
      BY <3>4, <3>12
    <3>15. Fits(e.dev, lists, s.pub, NothingDeferred, pk, NoOne, th2, g, completed, native) /\ th2 \in AllSubmissions
      <4>1. Over(tr, s.pk, s.dev, gpu, completed, pk, e.dev, g)
        BY <1>7, <3>4, <3>8, <3>11, <3>13, <3>14 DEF Over
      <4>2. th2 = [thread EXCEPT ![t] = r] /\ th2 \in AllSubmissions
        BY <1>4, <1>8 DEF th2, AllSubmissions
      <4> QED BY <1>2, <1>3, <1>4, <1>5, <1>8, <3>4, <3>11, <3>13, <4>1, <4>2, EndKeeps
    <3>16. Unretired(lists, pk) /\ pk \in AllPackets
      BY <1>2, <1>4, <3>8 DEF Ends, Unretired
    <3> QED BY <1>3, <3>2, <3>4, <3>11, <3>15, <3>16
  <2>2. CASE ~signalled
    <3>1. e = Failed(s) /\ g = gpu /\ ok = FALSE
      BY <2>2 DEF e, g, ok
    <3>2. /\ Fits(e.dev, lists, e.pub, NothingDeferred, e.pk, tr, thread, gpu, completed, native)
          /\ Unretired(lists, e.pk) /\ e.pk \in AllPackets /\ e.dev \in Devices /\ e.pub \in AllWords /\ e.dev.failed
      BY <1>2, <1>4, <3>1, FailedKeeps
    <3>5. FlightFits(e.pk, thread, tr) /\ Timeline(gpu, completed, e.dev.last_signal, tr, e.dev.failed)
      BY <3>2, Zenon DEF Fits
    <3>6. \A p \in Packets : e.pk[p].in_flight = IF p \in tr.packets THEN 1 ELSE 0
      BY <1>5, <3>5 DEF FlightFits, InFlight
    <3>7. Carries(tr, e.pk)
      <4>1. tr.packets \in SUBSET Packets
        BY <1>5 DEF Transactions
      <4> QED BY <1>5, <3>5, <4>1 DEF FlightFits, InFlight, Carries
    <3>8. Ends(tr, e.pk, ok, pk)
      BY <1>5, <1>7, <3>2, <3>6, <3>7, SettleIs DEF tr, pk
    <3>11. Signalled(gpu, g) /\ g \in AllWork
      <4>1. \A x \in AllQueues : Len(gpu[x]) \in Nat
        BY <1>4, Standing
      <4> QED BY <1>4, <3>1, <4>1 DEF Longer, Signalled
    <3>12. Timeline(g, completed, e.dev.last_signal, NoOne, e.dev.failed)
      <4> DEFINE last == e.dev.last_signal
      <4>1. \A x \in AllQueues : \A i \in DOMAIN gpu[x] :
               /\ Is(gpu, x, i, "wait") => gpu[x][i].value <= last
               /\ Is(gpu, x, i, "signal") => /\ completed < gpu[x][i].value /\ gpu[x][i].value <= last
                                             /\ Passed(gpu, completed, x, i, gpu[x][i].value - 1)
               /\ Ordered(gpu, x, i) => /\ completed < gpu[x][i].value /\ gpu[x][i].value <= last + 1
                                        /\ Passed(gpu, completed, x, i, gpu[x][i].value - 1)
                                        /\ gpu[x][i].value = last + 1 => IF NoOne = NoOne THEN e.dev.failed ELSE x = NoOne.queue
        BY <3>2, <3>5 DEF Timeline
      <4>2. NoOne # NoOne => NoOne.value = last + 1 /\ Passed(gpu, completed, NoOne.queue, End(gpu, NoOne.queue), last)
        OBVIOUS
      <4>3. Timeline(gpu, completed, last, NoOne, e.dev.failed)
        BY <3>5, <4>1, <4>2, Zenon DEF Timeline
      <4> QED BY <3>1, <4>3
    <3>13. e.dev.last_signal <= e.dev.last_signal /\ (ok => e.dev.last_signal = tr.value) /\ thread[t].pc = "finish"
      BY <1>1, <3>1, <3>2, ManagerAssumption DEF Devices
    <3>15. Fits(e.dev, lists, e.pub, NothingDeferred, pk, NoOne, th2, g, completed, native) /\ th2 \in AllSubmissions
      <4>1. Over(tr, e.pk, e.dev, gpu, completed, pk, e.dev, g)
        BY <1>7, <3>8, <3>11, <3>12, <3>13 DEF Over
      <4>2. th2 = [thread EXCEPT ![t] = r] /\ th2 \in AllSubmissions
        BY <1>4, <1>8 DEF th2, AllSubmissions
      <4> QED BY <3>2, <1>4, <1>5, <1>8, <3>11, <3>13, <4>1, <4>2, EndKeeps
    <3>16. Unretired(lists, pk) /\ pk \in AllPackets
      BY <1>4, <3>2, <3>8 DEF Ends, Unretired
    <3> QED BY <3>2, <3>11, <3>15, <3>16
  <2> QED BY <2>1, <2>2
<1>12. /\ Fits(e.dev, lists, e.pub, NothingDeferred, Collected(pk, failing), NoOne, th2, Retired(pk, failing, g), completed, native)
       /\ Unretired(lists, Collected(pk, failing)) /\ Collected(pk, failing) \in AllPackets
       /\ Retired(pk, failing, g) \in AllWork
  BY <1>4, <1>11, CollectKeeps
<1> QED BY <1>1, <1>4, <1>9, <1>10, <1>11, <1>12 DEF IInv, Types

(* A frame the producer has finished is handed out, returned or given up.  *)
Turns(pk, pk2, g) ==
  /\ pk2 \in AllPackets
  /\ \A p \in Packets :
       /\ pk2[p].assigned = pk[p].assigned /\ pk2[p].retired = pk[p].retired
       /\ pk2[p].submitted = pk[p].submitted /\ pk2[p].producer = pk[p].producer
       /\ pk2[p].order = pk[p].order /\ pk2[p].token = pk[p].token /\ pk2[p].in_flight = pk[p].in_flight
       /\ \/ pk2[p] = pk[p]
          \/ /\ pk[p].assigned /\ ~pk[p].quarantined
             /\ pk[p].gpu = "ready" \/ (pk[p].gpu = "retiring" /\ ProducerDone(g, p))
             /\ pk2[p].gpu = "ready" \/ (pk2[p].gpu = "consuming" /\ ~pk2[p].leased)

(* The service between two receipts.                                       *)
Rests(th, th2, pk2) ==
  /\ th2 \in AllSubmissions /\ \A t \in Threads : th2[t] = th[t]
  /\ th[Service].pc \notin InReceipt /\ th2[Service].pc \in {"idle", "consume", "stopped"}
  /\ th2[Service].queue = PrivateQueue /\ (th2[Service].pc = "idle" => th2[Service].frames = {})
  /\ th2[Service].pc = "consume" => th2[Service].value <= MaximumSignal
  /\ \A p \in th2[Service].frames : pk2[p].assigned /\ (pk2[p].quarantined \/ pk2[p].leased)

(* Frames that turn leave a state the invariant allows, provided the GPU's *)
(* reads of them stay accounted for.                                       *)
LEMMA TurnKeeps ==
  ASSUME NEW dev, NEW ls \in AllLists, NEW pub, NEW def, NEW pk \in AllPackets, NEW tr \in Receipts,
         NEW th \in AllSubmissions, NEW g \in AllWork, NEW done, NEW nat,
         Fits(dev, ls, pub, def, pk, tr, th, g, done, nat), Unretired(ls, pk),
         NEW pk2, Turns(pk, pk2, g), NEW th2, Rests(th, th2, pk2), ReadsFit(g, pk2, th2)
  PROVE  Fits(dev, ls, pub, def, pk2, tr, th2, g, done, nat) /\ Unretired(ls, pk2)
<1> DEFINE last == dev.last_signal
           failed == dev.failed
<1>1. /\ Timeline(g, done, last, tr, failed) /\ FencesFit(g, done, last, pk)
      /\ WritesFit(g, pk, tr, ls, pub, def)
      /\ LeasesFit(pk, th, tr) /\ FlightFits(pk, th, tr)
      /\ ListsFit(ls, nat, pub, pk) /\ EscapesFit(th, ls, pub, pk, def, failed, tr)
      /\ OutputsFit(g, pub, def, failed)
  BY Zenon DEF Fits
<1>2. \A p \in Packets :
       /\ pk2[p].assigned = pk[p].assigned /\ pk2[p].retired = pk[p].retired
       /\ pk2[p].submitted = pk[p].submitted /\ pk2[p].producer = pk[p].producer
       /\ pk2[p].order = pk[p].order /\ pk2[p].token = pk[p].token /\ pk2[p].in_flight = pk[p].in_flight
  BY Zenon DEF Turns
<1>3. ASSUME NEW p \in Packets, pk2[p] # pk[p]
      PROVE  /\ pk[p].assigned /\ ~pk[p].quarantined
             /\ pk[p].gpu = "ready" \/ (pk[p].gpu = "retiring" /\ ProducerDone(g, p))
             /\ pk2[p].gpu = "ready" \/ (pk2[p].gpu = "consuming" /\ ~pk2[p].leased)
  BY <1>3, Zenon DEF Turns
<1>4. /\ \A l \in Lists : ls[l].packets \in SUBSET Packets
      /\ Service \in AllThreads /\ Threads \subseteq AllThreads /\ Service \notin Threads
      /\ \A t \in AllThreads : t \in Threads \/ t = Service
  BY ManagerAssumption DEF AllLists, Items, AllThreads
<1>5. \A p \in Packets : pk[p].gpu = "recorded" \/ pk[p].quarantined => pk2[p] = pk[p]
  BY <1>3
<1>6. \A q \in AllQueues : \A i \in DOMAIN g[q] : g[q][i] \in Commands
  BY Standing
<1> HIDE DEF last, failed
<1>7. FencesFit(g, done, last, pk2)
  <2>1. ASSUME NEW q \in AllQueues, NEW i \in DOMAIN g[q], Is(g, q, i, "fence"),
               NEW p \in g[q][i].packets, ~pk2[p].quarantined
        PROVE  /\ pk2[p].assigned /\ pk2[p].gpu = "retiring" /\ q = pk2[p].producer
               /\ Passed(g, done, q, i, pk2[p].order[1] - 1)
    <3>1. p \in Packets
      BY <1>6, <2>1, Kinds DEF Is
    <3>2. ~pk[p].quarantined
      BY <1>5, <2>1, <3>1
    <3>3. /\ pk[p].assigned /\ pk[p].gpu = "retiring" /\ q = pk[p].producer
          /\ Passed(g, done, q, i, pk[p].order[1] - 1)
      BY <1>1, <2>1, <3>2 DEF FencesFit
    <3>4. ~ProducerDone(g, p)
      BY <2>1 DEF ProducerDone, Is
    <3>5. pk2[p] = pk[p]
      BY <1>3, <3>1, <3>3, <3>4
    <3> QED BY <3>3, <3>5
  <2>2. ASSUME NEW p \in Packets, pk2[p].assigned, ~pk2[p].quarantined
        PROVE  /\ pk2[p].gpu \in {"retiring", "ready", "consuming"} => pk2[p].submitted
               /\ pk2[p].submitted => /\ pk2[p].order[1] \in 1..last
                                      /\ Passed(g, done, pk2[p].producer, End(g, pk2[p].producer), pk2[p].order[1] - 1)
    <3>1. pk[p].assigned /\ ~pk[p].quarantined
      BY <1>2, <1>5, <2>2
    <3>2. /\ pk[p].gpu \in {"retiring", "ready", "consuming"} => pk[p].submitted
          /\ pk[p].submitted => /\ pk[p].order[1] \in 1..last
                                /\ Passed(g, done, pk[p].producer, End(g, pk[p].producer), pk[p].order[1] - 1)
      BY <1>1, <3>1 DEF FencesFit
    <3>3. pk2[p].submitted = pk[p].submitted /\ pk2[p].producer = pk[p].producer /\ pk2[p].order = pk[p].order
      BY <1>2
    <3>4. pk2[p].gpu \in {"retiring", "ready", "consuming"} => pk[p].submitted
      BY <1>3, <3>2
    <3> QED BY <3>2, <3>3, <3>4
  <2> QED BY <2>1, <2>2, Zenon DEF FencesFit
<1>8. WritesFit(g, pk2, tr, ls, pub, def)
  <2>1. SUFFICES ASSUME NEW q \in AllQueues, NEW i \in DOMAIN g[q], Is(g, q, i, "exec"), NEW w \in g[q][i].writes
        PROVE  /\ pk2[w[1]].assigned /\ pk2[w[1]].token = w[2]
               /\ \/ pk2[w[1]].quarantined
                  \/ g[q][i].value = 0 /\ Doomed(w[1], pk2, ls, pub, def)
                  \/ g[q][i].value > 0 /\ InFlight(tr, w[1]) /\ g[q][i].value = tr.value
                  \/ g[q][i].value > 0 /\ Received(g, pk2, q, i, w[1])
    BY Zenon DEF WritesFit
  <2> DEFINE p == w[1]
             v == g[q][i].value
  <2>2. p \in Packets
    BY <1>6, <2>1, Kinds DEF Is
  <2>3. /\ pk[p].assigned /\ pk[p].token = w[2]
        /\ \/ pk[p].quarantined
           \/ v = 0 /\ Doomed(p, pk, ls, pub, def)
           \/ v > 0 /\ InFlight(tr, p) /\ v = tr.value
           \/ v > 0 /\ Received(g, pk, q, i, p)
    BY <1>1, <2>1 DEF WritesFit
  <2> HIDE DEF p, v
  <2>4. pk2[p].assigned /\ pk2[p].token = w[2]
    BY <1>2, <2>2, <2>3
  <2>5. CASE pk2[p] = pk[p]
    <3>1. Doomed(p, pk, ls, pub, def) => Doomed(p, pk2, ls, pub, def)
      BY <2>5 DEF Doomed
    <3>2. Received(g, pk, q, i, p) => Received(g, pk2, q, i, p)
      BY <2>5 DEF Received, Behind
    <3> QED BY <2>3, <2>4, <2>5, <3>1, <3>2 DEF p, v
  <2>6. CASE pk2[p] # pk[p]
    <3>1. ~pk[p].quarantined /\ (pk[p].gpu = "ready" \/ (pk[p].gpu = "retiring" /\ ProducerDone(g, p)))
      BY <1>3, <2>2, <2>6
    <3>2. ~InFlight(tr, p)
      BY <1>1, <2>2, <3>1 DEF FlightFits
    <3>3. ~Received(g, pk, q, i, p)
      BY <3>1 DEF Received, Behind, Is, ProducerDone
    <3>4. Doomed(p, pk, ls, pub, def) => Doomed(p, pk2, ls, pub, def)
      BY <3>1 DEF Doomed
    <3> QED BY <2>3, <2>4, <3>1, <3>2, <3>3, <3>4 DEF p, v
  <2> QED BY <2>5, <2>6
<1>9. LeasesFit(pk2, th2, tr)
  <2>1. ASSUME NEW p \in Packets, pk2[p].leased
        PROVE  pk2[p].assigned /\ (pk2[p].quarantined \/ pk2[p].gpu = "ready")
    <3>1. CASE pk2[p] = pk[p]
      BY <1>1, <2>1, <3>1 DEF LeasesFit
    <3>2. CASE pk2[p] # pk[p]
      BY <1>2, <1>3, <2>1, <3>2
    <3> QED BY <3>1, <3>2
  <2> QED BY <2>1 DEF Rests, LeasesFit, Reading
<1>10. FlightFits(pk2, th2, tr)
  <2>1. \A t \in AllThreads : th2[t].pc \in InReceipt => tr # NoOne /\ tr.by = t
    BY <1>1, <1>4 DEF FlightFits, Rests, InReceipt
  <2>2. tr # NoOne => th2[tr.by].pc \in InReceipt /\ th2[tr.by].queue = tr.queue
    <3>1. SUFFICES ASSUME tr # NoOne PROVE th2[tr.by].pc \in InReceipt /\ th2[tr.by].queue = tr.queue
      OBVIOUS
    <3>2. tr.by \in AllThreads
      BY <3>1 DEF Receipts, Transactions
    <3>3. th[tr.by].pc \in InReceipt /\ th[tr.by].queue = tr.queue
      BY <1>1, <3>1 DEF FlightFits
    <3>4. tr.by \in Threads
      BY <1>4, <3>2, <3>3 DEF Rests
    <3> QED BY <3>3, <3>4 DEF Rests
  <2>3. \A p \in Packets : pk2[p].in_flight = IF InFlight(tr, p) THEN 1 ELSE 0
    BY <1>1, <1>2 DEF FlightFits
  <2>4. \A p \in Packets : InFlight(tr, p) =>
          /\ pk2[p].assigned /\ pk2[p].gpu = "recorded"
          /\ \E i \in 1..tr.last_position : <<p, i>> \in tr.positions
    BY <1>1, <1>5 DEF FlightFits
  <2> QED BY <2>1, <2>2, <2>3, <2>4, Zenon DEF FlightFits
<1>11. ListsFit(ls, nat, pub, pk2)
  <2>1. \A l \in Lists : {<<p, pk2[p].token>> : p \in ls[l].packets} = {<<p, pk[p].token>> : p \in ls[l].packets}
    BY <1>2, <1>4
  <2>2. \A l \in Lists : /\ nat[l].writes = {<<p, pk2[p].token>> : p \in ls[l].packets}
                         /\ \A p \in ls[l].packets : pk2[p].assigned /\ pk2[p].gpu = "recorded"
    BY <1>1, <1>4, <1>5, <2>1 DEF ListsFit
  <2> QED BY <1>1, <2>2, Zenon DEF ListsFit
<1>12. EscapesFit(th2, ls, pub, pk2, def, failed, tr)
  <2>1. SUFFICES ASSUME NEW u \in Threads, NEW k \in DOMAIN th2[u].batch
        PROVE  EscapeFits(th2[u], th2[u].batch[k], ls, pub, pk2, def, failed, tr)
    BY Zenon DEF EscapesFit
  <2>2. th2[u] = th[u] /\ u \in AllThreads
    BY <1>4 DEF Rests
  <2> DEFINE l == th[u].batch[k]
  <2>3. l \in Lists
    BY <2>1, <2>2 DEF AllSubmissions, Submissions
  <2>4. EscapeFits(th[u], l, ls, pub, pk, def, failed, tr)
    BY <1>1, <2>1, <2>2 DEF EscapesFit
  <2>5. \A p \in ls[l].packets : p \in Packets /\ (pk[p].quarantined => pk2[p].quarantined)
    BY <1>4, <1>5, <2>3
  <2> HIDE DEF l
  <2>6. EscapeFits(th[u], l, ls, pub, pk2, def, failed, tr)
    BY <2>4, <2>5 DEF EscapeFits, Doomed
  <2> QED BY <2>2, <2>6 DEF l
<1>13. Unretired(ls, pk2)
  BY <1>2, <1>4 DEF Unretired
<1> QED BY <1>1, <1>7, <1>8, <1>9, <1>10, <1>11, <1>12, <1>13 DEF Fits, last, failed

(* Reads of frames that do not turn, or that nothing reads.                *)
LEMMA UnreadKeeps ==
  ASSUME NEW g \in AllWork, NEW pk \in AllPackets, NEW pk2, Turns(pk, pk2, g), NEW th, ReadsFit(g, pk, th),
         \A p \in Packets : pk2[p] # pk[p] => ~(pk[p].leased /\ p \in th[Service].frames)
  PROVE  ReadsFit(g, pk2, th)
<1>1. SUFFICES ASSUME NEW q \in AllQueues, NEW i \in DOMAIN g[q], Is(g, q, i, "exec"), NEW x \in g[q][i].reads
      PROVE  /\ g[q][i].value > 0 /\ pk2[x[1]].assigned /\ pk2[x[1]].token = x[2]
             /\ \/ pk2[x[1]].quarantined
                \/ /\ pk2[x[1]].leased /\ x[1] \in th[Service].frames
                   /\ th[Service].pc \in Reading /\ g[q][i].value = th[Service].value
                \/ pk2[x[1]].gpu = "consuming" /\ pk2[x[1]].consumer_value >= g[q][i].value
  BY Zenon DEF ReadsFit
<1>2. x[1] \in Packets
  BY <1>1, Standing, Kinds DEF Is
<1>3. /\ g[q][i].value > 0 /\ pk[x[1]].assigned /\ pk[x[1]].token = x[2]
      /\ \/ pk[x[1]].quarantined
         \/ /\ pk[x[1]].leased /\ x[1] \in th[Service].frames
            /\ th[Service].pc \in Reading /\ g[q][i].value = th[Service].value
         \/ pk[x[1]].gpu = "consuming" /\ pk[x[1]].consumer_value >= g[q][i].value
  BY <1>1 DEF ReadsFit
<1>4. pk2[x[1]] # pk[x[1]] => ~pk[x[1]].quarantined /\ pk[x[1]].gpu # "consuming"
  BY <1>2 DEF Turns
<1> QED BY <1>2, <1>3, <1>4

(* A frame returned under a value of the timeline.                         *)
Returned(pk, S, v) ==
  [p \in Packets |-> IF p \notin S THEN pk[p]
                     ELSE [pk[p] EXCEPT !.gpu = "consuming", !.consumer_value = v, !.leased = FALSE]]

(* A returned frame turns.                                                 *)
LEMMA ReturnedIs ==
  ASSUME NEW pk \in AllPackets, NEW S \in SUBSET Packets, NEW v \in 0..MaximumSignal, NEW g,
         \A p \in S : pk[p].assigned /\ ~pk[p].quarantined /\ pk[p].gpu = "ready"
  PROVE  /\ Turns(pk, Returned(pk, S, v), g)
         /\ \A p \in Packets \ S : Returned(pk, S, v)[p] = pk[p]
         /\ \A p \in S : /\ Returned(pk, S, v)[p].gpu = "consuming" /\ Returned(pk, S, v)[p].consumer_value = v
                         /\ ~Returned(pk, S, v)[p].leased
<1> DEFINE pk2 == Returned(pk, S, v)
           R(r) == [r EXCEPT !.gpu = "consuming", !.consumer_value = v, !.leased = FALSE]
<1>1. ASSUME NEW r \in Records
      PROVE /\ R(r).assigned = r.assigned /\ R(r).retired = r.retired /\ R(r).submitted = r.submitted
            /\ R(r).producer = r.producer /\ R(r).order = r.order /\ R(r).token = r.token
            /\ R(r).in_flight = r.in_flight
            /\ R(r).gpu = "consuming" /\ R(r).consumer_value = v /\ R(r).leased = FALSE
  BY DEF Records
<1>2. ASSUME NEW r \in Records PROVE R(r) \in Records
  <2>1. \A b \in BOOLEAN : [r EXCEPT !.gpu = "consuming", !.consumer_value = v, !.leased = b] \in Records
    BY DEF Records
  <2> QED BY <2>1
<1>3. \A p \in Packets : pk[p] \in Records
  BY DEF AllPackets
<1>4. /\ \A p \in Packets \ S : pk2[p] = pk[p]
      /\ \A p \in S : p \in Packets /\ pk2[p] = R(pk[p])
  BY DEF Returned
<1>5. pk2 \in AllPackets
  <2>1. \A p \in Packets : pk2[p] \in Records
    BY <1>2, <1>3, <1>4
  <2> QED BY <2>1 DEF AllPackets, Returned
<1> HIDE DEF pk2, R
<1>6. \A p \in S : /\ pk2[p].assigned = pk[p].assigned /\ pk2[p].retired = pk[p].retired
                   /\ pk2[p].submitted = pk[p].submitted
                   /\ pk2[p].producer = pk[p].producer /\ pk2[p].order = pk[p].order /\ pk2[p].token = pk[p].token
                   /\ pk2[p].in_flight = pk[p].in_flight
                   /\ pk2[p].gpu = "consuming" /\ pk2[p].consumer_value = v /\ ~pk2[p].leased
  <2>1. SUFFICES ASSUME NEW p \in S
        PROVE  /\ pk2[p].assigned = pk[p].assigned /\ pk2[p].retired = pk[p].retired
               /\ pk2[p].submitted = pk[p].submitted
               /\ pk2[p].producer = pk[p].producer /\ pk2[p].order = pk[p].order /\ pk2[p].token = pk[p].token
               /\ pk2[p].in_flight = pk[p].in_flight
               /\ pk2[p].gpu = "consuming" /\ pk2[p].consumer_value = v /\ ~pk2[p].leased
    OBVIOUS
  <2>2. pk[p] \in Records /\ pk2[p] = R(pk[p])
    BY <1>3, <1>4
  <2> DEFINE r == pk[p]
  <2>3. r \in Records /\ pk2[p] = R(r)
    BY <2>2
  <2> HIDE DEF r
  <2>4. /\ R(r).assigned = r.assigned /\ R(r).retired = r.retired /\ R(r).submitted = r.submitted
        /\ R(r).producer = r.producer /\ R(r).order = r.order /\ R(r).token = r.token
        /\ R(r).in_flight = r.in_flight
        /\ R(r).gpu = "consuming" /\ R(r).consumer_value = v /\ R(r).leased = FALSE
    BY <1>1, <2>3
  <2> QED BY <2>3, <2>4 DEF r
<1>7. Turns(pk, pk2, g)
  BY <1>4, <1>5, <1>6 DEF Turns
<1> QED BY <1>4, <1>6, <1>7 DEF pk2

(* discard_frame: a leased frame nobody reads is returned unread.          *)
LEMMA DiscardFrameKeeps ==
  ASSUME IInv, NEW p \in Packets, discard_frame(p)
  PROVE  IInv'
<1> DEFINE v == device.last_signal
<1>1. /\ Leased(p)
      /\ thread[Service].pc = "idle" \/ (thread[Service].pc = "stopped" /\ p \notin thread[Service].frames)
      /\ packets' = Returned(packets, {p}, v)
      /\ UNCHANGED <<device, lists, published, deferred, next_token, transaction, thread, gpu, completed, native, content>>
  BY DEF discard_frame, finish_consumption, Returned
<1>2. /\ Types /\ packets \in AllPackets /\ lists \in AllLists /\ thread \in AllSubmissions /\ gpu \in AllWork
      /\ v \in 0..MaximumSignal /\ transaction \in Receipts
      /\ Fits(device, lists, published, deferred, packets, transaction, thread, gpu, completed, native)
      /\ Unretired(lists, packets)
  BY DEF IInv, Types, Devices
<1>3. LeasesFit(packets, thread, transaction) /\ ReadsFit(gpu, packets, thread)
  BY <1>2, Zenon DEF Fits
<1>4. packets[p].assigned /\ ~packets[p].quarantined /\ packets[p].gpu = "ready"
  BY <1>1, <1>3 DEF Leased, LeasesFit
<1>5. p \notin thread[Service].frames
  BY <1>1, <1>3 DEF LeasesFit
<1> HIDE DEF v
<1>6. Turns(packets, packets', gpu) /\ \A x \in Packets \ {p} : packets'[x] = packets[x]
  <2> DEFINE S == {p}
  <2>1. S \in SUBSET Packets /\ \A x \in S : packets[x].assigned /\ ~packets[x].quarantined /\ packets[x].gpu = "ready"
    BY <1>4
  <2>2. packets' = Returned(packets, S, v)
    BY <1>1
  <2> HIDE DEF S
  <2>3. Turns(packets, packets', gpu) /\ \A x \in Packets \ S : packets'[x] = packets[x]
    BY <1>2, <2>1, <2>2, ReturnedIs
  <2> QED BY <2>3 DEF S
<1>7. ReadsFit(gpu, packets', thread)
  BY <1>2, <1>3, <1>5, <1>6, UnreadKeeps
<1>8. Rests(thread, thread, packets')
  <2>1. \A x \in thread[Service].frames : x \in Packets /\ x # p
    BY <1>2, <1>5 DEF AllSubmissions, Submissions, AllThreads
  <2> QED BY <1>1, <1>2, <1>3, <1>6, <2>1 DEF Rests, LeasesFit, InReceipt
<1>9. packets' \in AllPackets
  BY <1>6 DEF Turns
<1>10. Fits(device, lists, published, deferred, packets', transaction, thread, gpu, completed, native)
       /\ Unretired(lists, packets')
  BY <1>2, <1>6, <1>7, <1>8, <1>9, TurnKeeps
<1> QED BY <1>1, <1>2, <1>9, <1>10 DEF IInv, Types

(* consume: the frames of the compositor's receipt are returned under its  *)
(* value.                                                                  *)
LEMMA ConsumeKeeps ==
  ASSUME IInv, consume
  PROVE  IInv'
<1> DEFINE v == thread[Service].value
           F == thread[Service].frames
           S == {p \in F : Leased(p)}
<1>1. /\ thread[Service].pc = "consume" /\ packets' = Returned(packets, S, v)
      /\ thread' = [thread EXCEPT ![Service] = Idle]
      /\ UNCHANGED <<device, lists, published, deferred, next_token, transaction, gpu, completed, native, content>>
  BY DEF consume, finish_consumption, Returned, Return
<1>2. /\ Types /\ packets \in AllPackets /\ lists \in AllLists /\ thread \in AllSubmissions /\ gpu \in AllWork
      /\ transaction \in Receipts
      /\ Fits(device, lists, published, deferred, packets, transaction, thread, gpu, completed, native)
      /\ Unretired(lists, packets)
  BY DEF IInv, Types
<1>3. LeasesFit(packets, thread, transaction) /\ ReadsFit(gpu, packets, thread)
  BY <1>2, Zenon DEF Fits
<1>4. /\ Service \in AllThreads /\ Service \notin Threads /\ Threads \subseteq AllThreads
      /\ F \in SUBSET Packets /\ v \in 0..MaximumSignal
  BY <1>1, <1>2, <1>3, ManagerAssumption DEF AllThreads, AllSubmissions, Submissions, LeasesFit
<1>5. /\ S \in SUBSET Packets /\ S \subseteq F
      /\ \A p \in F \ S : packets[p].quarantined
      /\ \A p \in S : packets[p].assigned /\ ~packets[p].quarantined /\ packets[p].gpu = "ready"
  BY <1>3, <1>4 DEF Leased, LeasesFit
<1> HIDE DEF v, F, S
<1>6. /\ Turns(packets, packets', gpu) /\ \A p \in Packets \ S : packets'[p] = packets[p]
      /\ \A p \in S : packets'[p].gpu = "consuming" /\ packets'[p].consumer_value = v
  BY <1>1, <1>2, <1>4, <1>5, ReturnedIs
<1>7. /\ thread' \in AllSubmissions /\ thread'[Service] = Idle
      /\ \A t \in Threads : thread'[t] = thread[t]
  <2>1. Idle \in Submissions
    BY DEF Idle, Submissions, AllQueues
  <2> QED BY <1>1, <1>2, <1>4, <2>1 DEF AllSubmissions
<1>8. Rests(thread, thread', packets')
  BY <1>1, <1>7 DEF Rests, Idle, InReceipt
<1>9. ReadsFit(gpu, packets', thread')
  <2>1. SUFFICES ASSUME NEW q \in AllQueues, NEW i \in DOMAIN gpu[q], Is(gpu, q, i, "exec"), NEW x \in gpu[q][i].reads
        PROVE  /\ gpu[q][i].value > 0 /\ packets'[x[1]].assigned /\ packets'[x[1]].token = x[2]
               /\ \/ packets'[x[1]].quarantined
                  \/ /\ packets'[x[1]].leased /\ x[1] \in thread'[Service].frames
                     /\ thread'[Service].pc \in Reading /\ gpu[q][i].value = thread'[Service].value
                  \/ packets'[x[1]].gpu = "consuming" /\ packets'[x[1]].consumer_value >= gpu[q][i].value
    BY Zenon DEF ReadsFit
  <2>2. x[1] \in Packets /\ gpu[q][i].value \in Nat
    BY <1>2, <2>1, Standing, Kinds, ManagerAssumption DEF Is
  <2>3. /\ gpu[q][i].value > 0 /\ packets[x[1]].assigned /\ packets[x[1]].token = x[2]
        /\ \/ packets[x[1]].quarantined
           \/ x[1] \in F /\ gpu[q][i].value = v
           \/ packets[x[1]].gpu = "consuming" /\ packets[x[1]].consumer_value >= gpu[q][i].value
    BY <1>3, <2>1 DEF ReadsFit, F, v
  <2>4. packets'[x[1]].assigned = packets[x[1]].assigned /\ packets'[x[1]].token = packets[x[1]].token
    BY <1>6, <2>2, Zenon DEF Turns
  <2>5. CASE x[1] \in S
    BY <1>5, <1>6, <2>2, <2>3, <2>4, <2>5
  <2>6. CASE x[1] \notin S
    BY <1>5, <1>6, <2>2, <2>3, <2>6
  <2> QED BY <2>5, <2>6
<1>10. packets' \in AllPackets
  BY <1>6 DEF Turns
<1>11. Fits(device, lists, published, deferred, packets', transaction, thread', gpu, completed, native)
       /\ Unretired(lists, packets')
  BY <1>2, <1>6, <1>8, <1>9, <1>10, TurnKeeps
<1> QED BY <1>1, <1>2, <1>7, <1>10, <1>11 DEF IInv, Types

(* poll_completed_frames: what the GPU has finished is handed out or       *)
(* returned unread.                                                        *)
LEMMA PollKeeps ==
  ASSUME IInv, NEW current, NEW failing, poll_completed_frames(current, failing)
  PROVE  IInv'
<1> DEFINE s == Settled
           pk == Collected(s.pk, failing)
           g == Retired(s.pk, failing, gpu)
           polled == Pollable(pk, g)
           lost == ~s.dev.active \/ s.dev.failed
           stale == {p \in polled : p \notin current \/ ~s.dev.session_active \/ pk[p].session # s.dev.session}
           v == s.dev.last_signal
<1>1. /\ thread[Service].pc \in {"idle", "stopped"}
      /\ gpu' = g /\ device' = s.dev /\ published' = s.pub
      /\ packets' = [p \in Packets |->
              IF p \notin polled THEN pk[p]
              ELSE IF lost THEN [pk[p] EXCEPT !.gpu = "ready", !.quarantined = TRUE]
              ELSE IF p \in stale THEN [pk[p] EXCEPT !.gpu = "consuming", !.consumer_value = v]
              ELSE [pk[p] EXCEPT !.gpu = "ready", !.leased = TRUE]]
      /\ deferred' = NothingDeferred
      /\ UNCHANGED <<lists, next_token, transaction, thread, completed, native, content>>
  BY DEF poll_completed_frames
<1>2. /\ Fits(s.dev, lists, s.pub, NothingDeferred, pk, transaction, thread, g, completed, native)
      /\ Unretired(lists, pk) /\ pk \in AllPackets /\ g \in AllWork
      /\ s.dev \in Devices /\ s.pub \in AllWords
  BY CollectingKeeps
<1>3. /\ Types /\ lists \in AllLists /\ thread \in AllSubmissions /\ transaction \in Receipts
      /\ thread[Service].frames \in SUBSET Packets
  BY DEF IInv, Types, AllSubmissions, Submissions, AllThreads
<1>4. v \in 0..MaximumSignal
  BY <1>2 DEF Devices
<1>5. \A p \in polled : /\ p \in Packets /\ pk[p].assigned /\ ~pk[p].quarantined /\ ~pk[p].leased
                        /\ pk[p].gpu = "ready" \/ (pk[p].gpu = "retiring" /\ ProducerDone(g, p))
  BY DEF Pollable
<1> HIDE DEF s, pk, g, polled, lost, stale, v
<1>6. ASSUME NEW p \in Packets
      PROVE  /\ packets'[p] \in Records
             /\ packets'[p].assigned = pk[p].assigned /\ packets'[p].retired = pk[p].retired
             /\ packets'[p].submitted = pk[p].submitted /\ packets'[p].producer = pk[p].producer
             /\ packets'[p].order = pk[p].order /\ packets'[p].token = pk[p].token
             /\ packets'[p].in_flight = pk[p].in_flight
             /\ packets'[p] = pk[p] \/ p \in polled
             /\ p \in polled => packets'[p].gpu = "ready" \/ (packets'[p].gpu = "consuming" /\ packets'[p].leased = pk[p].leased)
  <2> DEFINE r == pk[p]
  <2>1. r \in Records
    BY <1>2 DEF AllPackets
  <2> HIDE DEF r
  <2>2. CASE p \notin polled
    BY <1>1, <2>1, <2>2 DEF r
  <2>3. CASE p \in polled /\ lost
    <3>1. packets'[p] = [r EXCEPT !.gpu = "ready", !.quarantined = TRUE]
      BY <1>1, <2>3 DEF r
    <3>2. \A b \in BOOLEAN : [r EXCEPT !.gpu = "ready", !.quarantined = b] \in Records
      BY <2>1 DEF Records
    <3>3. packets'[p] \in Records
      BY <3>1, <3>2
    <3>4. /\ packets'[p].assigned = r.assigned /\ packets'[p].retired = r.retired
          /\ packets'[p].submitted = r.submitted /\ packets'[p].producer = r.producer
          /\ packets'[p].order = r.order /\ packets'[p].token = r.token
          /\ packets'[p].in_flight = r.in_flight /\ packets'[p].gpu = "ready"
      BY <2>1, <3>1 DEF Records
    <3> QED BY <2>3, <3>3, <3>4 DEF r
  <2>4. CASE p \in polled /\ ~lost /\ p \in stale
    <3>1. packets'[p] = [r EXCEPT !.gpu = "consuming", !.consumer_value = v]
      BY <1>1, <2>4 DEF r
    <3>2. packets'[p] \in Records
      BY <1>4, <2>1, <3>1 DEF Records
    <3>3. /\ packets'[p].assigned = r.assigned /\ packets'[p].retired = r.retired
          /\ packets'[p].submitted = r.submitted /\ packets'[p].producer = r.producer
          /\ packets'[p].order = r.order /\ packets'[p].token = r.token
          /\ packets'[p].in_flight = r.in_flight /\ packets'[p].gpu = "consuming" /\ packets'[p].leased = r.leased
      BY <2>1, <3>1 DEF Records
    <3> QED BY <2>4, <3>2, <3>3 DEF r
  <2>5. CASE p \in polled /\ ~lost /\ p \notin stale
    <3>1. packets'[p] = [r EXCEPT !.gpu = "ready", !.leased = TRUE]
      BY <1>1, <2>5 DEF r
    <3>2. \A b \in BOOLEAN : [r EXCEPT !.gpu = "ready", !.leased = b] \in Records
      BY <2>1 DEF Records
    <3>3. packets'[p] \in Records
      BY <3>1, <3>2
    <3>4. /\ packets'[p].assigned = r.assigned /\ packets'[p].retired = r.retired
          /\ packets'[p].submitted = r.submitted /\ packets'[p].producer = r.producer
          /\ packets'[p].order = r.order /\ packets'[p].token = r.token
          /\ packets'[p].in_flight = r.in_flight /\ packets'[p].gpu = "ready"
      BY <2>1, <3>1 DEF Records
    <3> QED BY <2>5, <3>3, <3>4 DEF r
  <2> QED BY <2>2, <2>3, <2>4, <2>5
<1>7. packets' \in AllPackets
  BY <1>1, <1>6 DEF AllPackets
<1>8. Turns(pk, packets', g)
  BY <1>5, <1>6, <1>7 DEF Turns
<1>9. LeasesFit(pk, thread, transaction) /\ ReadsFit(g, pk, thread)
  BY <1>2, Zenon DEF Fits
<1>10. \A p \in Packets : packets'[p] # pk[p] => ~pk[p].leased /\ ~pk[p].quarantined
  BY <1>5, <1>6
<1>11. ReadsFit(g, packets', thread)
  <2>1. \A p \in Packets : packets'[p] # pk[p] => ~(pk[p].leased /\ p \in thread[Service].frames)
    BY <1>10
  <2> QED BY <1>2, <1>8, <1>9, <2>1, UnreadKeeps
<1>12. Rests(thread, thread, packets')
  <2>1. \A p \in thread[Service].frames : pk[p].assigned /\ (pk[p].quarantined \/ pk[p].leased)
    BY <1>9 DEF LeasesFit
  <2>2. \A p \in thread[Service].frames : packets'[p].assigned /\ (packets'[p].quarantined \/ packets'[p].leased)
    BY <1>3, <1>10, <2>1
  <2> QED BY <1>1, <1>3, <1>9, <2>2 DEF Rests, LeasesFit, InReceipt
<1>13. Fits(s.dev, lists, s.pub, NothingDeferred, packets', transaction, thread, g, completed, native)
       /\ Unretired(lists, packets')
  BY <1>2, <1>3, <1>8, <1>11, <1>12, TurnKeeps
<1>14. deferred' \in Notices
  BY <1>1, NoticesTaken
<1> QED BY <1>1, <1>2, <1>3, <1>7, <1>13, <1>14 DEF IInv, Types
-----------------------------------------------------------------------------
(* What stands where once the first command of queue q has run: g2 is g    *)
(* without it.                                                             *)
At(q, r, i) == IF r = q THEN i + 1 ELSE i
Runs(g, q, g2) ==
  /\ g2 \in AllWork /\ 1 \in DOMAIN g[q]
  /\ \A r \in AllQueues : \A i \in DOMAIN g2[r] :
       At(q, r, i) \in DOMAIN g[r] /\ g2[r][i] = g[r][At(q, r, i)] /\ (r = q => At(q, r, i) # 1)
  /\ \A r \in AllQueues : \A j \in DOMAIN g[r] :
       (r = q /\ j = 1) \/ \E i \in DOMAIN g2[r] : At(q, r, i) = j
  /\ \A r \in AllQueues : At(q, r, End(g2, r)) = End(g, r)

(* Tail leaves every other command in its order.                           *)
LEMMA RunsIs ==
  ASSUME NEW g \in AllWork, NEW q \in AllQueues, g[q] # <<>>
  PROVE  Runs(g, q, [g EXCEPT ![q] = Tail(g[q])]) /\ Head(g[q]) = g[q][1]
<1> DEFINE g2 == [g EXCEPT ![q] = Tail(g[q])]
<1>1. g[q] \in Seq(Commands)
  BY DEF AllWork
<1>2. /\ Tail(g[q]) \in Seq(Commands) /\ Len(Tail(g[q])) = Len(g[q]) - 1 /\ Len(g[q]) \in Nat /\ Len(g[q]) >= 1
      /\ \A i \in 1..Len(g[q]) - 1 : Tail(g[q])[i] = g[q][i + 1]
      /\ Head(g[q]) = g[q][1] /\ DOMAIN Tail(g[q]) = 1..Len(g[q]) - 1 /\ DOMAIN g[q] = 1..Len(g[q])
  BY <1>1
<1>3. g2 \in AllWork /\ g2[q] = Tail(g[q]) /\ \A r \in AllQueues : r # q => g2[r] = g[r]
  BY <1>2 DEF AllWork
<1> DEFINE n == Len(g[q])
<1>7. /\ n \in Nat /\ n >= 1 /\ DOMAIN g2[q] = 1..n - 1 /\ DOMAIN g[q] = 1..n /\ Len(g2[q]) = n - 1
      /\ \A i \in 1..n - 1 : g2[q][i] = g[q][i + 1]
  BY <1>2, <1>3
<1>8. End(g, q) = n + 1 /\ \A r \in AllQueues : Len(g[r]) \in Nat
  BY Standing DEF End
<1> HIDE DEF g2, n
<1>4. ASSUME NEW r \in AllQueues, NEW i \in DOMAIN g2[r]
      PROVE  At(q, r, i) \in DOMAIN g[r] /\ g2[r][i] = g[r][At(q, r, i)] /\ (r = q => At(q, r, i) # 1)
  <2>1. CASE r = q
    BY <1>4, <1>7, <2>1 DEF At
  <2>2. CASE r # q
    BY <1>3, <1>4, <2>2 DEF At
  <2> QED BY <2>1, <2>2
<1>5. ASSUME NEW r \in AllQueues, NEW j \in DOMAIN g[r]
      PROVE  (r = q /\ j = 1) \/ \E i \in DOMAIN g2[r] : At(q, r, i) = j
  <2>1. CASE r = q /\ j # 1
    <3>1. j - 1 \in DOMAIN g2[r] /\ At(q, r, j - 1) = j
      BY <1>5, <1>7, <2>1 DEF At
    <3> QED BY <3>1
  <2>2. CASE r # q
    BY <1>3, <1>5, <2>2 DEF At
  <2> QED BY <2>1, <2>2
<1>6. \A r \in AllQueues : At(q, r, End(g2, r)) = End(g, r)
  <2>1. At(q, q, End(g2, q)) = End(g, q)
    BY <1>7, <1>8 DEF At, End
  <2>2. \A r \in AllQueues : r # q => At(q, r, End(g2, r)) = End(g, r)
    BY <1>3 DEF At, End
  <2> QED BY <2>1, <2>2
<1>9. 1 \in DOMAIN g[q]
  BY <1>7
<1>10. Runs(g, q, g2)
  BY <1>3, <1>4, <1>5, <1>6, <1>9, Zenon DEF Runs
<1> QED BY <1>2, <1>10 DEF g2

(* A command keeps its kind and its place among the others.                *)
LEMMA RunsKeepsKind ==
  ASSUME NEW g \in AllWork, NEW q \in AllQueues, NEW g2, Runs(g, q, g2), NEW r \in AllQueues, NEW i \in DOMAIN g2[r]
  PROVE  /\ At(q, r, i) \in DOMAIN g[r] /\ g2[r][i] = g[r][At(q, r, i)] /\ (r = q => At(q, r, i) # 1)
         /\ \A op : Is(g2, r, i, op) <=> Is(g, r, At(q, r, i), op)
         /\ Ordered(g2, r, i) <=> Ordered(g, r, At(q, r, i))
         /\ \A j \in DOMAIN g2[r] : j < i <=> At(q, r, j) < At(q, r, i)
<1>1. At(q, r, i) \in DOMAIN g[r] /\ g2[r][i] = g[r][At(q, r, i)] /\ (r = q => At(q, r, i) # 1)
  BY DEF Runs
<1>2. \A op : Is(g2, r, i, op) <=> Is(g, r, At(q, r, i), op)
  BY <1>1 DEF Is
<1>3. Ordered(g2, r, i) <=> Ordered(g, r, At(q, r, i))
  BY <1>1, <1>2 DEF Ordered
<1>4. \A j \in DOMAIN g2[r] : j \in Nat
  BY Standing DEF Runs
<1>5. \A j \in DOMAIN g2[r] : j < i <=> At(q, r, j) < At(q, r, i)
  BY <1>4 DEF At
<1> QED BY <1>1, <1>2, <1>3, <1>5

(* What a command is behind, it is behind still, or that has happened.     *)
LEMMA RunsPasses ==
  ASSUME NEW g \in AllWork, NEW q \in AllQueues, NEW g2, Runs(g, q, g2), NEW done \in Nat, NEW done2 \in Nat, done <= done2,
         g[q][1].op = "wait" => done >= g[q][1].value,
         NEW r \in AllQueues, NEW i \in Nat, NEW v \in Int, Passed(g, done, r, At(q, r, i), v)
  PROVE  Passed(g2, done2, r, i, v)
<1>1. CASE done >= v
  BY <1>1 DEF Passed
<1>2. ASSUME NEW j \in DOMAIN g[r], j < At(q, r, i), Is(g, r, j, "wait"), g[r][j].value >= v
      PROVE Passed(g2, done2, r, i, v)
  <2>1. g[r][j].value \in Nat /\ j \in Nat
    BY <1>2, Standing, Kinds, ManagerAssumption DEF Is
  <2>2. CASE r = q /\ j = 1
    <3>1. done >= v
      BY <1>2, <2>1, <2>2 DEF Is
    <3> QED BY <1>1, <3>1
  <2>3. CASE ~(r = q /\ j = 1)
    <3>1. PICK k \in DOMAIN g2[r] : At(q, r, k) = j
      BY <2>3 DEF Runs
    <3>2. Is(g2, r, k, "wait") /\ g2[r][k].value >= v
      BY <1>2, <3>1, RunsKeepsKind
    <3>3. k \in Nat
      BY Standing DEF Runs
    <3>4. k < i
      BY <1>2, <3>1, <3>3 DEF At
    <3> QED BY <3>2, <3>4 DEF Passed
  <2> QED BY <2>2, <2>3
<1> QED BY <1>1, <1>2 DEF Passed

(* How far the timeline is after the first command of q.                   *)
Reaches(g, q, done, done2) ==
  /\ done2 \in Nat
  /\ done2 = IF g[q][1].op = "signal" THEN g[q][1].value ELSE done
  /\ g[q][1].op = "wait" => done >= g[q][1].value

(* A signal that is reached is the next one of the timeline.               *)
LEMMA ReachedIsNext ==
  ASSUME NEW g \in AllWork, NEW q \in AllQueues, 1 \in DOMAIN g[q], NEW done \in Nat, NEW last \in Nat,
         NEW tr, NEW failed, Timeline(g, done, last, tr, failed), NEW done2, Reaches(g, q, done, done2)
  PROVE  /\ done <= done2 /\ done2 <= last
         /\ done2 = done \/ (done2 = done + 1 /\ Is(g, q, 1, "signal") /\ g[q][1].value = done2)
         /\ Is(g, q, 1, "signal") => g[q][1].value = done2
<1>1. CASE ~Is(g, q, 1, "signal")
  <2>1. done2 = done
    BY <1>1 DEF Reaches, Is
  <2> QED BY <1>1, <2>1 DEF Timeline
<1>2. CASE Is(g, q, 1, "signal")
  <2>1. g[q][1].value \in Nat /\ done2 = g[q][1].value
    BY <1>2, Standing, Kinds, ManagerAssumption DEF Is, Reaches
  <2>2. /\ done < g[q][1].value /\ g[q][1].value <= last /\ Passed(g, done, q, 1, g[q][1].value - 1)
    BY <1>2 DEF Timeline
  <2>3. \A j \in DOMAIN g[q] : ~(j < 1)
    BY Standing
  <2>4. done >= g[q][1].value - 1
    BY <2>2, <2>3 DEF Passed
  <2> QED BY <1>2, <2>1, <2>2, <2>4
<1> QED BY <1>1, <1>2

(* The timeline after the first command of a queue.                        *)
LEMMA RunsTimeline ==
  ASSUME NEW g \in AllWork, NEW q \in AllQueues, NEW g2, Runs(g, q, g2), NEW done \in Nat, NEW last \in Nat,
         NEW tr \in Receipts, NEW failed, Timeline(g, done, last, tr, failed), NEW done2, Reaches(g, q, done, done2)
  PROVE  Timeline(g2, done2, last, tr, failed)
<1>1. /\ done <= done2 /\ done2 <= last /\ done2 \in Nat
      /\ done2 = done \/ (done2 = done + 1 /\ Is(g, q, 1, "signal") /\ g[q][1].value = done2)
      /\ Is(g, q, 1, "signal") => g[q][1].value = done2
      /\ g[q][1].op = "wait" => done >= g[q][1].value
  <2>1. 1 \in DOMAIN g[q]
    BY DEF Runs
  <2>2. done2 \in Nat /\ (g[q][1].op = "wait" => done >= g[q][1].value)
    BY DEF Reaches
  <2> QED BY <2>1, <2>2, ReachedIsNext
<1>2. ASSUME NEW r \in AllQueues, NEW i \in DOMAIN g2[r]
      PROVE  /\ Is(g2, r, i, "wait") => g2[r][i].value <= last
             /\ Is(g2, r, i, "signal") => /\ done2 < g2[r][i].value /\ g2[r][i].value <= last
                                          /\ Passed(g2, done2, r, i, g2[r][i].value - 1)
             /\ Ordered(g2, r, i) => /\ done2 < g2[r][i].value /\ g2[r][i].value <= last + 1
                                     /\ Passed(g2, done2, r, i, g2[r][i].value - 1)
                                     /\ g2[r][i].value = last + 1 => IF tr = NoOne THEN failed ELSE r = tr.queue
  <2> DEFINE k == At(q, r, i)
             v == g2[r][i].value
  <2>1. /\ k \in DOMAIN g[r] /\ g2[r][i] = g[r][k] /\ (r = q => k # 1)
        /\ \A op : Is(g2, r, i, op) <=> Is(g, r, k, op)
        /\ Ordered(g2, r, i) <=> Ordered(g, r, k)
    BY RunsKeepsKind
  <2>2. i \in Nat /\ k \in Nat /\ k >= 1
    <3>1. i \in Nat
      BY Standing DEF Runs
    <3> QED BY <2>1, <3>1, Standing
  <2>3. /\ Is(g, r, k, "wait") => v <= last
        /\ Is(g, r, k, "signal") => /\ done < v /\ v <= last /\ Passed(g, done, r, k, v - 1)
        /\ Ordered(g, r, k) => /\ done < v /\ v <= last + 1 /\ Passed(g, done, r, k, v - 1)
                               /\ v = last + 1 => IF tr = NoOne THEN failed ELSE r = tr.queue
    BY <2>1 DEF Timeline
  <2>4. Is(g, r, k, "signal") \/ Ordered(g, r, k) => v \in Nat
    BY <2>1, Standing, Kinds, ManagerAssumption DEF Is, Ordered
  <2>5. Is(g, r, k, "signal") \/ Ordered(g, r, k) => done2 < v
    <3>1. SUFFICES ASSUME Is(g, r, k, "signal") \/ Ordered(g, r, k), Is(g, q, 1, "signal"), g[q][1].value = v
          PROVE FALSE
      BY <1>1, <2>3, <2>4
    <3>2. 1 \in DOMAIN g[q] /\ g[q][1].op # "fence" /\ g[r][k].op # "fence" /\ g[q][1].value = g[r][k].value
      BY <2>1, <3>1 DEF Is, Ordered, Runs
    <3>3. /\ Is(g, q, 1, "signal") /\ Is(g, r, k, "signal") => q = r /\ k = 1
          /\ Is(g, q, 1, "signal") /\ Ordered(g, r, k) => q = r /\ k < 1
      BY <2>1, <3>2 DEF Timeline
    <3> QED BY <2>1, <2>2, <3>1, <3>3
  <2>6. (Is(g, r, k, "signal") \/ Ordered(g, r, k)) => Passed(g2, done2, r, i, v - 1)
    <3>1. SUFFICES ASSUME Is(g, r, k, "signal") \/ Ordered(g, r, k) PROVE Passed(g2, done2, r, i, v - 1)
      OBVIOUS
    <3>2. Passed(g, done, r, At(q, r, i), v - 1) /\ v - 1 \in Int
      BY <2>3, <2>4, <3>1
    <3> HIDE DEF v
    <3> QED BY <1>1, <2>2, <3>2, RunsPasses
  <2> QED BY <2>1, <2>3, <2>5, <2>6
<1>3. \A x, r \in AllQueues : \A i \in DOMAIN g2[x], j \in DOMAIN g2[r] :
        g2[x][i].op # "fence" /\ g2[r][j].op # "fence" /\ g2[x][i].value = g2[r][j].value =>
        /\ Is(g2, x, i, "signal") /\ Is(g2, r, j, "signal") => x = r /\ i = j
        /\ Is(g2, x, i, "signal") /\ Ordered(g2, r, j) => x = r /\ j < i
        /\ Ordered(g2, x, i) /\ Ordered(g2, r, j) => x = r
  <2>1. SUFFICES ASSUME NEW x \in AllQueues, NEW r \in AllQueues, NEW i \in DOMAIN g2[x], NEW j \in DOMAIN g2[r],
                        g2[x][i].op # "fence", g2[r][j].op # "fence", g2[x][i].value = g2[r][j].value
        PROVE /\ Is(g2, x, i, "signal") /\ Is(g2, r, j, "signal") => x = r /\ i = j
              /\ Is(g2, x, i, "signal") /\ Ordered(g2, r, j) => x = r /\ j < i
              /\ Ordered(g2, x, i) /\ Ordered(g2, r, j) => x = r
    OBVIOUS
  <2> DEFINE k == At(q, x, i)
             m == At(q, r, j)
  <2>2. /\ k \in DOMAIN g[x] /\ g2[x][i] = g[x][k] /\ (\A op : Is(g2, x, i, op) <=> Is(g, x, k, op))
        /\ Ordered(g2, x, i) <=> Ordered(g, x, k)
    BY RunsKeepsKind
  <2>3. /\ m \in DOMAIN g[r] /\ g2[r][j] = g[r][m] /\ (\A op : Is(g2, r, j, op) <=> Is(g, r, m, op))
        /\ Ordered(g2, r, j) <=> Ordered(g, r, m)
    BY RunsKeepsKind
  <2>4. i \in Nat /\ j \in Nat
    BY Standing DEF Runs
  <2>5. x = r => (k = m => i = j) /\ (m < k => j < i)
    BY <2>4 DEF At
  <2> HIDE DEF k, m
  <2>6. g[x][k].op # "fence" /\ g[r][m].op # "fence" /\ g[x][k].value = g[r][m].value
    BY <2>1, <2>2, <2>3
  <2>7. /\ Is(g, x, k, "signal") /\ Is(g, r, m, "signal") => x = r /\ k = m
        /\ Is(g, x, k, "signal") /\ Ordered(g, r, m) => x = r /\ m < k
        /\ Ordered(g, x, k) /\ Ordered(g, r, m) => x = r
    BY <2>2, <2>3, <2>6 DEF Timeline
  <2> QED BY <2>2, <2>3, <2>5, <2>7
<1>4. \A r \in AllQueues : \A i, j \in DOMAIN g2[r] :
        j < i /\ Is(g2, r, j, "wait") /\ Is(g2, r, i, "signal") => g2[r][j].value < g2[r][i].value
  <2>1. SUFFICES ASSUME NEW r \in AllQueues, NEW i \in DOMAIN g2[r], NEW j \in DOMAIN g2[r],
                        j < i, Is(g2, r, j, "wait"), Is(g2, r, i, "signal")
        PROVE g2[r][j].value < g2[r][i].value
    OBVIOUS
  <2> DEFINE k == At(q, r, i)
             m == At(q, r, j)
  <2>2. k \in DOMAIN g[r] /\ g2[r][i] = g[r][k] /\ Is(g, r, k, "signal") /\ m < k
    BY <2>1, RunsKeepsKind
  <2>3. m \in DOMAIN g[r] /\ g2[r][j] = g[r][m] /\ Is(g, r, m, "wait")
    BY <2>1, RunsKeepsKind
  <2> HIDE DEF k, m
  <2> QED BY <2>2, <2>3 DEF Timeline
<1>5. ASSUME NEW v \in done2 + 1..last
      PROVE  \E r \in AllQueues : \E i \in DOMAIN g2[r] : Is(g2, r, i, "signal") /\ g2[r][i].value = v
  <2>1. v \in done + 1..last /\ v # done2
    BY <1>1
  <2>2. PICK r \in AllQueues : \E j \in DOMAIN g[r] : Is(g, r, j, "signal") /\ g[r][j].value = v
    BY <2>1 DEF Timeline
  <2>3. PICK j \in DOMAIN g[r] : Is(g, r, j, "signal") /\ g[r][j].value = v
    BY <2>2
  <2>4. ~(r = q /\ j = 1)
    BY <1>1, <2>1, <2>3
  <2>5. PICK i \in DOMAIN g2[r] : At(q, r, i) = j
    BY <2>4 DEF Runs
  <2>6. Is(g2, r, i, "signal") /\ g2[r][i].value = v
    BY <2>3, <2>5, RunsKeepsKind
  <2> QED BY <2>6
<1>6. tr # NoOne => tr.value = last + 1 /\ Passed(g2, done2, tr.queue, End(g2, tr.queue), last)
  <2>1. SUFFICES ASSUME tr # NoOne PROVE tr.value = last + 1 /\ Passed(g2, done2, tr.queue, End(g2, tr.queue), last)
    OBVIOUS
  <2> DEFINE r == tr.queue
             i == End(g2, r)
  <2>2. r \in AllQueues
    BY <2>1 DEF Receipts, Transactions
  <2>3. tr.value = last + 1 /\ Passed(g, done, r, End(g, r), last)
    BY <2>1 DEF Timeline
  <2>4. At(q, r, i) = End(g, r) /\ i \in Nat
    <3>1. Len(g2[r]) \in Nat
      BY <2>2, Standing DEF Runs
    <3>2. At(q, r, i) = End(g, r)
      BY <2>2 DEF Runs
    <3> QED BY <3>1, <3>2 DEF End
  <2> HIDE DEF r, i
  <2>5. Passed(g2, done2, r, i, last)
    BY <1>1, <2>2, <2>3, <2>4, RunsPasses
  <2> QED BY <2>3, <2>5 DEF r, i
<1> QED BY <1>1, <1>2, <1>3, <1>4, <1>5, <1>6 DEF Timeline

(* The writes, reads, fences and outputs after the first command of a      *)
(* queue.                                                                  *)
LEMMA RunsWork ==
  ASSUME NEW g \in AllWork, NEW q \in AllQueues, NEW g2, Runs(g, q, g2), NEW done \in Nat, NEW last \in Nat,
         NEW tr \in Receipts, NEW failed, Timeline(g, done, last, tr, failed), NEW done2, Reaches(g, q, done, done2),
         NEW pk \in AllPackets, NEW ls, NEW pub, NEW def, NEW th,
         FencesFit(g, done, last, pk), WritesFit(g, pk, tr, ls, pub, def), ReadsFit(g, pk, th),
         OutputsFit(g, pub, def, failed)
  PROVE  /\ FencesFit(g2, done2, last, pk) /\ WritesFit(g2, pk, tr, ls, pub, def) /\ ReadsFit(g2, pk, th)
         /\ OutputsFit(g2, pub, def, failed)
<1>1. done <= done2 /\ done2 \in Nat /\ (g[q][1].op = "wait" => done >= g[q][1].value) /\ 1 \in DOMAIN g[q]
  <2>1. 1 \in DOMAIN g[q]
    BY DEF Runs
  <2>2. done2 \in Nat /\ (g[q][1].op = "wait" => done >= g[q][1].value)
    BY DEF Reaches
  <2> QED BY <2>1, <2>2, ReachedIsNext
<1>2. \A r \in AllQueues : g2[r] \in Seq(Commands) /\ Len(g2[r]) \in Nat /\ \A i \in DOMAIN g2[r] : i \in Nat
  BY Standing DEF Runs
<1>3. \A p \in Packets : pk[p].order[1] \in Nat /\ pk[p].producer \in AllQueues
  BY ManagerAssumption DEF AllPackets, Records, Orders
<1>4. FencesFit(g2, done2, last, pk)
  <2>1. ASSUME NEW r \in AllQueues, NEW i \in DOMAIN g2[r], Is(g2, r, i, "fence"),
               NEW p \in g2[r][i].packets, ~pk[p].quarantined
        PROVE  /\ pk[p].assigned /\ pk[p].gpu = "retiring" /\ r = pk[p].producer
               /\ Passed(g2, done2, r, i, pk[p].order[1] - 1)
    <3> DEFINE k == At(q, r, i)
               v == pk[p].order[1] - 1
    <3>1. k \in DOMAIN g[r] /\ g2[r][i] = g[r][k] /\ Is(g, r, k, "fence")
      BY <2>1, RunsKeepsKind
    <3>2. p \in Packets
      BY <2>1, <3>1, Standing, Kinds DEF Is
    <3>3. /\ pk[p].assigned /\ pk[p].gpu = "retiring" /\ r = pk[p].producer /\ Passed(g, done, r, k, v)
      BY <2>1, <3>1 DEF FencesFit
    <3>4. v \in Int /\ i \in Nat
      BY <1>2, <1>3, <3>2
    <3> HIDE DEF v
    <3>5. Passed(g2, done2, r, i, v)
      BY <1>1, <3>3, <3>4, RunsPasses
    <3> QED BY <3>3, <3>5 DEF v
  <2>2. ASSUME NEW p \in Packets, pk[p].assigned, ~pk[p].quarantined
        PROVE  /\ pk[p].gpu \in {"retiring", "ready", "consuming"} => pk[p].submitted
               /\ pk[p].submitted => /\ pk[p].order[1] \in 1..last
                                     /\ Passed(g2, done2, pk[p].producer, End(g2, pk[p].producer), pk[p].order[1] - 1)
    <3> DEFINE r == pk[p].producer
               i == End(g2, r)
               v == pk[p].order[1] - 1
    <3>1. /\ pk[p].gpu \in {"retiring", "ready", "consuming"} => pk[p].submitted
          /\ pk[p].submitted => pk[p].order[1] \in 1..last /\ Passed(g, done, r, End(g, r), v)
      BY <2>2 DEF FencesFit
    <3>2. r \in AllQueues /\ v \in Int
      BY <1>3
    <3>3. At(q, r, i) = End(g, r)
      BY <3>2 DEF Runs
    <3>4. i \in Nat
      BY <1>2, <3>2 DEF End
    <3> HIDE DEF r, i, v
    <3>5. pk[p].submitted => Passed(g2, done2, r, i, v)
      BY <1>1, <3>1, <3>2, <3>3, <3>4, RunsPasses
    <3> QED BY <3>1, <3>5 DEF r, i, v
  <2> QED BY <2>1, <2>2, Zenon DEF FencesFit
<1>5. WritesFit(g2, pk, tr, ls, pub, def)
  <2>1. SUFFICES ASSUME NEW r \in AllQueues, NEW i \in DOMAIN g2[r], Is(g2, r, i, "exec"), NEW w \in g2[r][i].writes
        PROVE  /\ pk[w[1]].assigned /\ pk[w[1]].token = w[2]
               /\ \/ pk[w[1]].quarantined
                  \/ g2[r][i].value = 0 /\ Doomed(w[1], pk, ls, pub, def)
                  \/ g2[r][i].value > 0 /\ InFlight(tr, w[1]) /\ g2[r][i].value = tr.value
                  \/ g2[r][i].value > 0 /\ Received(g2, pk, r, i, w[1])
    BY Zenon DEF WritesFit
  <2> DEFINE p == w[1]
             v == g2[r][i].value
             k == At(q, r, i)
  <2>2. /\ k \in DOMAIN g[r] /\ g2[r][i] = g[r][k] /\ Is(g, r, k, "exec") /\ (r = q => k # 1)
    BY <2>1, RunsKeepsKind
  <2>3. p \in Packets /\ v \in Nat /\ k \in Nat /\ k >= 1
    BY <2>1, <2>2, Standing, Kinds, ManagerAssumption DEF Is
  <2>4. /\ pk[p].assigned /\ pk[p].token = w[2]
        /\ \/ pk[p].quarantined
           \/ v = 0 /\ Doomed(p, pk, ls, pub, def)
           \/ v > 0 /\ InFlight(tr, p) /\ v = tr.value
           \/ v > 0 /\ Received(g, pk, r, k, p)
    BY <2>1, <2>2 DEF WritesFit
  <2>5. v > 0 => done < v
    BY <2>2 DEF Timeline, Ordered
  <2>6. \A j \in DOMAIN g2[r] : j < i /\ Is(g2, r, j, "fence") =>
          At(q, r, j) \in DOMAIN g[r] /\ At(q, r, j) < k /\ Is(g, r, At(q, r, j), "fence") /\ g2[r][j] = g[r][At(q, r, j)]
    BY RunsKeepsKind
  <2>7. Received(g, pk, r, k, p) => v < pk[p].order[1] \/ (v = pk[p].order[1] /\ r = pk[p].producer)
    BY <2>2 DEF Received
  <2> HIDE DEF p, v, k
  <2>8. ASSUME v > 0, Received(g, pk, r, k, p), ~pk[p].quarantined
        PROVE  Behind(g2, pk, r, i, p)
    <3>1. Behind(g, pk, r, k, p)
      BY <2>8 DEF Received
    <3>2. CASE pk[p].gpu = "recorded"
      BY <3>2 DEF Behind
    <3>3. CASE pk[p].gpu # "recorded"
      <4>1. /\ pk[p].gpu = "retiring"
            /\ \E x \in AllQueues : \E j \in DOMAIN g[x] : Is(g, x, j, "fence") /\ p \in g[x][j].packets
            /\ \A j \in DOMAIN g[r] : j < k /\ Is(g, r, j, "fence") => p \notin g[r][j].packets
        BY <3>1, <3>3 DEF Behind
      <4>2. PICK x \in AllQueues : \E j \in DOMAIN g[x] : Is(g, x, j, "fence") /\ p \in g[x][j].packets
        BY <4>1
      <4>3. PICK j \in DOMAIN g[x] : Is(g, x, j, "fence") /\ p \in g[x][j].packets
        BY <4>2
      <4>4. ~(x = q /\ j = 1)
        <5>1. SUFFICES ASSUME x = q, j = 1 PROVE FALSE
          OBVIOUS
        <5>2. q = pk[p].producer /\ Passed(g, done, q, 1, pk[p].order[1] - 1)
          BY <2>8, <4>3, <5>1 DEF FencesFit
        <5>3. \A m \in DOMAIN g[q] : ~(m < 1)
          BY Standing
        <5>4. done >= pk[p].order[1] - 1
          BY <5>2, <5>3 DEF Passed
        <5>5. v = pk[p].order[1] /\ r = q
          BY <1>3, <2>3, <2>5, <2>7, <2>8, <5>2, <5>4
        <5>6. 1 < k
          BY <2>2, <2>3, <5>5 DEF k
        <5> QED BY <4>1, <4>3, <5>1, <5>5, <5>6
      <4>5. PICK m \in DOMAIN g2[x] : At(q, x, m) = j
        BY <4>4 DEF Runs
      <4>6. Is(g2, x, m, "fence") /\ p \in g2[x][m].packets
        BY <4>3, <4>5, RunsKeepsKind
      <4>7. \A n \in DOMAIN g2[r] : n < i /\ Is(g2, r, n, "fence") => p \notin g2[r][n].packets
        BY <2>6, <4>1
      <4> QED BY <4>1, <4>6, <4>7 DEF Behind
    <3> QED BY <3>2, <3>3
  <2>9. ASSUME v > 0, Received(g, pk, r, k, p), ~pk[p].quarantined
        PROVE  Received(g2, pk, r, i, p)
    BY <2>7, <2>8, <2>9 DEF Received, v
  <2> QED BY <2>4, <2>9 DEF p, v
<1>6. ReadsFit(g2, pk, th)
  <2>1. SUFFICES ASSUME NEW r \in AllQueues, NEW i \in DOMAIN g2[r], Is(g2, r, i, "exec"), NEW x \in g2[r][i].reads
        PROVE  /\ g2[r][i].value > 0 /\ pk[x[1]].assigned /\ pk[x[1]].token = x[2]
               /\ \/ pk[x[1]].quarantined
                  \/ /\ pk[x[1]].leased /\ x[1] \in th[Service].frames
                     /\ th[Service].pc \in Reading /\ g2[r][i].value = th[Service].value
                  \/ pk[x[1]].gpu = "consuming" /\ pk[x[1]].consumer_value >= g2[r][i].value
    BY Zenon DEF ReadsFit
  <2>2. At(q, r, i) \in DOMAIN g[r] /\ g2[r][i] = g[r][At(q, r, i)] /\ Is(g, r, At(q, r, i), "exec")
    BY <2>1, RunsKeepsKind
  <2> QED BY <2>1, <2>2 DEF ReadsFit
<1>7. OutputsFit(g2, pub, def, failed)
  <2>1. \A r \in AllQueues : \A i \in DOMAIN g2[r] : Is(g2, r, i, "exec") =>
          At(q, r, i) \in DOMAIN g[r] /\ g2[r][i] = g[r][At(q, r, i)] /\ Is(g, r, At(q, r, i), "exec")
    BY RunsKeepsKind
  <2> QED BY <2>1 DEF OutputsFit
<1> QED BY <1>4, <1>5, <1>6, <1>7

(* What a snapshot shows is the last write of the command.                 *)
LEMMA ShowsIs ==
  ASSUME NEW c \in Commands, c.op = "exec", NEW p
  PROVE  LET at == {w[3] : w \in {x \in c.writes : x[1] = p}}
         IN  at # {} => <<c.value, CHOOSE i \in at : \A j \in at : j <= i>> \in Orders
<1> DEFINE at == {w[3] : w \in {x \in c.writes : x[1] = p}}
<1>1. /\ c.value \in 0..MaximumSignal /\ c.writes \in SUBSET (Packets \X (0..MaximumToken) \X Nat)
      /\ \E n \in Nat : \A w \in c.writes : w[3] <= n
  BY Kinds
<1>2. PICK n \in Nat : \A w \in c.writes : w[3] <= n
  BY <1>1
<1>3. at \in SUBSET Nat /\ \A i \in at : i <= n
  BY <1>1, <1>2
<1> HIDE DEF at
<1> DEFINE latest == CHOOSE i \in at : \A j \in at : j <= i
<1>4. at # {} => latest \in Nat
  <2>1. at # {} => \E i \in at : \A j \in at : j <= i
    BY <1>2, <1>3, Largest
  <2> QED BY <1>3, <2>1
<1> HIDE DEF latest
<1>5. at # {} => <<c.value, latest>> \in Orders
  BY <1>1, <1>4 DEF Orders
<1> QED BY <1>5, Zenon DEF at, latest

(* The GPU runs a command.                                                 *)
LEMMA ExecuteKeeps ==
  ASSUME IInv, NEW q \in AllQueues, execute(q)
  PROVE  IInv'
<1> DEFINE c == Head(gpu[q])
           last == device.last_signal
<1>1. /\ gpu[q] # <<>> /\ (c.op = "wait" => completed >= c.value)
      /\ gpu' = [gpu EXCEPT ![q] = Tail(gpu[q])]
      /\ completed' = IF c.op = "signal" THEN c.value ELSE completed
      /\ UNCHANGED <<device, lists, published, deferred, packets, next_token, transaction, thread, native>>
  BY DEF execute, Runnable
<1>2. /\ Types /\ packets \in AllPackets /\ gpu \in AllWork /\ last \in 0..MaximumSignal /\ last \in Nat
      /\ transaction \in Receipts /\ completed \in 0..MaximumSignal /\ completed \in Nat
      /\ Fits(device, lists, published, deferred, packets, transaction, thread, gpu, completed, native)
      /\ Unretired(lists, packets)
  BY ManagerAssumption DEF IInv, Types, Devices
<1>3. /\ Timeline(gpu, completed, last, transaction, device.failed) /\ FencesFit(gpu, completed, last, packets)
      /\ WritesFit(gpu, packets, transaction, lists, published, deferred) /\ ReadsFit(gpu, packets, thread)
      /\ LeasesFit(packets, thread, transaction) /\ FlightFits(packets, thread, transaction)
      /\ ListsFit(lists, native, published, packets)
      /\ EscapesFit(thread, lists, published, packets, deferred, device.failed, transaction)
      /\ OutputsFit(gpu, published, deferred, device.failed)
  BY <1>2, Zenon DEF Fits
<1>4. Runs(gpu, q, gpu') /\ c = gpu[q][1] /\ c \in Commands
  <2>1. Runs(gpu, q, gpu') /\ c = gpu[q][1]
    BY <1>1, <1>2, RunsIs
  <2> QED BY <1>2, <2>1, Standing DEF Runs
<1>5. completed' \in 0..MaximumSignal /\ completed' \in Nat
  BY <1>1, <1>2, <1>4, Kinds, ManagerAssumption
<1>6. content' \in [Packets -> Orders]
  <2>1. content \in [Packets -> Orders]
    BY <1>2 DEF Types
  <2>2. CASE c.op # "exec"
    BY <2>1, <2>2 DEF execute
  <2>3. CASE c.op = "exec"
    <3> DEFINE Places(p) == {w[3] : w \in {x \in c.writes : x[1] = p}}
               Show(p) == <<c.value, CHOOSE i \in Places(p) : \A j \in Places(p) : j <= i>>
    <3>1. content' = [p \in Packets |-> IF Places(p) = {} THEN content[p] ELSE Show(p)]
      BY <2>3 DEF execute
    <3>2. \A p \in Packets : Places(p) # {} => Show(p) \in Orders
      BY <1>4, <2>3, ShowsIs
    <3> HIDE DEF Places, Show
    <3> QED BY <2>1, <3>1, <3>2
  <2> QED BY <2>2, <2>3
<1> HIDE DEF c, last
<1>7. Reaches(gpu, q, completed, completed')
  BY <1>1, <1>4, <1>5 DEF Reaches
<1>8. Timeline(gpu', completed', last, transaction, device.failed)
  BY <1>2, <1>3, <1>4, <1>7, RunsTimeline
<1>9. /\ FencesFit(gpu', completed', last, packets)
      /\ WritesFit(gpu', packets, transaction, lists, published, deferred) /\ ReadsFit(gpu', packets, thread)
      /\ OutputsFit(gpu', published, deferred, device.failed)
  BY <1>2, <1>3, <1>4, <1>7, RunsWork
<1>10. Fits(device, lists, published, deferred, packets, transaction, thread, gpu', completed', native)
  BY <1>3, <1>8, <1>9 DEF Fits, last
<1>11. gpu' \in AllWork
  BY <1>4 DEF Runs
<1> QED BY <1>1, <1>2, <1>5, <1>6, <1>10, <1>11 DEF IInv, Types
-----------------------------------------------------------------------------
(* The first state.                                                        *)
LEMMA InitKeeps ==
  ASSUME Init
  PROVE  IInv
<1>1. /\ device = [active |-> TRUE, failed |-> FALSE, session |-> 1, session_active |-> TRUE, last_signal |-> 0]
      /\ lists = [l \in Lists |-> [Blank EXCEPT !.registered = TRUE, !.session = 1]]
      /\ published = [l \in Lists |-> Word(Blank)] /\ deferred = NothingDeferred
      /\ packets = [p \in Packets |-> Fresh] /\ next_token = 0 /\ transaction = NoOne
      /\ thread = [t \in AllThreads |-> Idle] /\ gpu = [q \in AllQueues |-> <<>>] /\ completed = 0
      /\ native = [l \in Lists |-> Empty] /\ content = [p \in Packets |-> NoOrder]
  BY Zenon DEF Init
<1>2. 0 \in 0..MaximumSignal /\ 0 \in 0..MaximumToken /\ 0 \in 0..MaximumSession /\ 1 \in 0..MaximumSession
      /\ 1 \in 1..MaximumSession
  BY ManagerAssumption
<1>3. /\ device \in Devices /\ device.failed = FALSE /\ device.last_signal = 0
  BY <1>1, <1>2 DEF Devices
<1>4. lists \in AllLists /\ \A l \in Lists : lists[l].packets = {} /\ lists[l].consumer = FALSE /\ lists[l].awaiting = FALSE
                                             /\ lists[l].registered = TRUE
  <2> DEFINE b == [Blank EXCEPT !.registered = TRUE, !.session = 1]
  <2>1. b \in Items /\ b.packets = {} /\ b.consumer = FALSE /\ b.awaiting = FALSE /\ b.registered = TRUE
    BY <1>2 DEF Blank, Items
  <2>2. lists = [l \in Lists |-> b]
    BY <1>1
  <2> HIDE DEF b
  <2> QED BY <2>1, <2>2 DEF AllLists
<1>5. published \in AllWords /\ \A l \in Lists : published[l].packets = {} /\ published[l].consumer = FALSE
  <2>1. Word(Blank) \in Words /\ Word(Blank).packets = {} /\ Word(Blank).consumer = FALSE
    BY DEF Word, Blank, Words
  <2> QED BY <1>1, <2>1 DEF AllWords
<1>6. packets \in AllPackets /\ \A p \in Packets : packets[p] = Fresh
  <2>1. Fresh \in Records
    BY <1>2 DEF Fresh, Records, Orders, NoOrder, AllQueues
  <2> QED BY <1>1, <2>1 DEF AllPackets
<1>7. thread \in AllSubmissions /\ \A t \in AllThreads : thread[t] = Idle
  <2>1. Idle \in Submissions
    BY DEF Idle, Submissions, AllQueues
  <2> QED BY <1>1, <2>1 DEF AllSubmissions
<1>8. gpu \in AllWork /\ \A q \in AllQueues : DOMAIN gpu[q] = {}
  <2>1. <<>> \in Seq(Commands) /\ DOMAIN <<>> = {}
    OBVIOUS
  <2> QED BY <1>1, <2>1 DEF AllWork
<1>9. native \in AllNatives /\ \A l \in Lists : native[l].writes = {} /\ native[l].reads_output = FALSE
  <2>1. Empty \in Natives /\ Empty.writes = {} /\ Empty.reads_output = FALSE
    BY DEF Empty, Natives
  <2> QED BY <1>1, <2>1 DEF AllNatives
<1>10. content \in [Packets -> Orders]
  BY <1>1, <1>2 DEF NoOrder, Orders
<1>11. Types
  BY <1>1, <1>2, <1>3, <1>4, <1>5, <1>6, <1>7, <1>8, <1>9, <1>10, NoticesTaken
     DEF Types, Receipts, Notices, NothingDeferred
<1>12. /\ Fresh.assigned = FALSE /\ Fresh.leased = FALSE /\ Fresh.in_flight = 0
  BY DEF Fresh
<1>13. /\ Idle.pc = "idle" /\ Idle.frames = {} /\ Idle.batch = <<>> /\ Idle.queue = PrivateQueue /\ Service \in AllThreads
       /\ Threads \subseteq AllThreads
  BY DEF Idle, AllThreads
<1> HIDE DEF Fresh, Idle
<1>14. Timeline(gpu, completed, device.last_signal, transaction, device.failed)
  <2>1. \A v \in completed + 1..device.last_signal : FALSE
    BY <1>1, <1>3
  <2>2. completed <= device.last_signal
    BY <1>1, <1>3
  <2> QED BY <1>1, <1>8, <2>1, <2>2 DEF Timeline
<1>15. FencesFit(gpu, completed, device.last_signal, packets)
  BY <1>6, <1>8, <1>12 DEF FencesFit
<1>16. /\ WritesFit(gpu, packets, transaction, lists, published, deferred) /\ ReadsFit(gpu, packets, thread)
       /\ OutputsFit(gpu, published, deferred, device.failed)
  BY <1>8 DEF WritesFit, ReadsFit, OutputsFit
<1>17. LeasesFit(packets, thread, transaction)
  BY <1>6, <1>7, <1>12, <1>13 DEF LeasesFit
<1>18. FlightFits(packets, thread, transaction)
  BY <1>1, <1>6, <1>7, <1>12, <1>13 DEF FlightFits, InFlight, InReceipt
<1>19. ListsFit(lists, native, published, packets) /\ Unretired(lists, packets)
  BY <1>4, <1>5, <1>9 DEF ListsFit, Unretired
<1>20. EscapesFit(thread, lists, published, packets, deferred, device.failed, transaction)
  BY <1>7, <1>13 DEF EscapesFit
<1> QED BY <1>11, <1>14, <1>15, <1>16, <1>17, <1>18, <1>19, <1>20, Zenon DEF IInv, Fits

(* Every step keeps the invariant.                                         *)
LEMMA NextKeeps ==
  ASSUME IInv, [Next]_vars
  PROVE  IInv'
<1>1. CASE UNCHANGED vars
  <2>1. Types'
    BY <1>1 DEF IInv, Types, vars
  <2>2. Fits(device, lists, published, deferred, packets, transaction, thread, gpu, completed, native)'
    BY <1>1 DEF IInv, vars
  <2>3. Unretired(lists, packets)'
    BY <1>1 DEF IInv, vars
  <2> QED BY <2>1, <2>2, <2>3 DEF IInv
<1>2. ASSUME destroy_device \/ reset_session \/ resume_session PROVE IInv'
  BY <1>2, DestroyDeviceKeeps, ResetSessionKeeps, ResumeSessionKeeps
<1>3. ASSUME NEW l \in Lists,
             \/ \E observed \in BOOLEAN : register_list(l, observed)
             \/ \E p \in Packets, failing \in SUBSET Packets : capture_source(l, p, failing)
             \/ register_consumer_recording(l) \/ touch_sources(l) \/ Close(l)
             \/ \E failing \in SUBSET Packets : successful_reset(l, failing) \/ destroy_command_list(l, failing)
      PROVE IInv'
  <2>1. ASSUME NEW observed \in BOOLEAN, register_list(l, observed) PROVE IInv'
    BY <2>1, RegisterListKeeps
  <2>2. ASSUME NEW p \in Packets, NEW failing \in SUBSET Packets, capture_source(l, p, failing) PROVE IInv'
    BY <2>2, CaptureSourceKeeps
  <2>3. ASSUME register_consumer_recording(l) \/ touch_sources(l) \/ Close(l) PROVE IInv'
    BY <2>3, RegisterConsumerKeeps, TouchSourcesKeeps, CloseKeeps
  <2>4. ASSUME NEW failing \in SUBSET Packets, successful_reset(l, failing) PROVE IInv'
    BY <2>4, SuccessfulResetKeeps
  <2>5. ASSUME NEW failing \in SUBSET Packets, destroy_command_list(l, failing) PROVE IInv'
    BY <2>5, DestroyListKeeps
  <2> QED BY <1>3, <2>1, <2>2, <2>3, <2>4, <2>5
<1>4. ASSUME NEW t \in Threads,
             \/ \E q \in Queues, batch \in Batches : submit(t, q, batch)
             \/ before_unrelated(t) \/ before_submission(t) \/ forward_unordered(t)
             \/ \E nested \in BOOLEAN : forward(t, nested)
             \/ classify(t) \/ mark(t) \/ wake(t)
      PROVE IInv'
  <2>1. ASSUME NEW q \in Queues, NEW batch \in Batches, submit(t, q, batch) PROVE IInv'
    BY <2>1, SubmitKeeps
  <2>2. ASSUME before_unrelated(t) \/ before_submission(t) \/ forward_unordered(t) PROVE IInv'
    BY <2>2, BeforeUnrelatedKeeps, BeforeSubmissionKeeps, ForwardUnorderedKeeps
  <2>3. ASSUME NEW nested \in BOOLEAN, forward(t, nested) PROVE IInv'
    BY <2>3, ForwardKeeps
  <2>4. ASSUME classify(t) \/ mark(t) \/ wake(t) PROVE IInv'
    BY <2>4, ClassifyKeeps, MarkKeeps, WakeKeeps
  <2> QED BY <1>4, <2>1, <2>2, <2>3, <2>4
<1>5. ASSUME NEW t \in AllThreads, NEW p \in Packets, NEW closed \in BOOLEAN, NEW failing \in SUBSET Packets,
             finish_tail(t, p, closed, failing)
      PROVE IInv'
  BY <1>5, FinishTailKeeps
<1>6. ASSUME NEW t \in AllThreads, NEW signalled \in BOOLEAN, NEW failing \in SUBSET Packets,
             finish_signal(t, signalled, failing)
      PROVE IInv'
  BY <1>6, FinishSignalKeeps
<1>7. ASSUME NEW current \in SUBSET Packets, NEW failing \in SUBSET Packets, poll_completed_frames(current, failing)
      PROVE IInv'
  BY <1>7, PollKeeps
<1>8. ASSUME NEW p \in Packets, discard_frame(p) PROVE IInv'
  BY <1>8, DiscardFrameKeeps
<1>9. ASSUME NEW frames \in SUBSET Packets, begin_private_submission(frames) PROVE IInv'
  BY <1>9, BeginPrivateKeeps
<1>10. ASSUME forward_private \/ consume PROVE IInv'
  BY <1>10, ForwardPrivateKeeps, ConsumeKeeps
<1>11. ASSUME NEW q \in AllQueues, execute(q) PROVE IInv'
  BY <1>11, ExecuteKeeps
<1> QED BY <1>1, <1>2, <1>3, <1>4, <1>5, <1>6, <1>7, <1>8, <1>9, <1>10, <1>11, Zenon DEF Next
-----------------------------------------------------------------------------
(* What the invariant says of the manager's promises.                      *)
LEMMA TypesOK ==
  ASSUME IInv
  PROVE  TypeOK
BY DEF IInv, Types, TypeOK, Devices, Items, Words, Notices, Records, AllLists, AllWords, AllPackets

(* A pending command stands in its queue.                                  *)
LEMMA PendingIs ==
  ASSUME NEW q, NEW c \in Pending(q)
  PROVE  \E i \in DOMAIN gpu[q] : Is(gpu, q, i, "exec") /\ gpu[q][i] = c
BY DEF Pending, Is

(* NoReuseUnderTheGpu: what lists and queues refer to is assigned under    *)
(* its token.                                                              *)
LEMMA NothingReused ==
  ASSUME IInv
  PROVE  NoReuseUnderTheGpu
<1>1. /\ WritesFit(gpu, packets, transaction, lists, published, deferred) /\ ReadsFit(gpu, packets, thread)
      /\ ListsFit(lists, native, published, packets) /\ Types
  BY Zenon DEF IInv, Fits
<1>2. ASSUME NEW l \in Lists, NEW r \in native[l].writes
      PROVE  packets[r[1]].assigned /\ packets[r[1]].token = r[2]
  BY <1>1, <1>2 DEF ListsFit
<1>3. ASSUME NEW q \in AllQueues, NEW c \in Pending(q), NEW w \in c.writes
      PROVE  packets[w[1]].assigned /\ packets[w[1]].token = w[2]
  BY <1>1, <1>3, PendingIs DEF WritesFit
<1>4. ASSUME NEW q \in AllQueues, NEW c \in Pending(q), NEW r \in c.reads
      PROVE  packets[r[1]].assigned /\ packets[r[1]].token = r[2]
  BY <1>1, <1>4, PendingIs DEF ReadsFit
<1>5. ASSUME NEW q \in AllQueues, NEW c \in Pending(q), NEW r \in {<<w[1], w[2]>> : w \in c.writes} \cup c.reads
      PROVE  packets[r[1]].assigned /\ packets[r[1]].token = r[2]
  BY <1>3, <1>4, <1>5
<1>6. SUFFICES ASSUME NEW r \in (UNION {native[l].writes : l \in Lists})
              \cup (UNION {{<<w[1], w[2]>> : w \in c.writes} \cup c.reads : c \in UNION {Pending(q) : q \in AllQueues}})
      PROVE  packets[r[1]].assigned /\ packets[r[1]].token = r[2]
  BY Zenon DEF NoReuseUnderTheGpu
<1>7. \/ \E l \in Lists : r \in native[l].writes
      \/ \E q \in AllQueues : \E c \in Pending(q) : \/ \E w \in c.writes : r = <<w[1], w[2]>>
                                                  \/ r \in c.reads
  BY <1>6
<1> QED BY <1>2, <1>3, <1>4, <1>7

(* Two heads that are ordered are of one queue.                            *)
LEMMA OneReceiptRuns ==
  ASSUME IInv, NEW q \in AllQueues, NEW r \in AllQueues, Executing(q), Executing(r),
         Head(gpu[q]).value > 0, Head(gpu[r]).value > 0
  PROVE  q = r
<1>1. Timeline(gpu, completed, device.last_signal, transaction, device.failed) /\ Types
  BY Zenon DEF IInv, Fits
<1>2. gpu \in AllWork /\ completed \in Nat
  BY <1>1, ManagerAssumption DEF Types
<1>3. ASSUME NEW x \in AllQueues, Executing(x), Head(gpu[x]).value > 0
      PROVE  /\ 1 \in DOMAIN gpu[x] /\ Ordered(gpu, x, 1) /\ gpu[x][1].value = completed + 1
  <2>1. gpu[x] # <<>> /\ gpu[x] \in Seq(Commands) /\ Head(gpu[x]).op = "exec"
    BY <1>2, <1>3 DEF Executing, Runnable, AllWork
  <2>2. 1 \in DOMAIN gpu[x] /\ Head(gpu[x]) = gpu[x][1] /\ gpu[x][1] \in Commands
    BY <2>1
  <2>3. Ordered(gpu, x, 1)
    BY <1>3, <2>1, <2>2 DEF Ordered, Is
  <2>4. completed < gpu[x][1].value /\ Passed(gpu, completed, x, 1, gpu[x][1].value - 1)
    BY <1>1, <2>2, <2>3 DEF Timeline
  <2>5. \A j \in DOMAIN gpu[x] : ~(j < 1)
    BY <1>2, Standing
  <2>6. completed >= gpu[x][1].value - 1
    BY <2>4, <2>5 DEF Passed
  <2>7. gpu[x][1].value \in Nat
    BY <2>1, <2>2, Kinds, ManagerAssumption
  <2> QED BY <1>2, <2>2, <2>3, <2>4, <2>6, <2>7
<1>4. /\ 1 \in DOMAIN gpu[q] /\ Ordered(gpu, q, 1) /\ gpu[q][1].value = completed + 1
      /\ 1 \in DOMAIN gpu[r] /\ Ordered(gpu, r, 1) /\ gpu[r][1].value = completed + 1
  BY <1>3
<1>5. gpu[q][1].op # "fence" /\ gpu[r][1].op # "fence" /\ gpu[q][1].value = gpu[r][1].value
  BY <1>4 DEF Ordered, Is
<1> QED BY <1>1, <1>4, <1>5 DEF Timeline

(* ReceiptsAreSerial.                                                      *)
LEMMA SerialReceipts ==
  ASSUME IInv
  PROVE  ReceiptsAreSerial
<1>1. SUFFICES ASSUME NEW q \in AllQueues, NEW r \in AllQueues, q # r, Executing(q), Executing(r)
      PROVE  Head(gpu[q]).value = 0 \/ Head(gpu[r]).value = 0
  BY DEF ReceiptsAreSerial
<1>2. gpu \in AllWork
  BY DEF IInv, Types
<1>3. \A x \in AllQueues : Executing(x) => Head(gpu[x]).value \in Nat
  <2>1. SUFFICES ASSUME NEW x \in AllQueues, Executing(x) PROVE Head(gpu[x]).value \in Nat
    OBVIOUS
  <2>2. gpu[x] # <<>> /\ gpu[x] \in Seq(Commands) /\ Head(gpu[x]).op = "exec"
    BY <1>2, <2>1 DEF Executing, Runnable, AllWork
  <2>3. Head(gpu[x]) \in Commands
    BY <2>2
  <2> QED BY <2>2, <2>3, Kinds, ManagerAssumption
<1> QED BY <1>1, <1>3, OneReceiptRuns

(* OutputRaceIsKnown: the write is ordered, so the read has escaped.       *)
LEMMA OutputRaces ==
  ASSUME IInv
  PROVE  OutputRaceIsKnown
<1>1. SUFFICES ASSUME NEW q \in AllQueues, NEW r \in AllQueues, q # r, Executing(q), Executing(r),
                      Head(gpu[q]).output = "write", Head(gpu[r]).output = "read"
      PROVE  \/ device.failed \/ deferred.uncertain
             \/ \E l \in Lists : published[l].escaped /\ published[l].consumer
  BY DEF OutputRaceIsKnown
<1>2. OutputsFit(gpu, published, deferred, device.failed) /\ Types
  BY Zenon DEF IInv, Fits
<1>3. ASSUME NEW x \in AllQueues, Executing(x)
      PROVE  1 \in DOMAIN gpu[x] /\ Head(gpu[x]) = gpu[x][1] /\ Is(gpu, x, 1, "exec")
  <2>1. gpu[x] # <<>> /\ gpu[x] \in Seq(Commands) /\ Head(gpu[x]).op = "exec"
    BY <1>2, <1>3 DEF Executing, Runnable, AllWork, Types
  <2> QED BY <2>1 DEF Is
<1>4. Head(gpu[q]).value > 0
  BY <1>1, <1>2, <1>3 DEF OutputsFit
<1>5. Head(gpu[r]).value = 0
  BY <1>1, <1>4, SerialReceipts DEF ReceiptsAreSerial
<1> QED BY <1>1, <1>2, <1>3, <1>5 DEF OutputsFit

(* GpuNeverStuck: the next signal is queued, and no wait in front of it is *)
(* for more.                                                               *)
LEMMA NeverStuck ==
  ASSUME IInv
  PROVE  GpuNeverStuck
<1>1. SUFFICES ASSUME NEW q \in AllQueues, gpu[q] # <<>>, \A x \in AllQueues : ~Runnable(x) PROVE FALSE
  BY DEF GpuNeverStuck
<1> DEFINE last == device.last_signal
<1>2. Timeline(gpu, completed, last, transaction, device.failed) /\ Types
  BY Zenon DEF IInv, Fits
<1>3. gpu \in AllWork /\ completed \in Nat /\ last \in Nat
  BY <1>2, ManagerAssumption DEF Types, Devices
<1>4. ASSUME NEW x \in AllQueues, gpu[x] # <<>>
      PROVE  /\ 1 \in DOMAIN gpu[x] /\ Is(gpu, x, 1, "wait") /\ ~(completed >= gpu[x][1].value)
             /\ gpu[x][1].value \in Nat
  <2>1. gpu[x] \in Seq(Commands)
    BY <1>3 DEF AllWork
  <2>2. 1 \in DOMAIN gpu[x] /\ Head(gpu[x]) = gpu[x][1] /\ gpu[x][1] \in Commands
    BY <1>4, <2>1
  <2>3. gpu[x][1].op = "wait" /\ ~(completed >= gpu[x][1].value)
    BY <1>1, <1>4, <2>2 DEF Runnable
  <2> QED BY <2>2, <2>3, Kinds, ManagerAssumption DEF Is
<1>5. gpu[q][1].value <= last
  BY <1>1, <1>2, <1>4 DEF Timeline
<1>6. completed + 1 \in completed + 1..last
  BY <1>1, <1>3, <1>4, <1>5
<1>7. PICK r \in AllQueues : \E i \in DOMAIN gpu[r] : Is(gpu, r, i, "signal") /\ gpu[r][i].value = completed + 1
  BY <1>2, <1>6 DEF Timeline
<1>8. PICK i \in DOMAIN gpu[r] : Is(gpu, r, i, "signal") /\ gpu[r][i].value = completed + 1
  BY <1>7
<1>9. gpu[r] # <<>>
  BY <1>8
<1>10. 1 \in DOMAIN gpu[r] /\ Is(gpu, r, 1, "wait") /\ ~(completed >= gpu[r][1].value) /\ gpu[r][1].value \in Nat
  BY <1>4, <1>9
<1>11. 1 < i
  <2>1. i \in Nat /\ i >= 1
    BY <1>3, Standing
  <2>2. i # 1
    BY <1>8, <1>10 DEF Is
  <2> QED BY <2>1, <2>2
<1>12. gpu[r][1].value < gpu[r][i].value
  BY <1>2, <1>8, <1>10, <1>11 DEF Timeline
<1> QED BY <1>3, <1>8, <1>10, <1>12

(* Whatever the threads, queues, lists and packets, and with every fault:  *)
(* a packet is reused only when nothing queued or recorded refers to it,   *)
(* the GPU never waits for a signal nobody queued, it works on one receipt *)
(* at a time, and a list that escapes next to the compositor is known.     *)
THEOREM CaptureSafe == Spec => []CaptureSafety
<1>1. Init => IInv
  BY InitKeeps
<1>2. IInv /\ [Next]_vars => IInv'
  BY NextKeeps
<1>3. IInv => CaptureSafety
  BY TypesOK, NothingReused, OutputRaces, NeverStuck, SerialReceipts DEF CaptureSafety
<1> QED BY <1>1, <1>2, <1>3, PTL DEF Spec
=============================================================================
