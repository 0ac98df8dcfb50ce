---------------------------- MODULE RotatingLog ----------------------------
(***************************************************************************)
(* append_rotating_log (rotating_log.hpp): the log that threads of several *)
(* processes append records to, each under the named mutex and the handle  *)
(* that shares no writing.  A record is its number, in the order the       *)
(* appends began to write; Part is what a failed write left of one.  A     *)
(* writer may die between any two of its calls, and each may fail; another *)
(* appends after it.                                                       *)
(*                                                                         *)
(* told is history: the records whose append returned true.                *)
(***************************************************************************)
EXTENDS Integers, Sequences, FiniteSets

CONSTANTS
  Writers, Limit,      \* records that fit a file (8 or 4 MiB)
  Oversize,            \* whether an older version left a longer log
  MaxRecords, MaxFaults

(* What the constants are assumed to be; the runs evaluate it.             *)
RotatingLogAssumption == Limit \in Nat \ {0} /\ MaxRecords \in Nat /\ MaxFaults \in Nat /\ Oversize \in BOOLEAN

VARIABLES
  active, previous,    \* <path> and <path>.1
  owner,               \* of the mutex and the handle
  at, tail,            \* of the owner: its next call, the text it archives
  number, faults, told

vars == <<active, previous, owner, at, tail, number, faults, told>>

Part == 0
Nobody == "nobody"
Files  == previous \o active
Numbers(s) == {s[i] : i \in 1..Len(s)} \ {Part}
Old    == IF Oversize THEN [i \in 1..Limit + 2 |-> i - Limit - 3] ELSE <<>>
Last(s, n) == SubSeq(s, Len(s) - n + 1, Len(s))

Fault == faults < MaxFaults /\ faults' = faults + 1
Held(w, step) == owner = w /\ at = step
Released == owner' = Nobody /\ at' = "none" /\ tail' = <<>>
-----------------------------------------------------------------------------
(* The mutex is not waited for: a record that finds it taken is dropped,   *)
(* which changes nothing.  One that its owner abandoned is taken over.     *)
append_rotating_log(w) ==
  /\ owner = Nobody /\ number < MaxRecords
  /\ owner' = w /\ at' = "check" /\ number' = number + 1
  /\ UNCHANGED <<active, previous, tail, faults, told>>

check(w) ==
  /\ Held(w, "check")
  /\ at' = IF Len(active) > Limit - 1 THEN "archive" ELSE "write"
  /\ UNCHANGED <<active, previous, owner, tail, number, faults, told>>

(* rotate: the text goes to a file beside, and is moved over <path>.1.  A  *)
(* log that was too long is cut to its most recent complete records.       *)
archived(s) == IF Len(s) > Limit THEN Last(s, Limit) ELSE s

archive(w) ==
  /\ Held(w, "archive") /\ at' = "replace"
  /\ tail' = archived(active)
  /\ UNCHANGED <<active, previous, owner, number, faults, told>>

rotate_SlipCutsFirst(w) ==
  \/ /\ Held(w, "replace") /\ at' = "cut"
     /\ active' = <<>>
     /\ UNCHANGED <<previous, owner, tail, number, faults, told>>
  \/ /\ Held(w, "cut") /\ at' = "write"
     /\ previous' = tail
     /\ UNCHANGED <<active, owner, tail, number, faults, told>>

rotate(w) ==
  \/ /\ Held(w, "replace") /\ at' = "cut"
     /\ previous' = tail
     /\ UNCHANGED <<active, owner, tail, number, faults, told>>
  \/ /\ Held(w, "cut") /\ at' = "write"
     /\ active' = <<>>
     /\ UNCHANGED <<previous, owner, tail, number, faults, told>>

write(w) ==
  /\ Held(w, "write") /\ Released
  /\ active' = Append(active, number) /\ told' = told \union {number}
  /\ UNCHANGED <<previous, number, faults>>

(* A write that stopped half way is taken back, unless that fails too. *)
write_fails(w) ==
  /\ Held(w, "write") /\ Fault /\ Released
  /\ active' \in {active, Append(active, Part)}
  /\ UNCHANGED <<previous, number, told>>

(* A failure or a death before the record is written. *)
gives_up(w) ==
  /\ owner = w /\ Fault /\ Released
  /\ UNCHANGED <<active, previous, number, told>>
-----------------------------------------------------------------------------
Init ==
  /\ active = Old /\ previous = <<>> /\ owner = Nobody /\ at = "none" /\ tail = <<>>
  /\ number = 0 /\ faults = 0 /\ told = {}

Next == \E w \in Writers :
  \/ append_rotating_log(w) \/ check(w) \/ archive(w) \/ rotate(w)
  \/ write(w) \/ write_fails(w) \/ gives_up(w)

Spec == Init /\ [][Next]_vars
-----------------------------------------------------------------------------
TypeOK ==
  /\ owner \in Writers \union {Nobody} /\ at \in {"none", "check", "archive", "replace", "cut", "write"}
  /\ number \in 0..MaxRecords /\ told \subseteq 1..MaxRecords

(* Nothing of what was logged recently is lost: of the records reported as *)
(* written, the ones in the files are the latest, and the active log and   *)
(* the previous one still hold as many as one file takes.                  *)
RecentIsKept ==
  LET kept == Numbers(Files) \intersect told
  IN /\ \A r \in told \ kept, k \in kept : r < k
     /\ Cardinality(kept) + faults >= IF Cardinality(told) < Limit THEN Cardinality(told) ELSE Limit

(* Neither file grows past its limit, once an oversized log was rotated.   *)
Bounded == Len(previous) <= Limit /\ (Len(active) <= Limit \/ active = Old)

(* Records stand in the order they were written, but for the copy that a   *)
(* writer leaves which dies between archiving the log and emptying it.     *)
Ordered ==
  \A s \in {previous, active} : \A i, j \in 1..Len(s) :
    i < j /\ Part \notin {s[i], s[j]} => s[i] < s[j]

LogSafety == TypeOK /\ RecentIsKept /\ Bounded /\ Ordered
=============================================================================
