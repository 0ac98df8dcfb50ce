---------------------------- MODULE MemoryProof ----------------------------
(***************************************************************************)
(* The read-only inspection of the simulator's objects (local_memory.cpp): *)
(* every byte is read under a proof of the memory it is in, and what was   *)
(* read counts only when finish() finds every proof unchanged.  The        *)
(* simulator frees, allocates and protects memory on other threads between *)
(* any two system calls of the inspection.                                 *)
(*                                                                         *)
(* mem[p] is what is true of page p: its allocation [base, size, kind]     *)
(* (kind: the type with the initial protection), whether it is committed,  *)
(* and its protection, "none" when no ordinary read may touch it.  A field *)
(* is the pages it lies in.  finish() is one step: nothing can prove what  *)
(* changes between two of its own queries.                                 *)
(*                                                                         *)
(* got, before and aba are history: what Windows showed of a page when its *)
(* bytes were copied, what it showed since the stage began, and whether it *)
(* came back to that; final is what it showed when finish() ended.         *)
(***************************************************************************)
EXTENDS Integers, Sequences

CONSTANTS
  PageCount, Window,               \* Window: pages of an aligned 64 KiB
  RegionLimit, PageLimit, AllocationLimit,   \* kRegionLimit, kPageLimit, kAllocationLimit
  ReadLimit,                       \* of a LocalMemoryReader
  MaxChanges

(* What the constants are assumed to be; the runs evaluate it.             *)
MemoryProofAssumption ==
  {PageCount, Window, RegionLimit, PageLimit, AllocationLimit, ReadLimit} \subseteq Nat \ {0} /\ MaxChanges \in Nat

VARIABLES
  mem, changes,
  mode,                            \* "regions", "pages"; "none" outside a stage
  regions, pages, allocations,     \* the proofs
  failed, attempted,
  field,                           \* the read under way: [kind, at, last, step, copy]
  verdict, got, before, aba, final

proofs  == <<regions, pages, allocations>>
history == <<got, before, aba, final>>
vars    == <<mem, changes, mode, proofs, failed, attempted, field, verdict, history>>

Pages  == 1..PageCount
Free   == [base |-> 0, size |-> 0, kind |-> "free"]
Kinds  == {"private", "image"}
Nothing == [p \in Pages |-> [is |-> "none"]]
NoField == [kind |-> "none", at |-> 0, last |-> 0, step |-> "idle", copy |-> 0]
readable(protection) == protection # "none"
Elements(s) == {s[i] : i \in 1..Len(s)}
-----------------------------------------------------------------------------
(* VirtualQueryEx: the run of like pages that begins at the queried one.   *)
Run(p) == CHOOSE n \in 1..PageCount - p + 1 :
  /\ \A q \in p..p + n - 1 : mem[q] = mem[p]
  /\ p + n <= PageCount => mem[p + n] # mem[p]

query_memory_uncached(p) ==
  [base |-> p, size |-> Run(p), owner |-> mem[p].alloc.base, kind |-> mem[p].alloc.kind,
   committed |-> mem[p].committed, protection |-> mem[p].protection]

(* What a query shows of a page. *)
Shows(m, p) == [owner |-> m[p].alloc.base, kind |-> m[p].alloc.kind, committed |-> m[p].committed, protection |-> m[p].protection]

region_contains(r, p) == r.base <= p /\ p < r.base + r.size

Readable(r, kind) == r.committed /\ r.kind = kind /\ readable(r.protection)

(* A private stage: opened for one inspection, closed by finish() or by    *)
(* the destructor, which discards every proof.                             *)
opens(m) ==
  /\ mode = "none" /\ mode' = m
  /\ regions' = <<>> /\ pages' = <<>> /\ allocations' = <<>>
  /\ failed' = FALSE /\ attempted' = 0 /\ field' = NoField /\ verdict' = "open"
  /\ got' = Nothing /\ final' = Nothing
  /\ before' = [p \in Pages |-> {}] /\ aba' = [p \in Pages |-> FALSE]
  /\ UNCHANGED <<mem, changes>>

(* LocalMemoryReader::read and LocalImageReader::read: an attempt costs    *)
(* its size whatever becomes of it; outside the allowance there is none.   *)
reads(kind, p, n) ==
  /\ mode # "none" /\ field.step = "idle" /\ p + n - 1 <= PageCount
  /\ kind = "private" => n <= ReadLimit - attempted
  /\ attempted' = IF kind = "private" THEN attempted + n ELSE attempted
  /\ field' = IF failed THEN NoField ELSE [kind |-> kind, at |-> p, last |-> p + n - 1, step |-> "look", copy |-> p]
  /\ UNCHANGED <<mem, changes, mode, proofs, failed, verdict, history>>

(* A private field of a page stage is proved as a whole, then copied as a  *)
(* whole; any other goes piece by piece.                                   *)
Proved(end) ==
  field' = IF mode = "pages" /\ field.kind = "private" /\ end < field.last
           THEN [field EXCEPT !.at = end + 1, !.step = "look"]
           ELSE [field EXCEPT !.at = end, !.step = "copy"]
To(step) == field' = [field EXCEPT !.step = step]
Refused  == failed' = TRUE /\ field' = NoField
At(step) == field.step = step
Lesser(a, b) == IF a < b THEN a ELSE b

(* How far the piece goes that a region proves. *)
Piece(r) == IF mode = "pages" THEN field.at ELSE Lesser(field.last, r.base + r.size - 1)

(* validate_page_range and ScopedLocalMemoryQueryCache::query: a page that *)
(* has a proof needs no other, whatever happened since.                    *)
Allocation(p) == {i \in 1..Len(allocations) : LET a == allocations[i] IN a.base <= p /\ p < a.base + a.size}
Known(p)      == {i \in 1..Len(pages) : pages[i].base = p}
Regions(p)    == {i \in 1..Len(regions) : region_contains(regions[i], p)}
ByPage        == mode = "pages" /\ Regions(field.at) = {} /\ Len(pages) < PageLimit

look ==
  /\ At("look")
  /\ IF \E i \in Known(field.at) : TRUE
     THEN IF \E i \in Known(field.at) : allocations[pages[i].allocation].kind = field.kind
          THEN Proved(field.at) /\ UNCHANGED failed ELSE Refused
     ELSE IF ByPage /\ \E i \in Allocation(field.at) : allocations[i].kind # field.kind THEN Refused
     ELSE /\ To(IF ~ByPage THEN "region" ELSE IF Allocation(field.at) # {} THEN "page" ELSE "allocation")
          /\ UNCHANGED failed
  /\ UNCHANGED <<mem, changes, mode, proofs, attempted, verdict, history>>

(* query_allocation, which may be missing on this Windows. *)
allocation ==
  /\ At("allocation")
  /\ \/ /\ Len(allocations) < AllocationLimit /\ mem[field.at].alloc.kind = field.kind
        /\ allocations' = Append(allocations, mem[field.at].alloc) /\ To("page")
     \/ UNCHANGED allocations /\ To("region")
  /\ UNCHANGED <<mem, changes, mode, regions, pages, failed, attempted, verdict, history>>

(* query_pages: a page that is not resident, or not committed, is left to  *)
(* the region query.                                                       *)
page ==
  /\ At("page")
  /\ LET now == mem[field.at]
     IN \/ /\ now.committed /\ readable(now.protection)
           /\ pages' = Append(pages, [base |-> field.at, protection |-> now.protection,
                                      allocation |-> CHOOSE i \in Allocation(field.at) : \A j \in Allocation(field.at) : i <= j])
           /\ Proved(field.at) /\ UNCHANGED failed
        \/ /\ now.committed /\ ~readable(now.protection) /\ Refused /\ UNCHANGED pages
        \/ /\ To("region") /\ UNCHANGED <<pages, failed>>
  /\ UNCHANGED <<mem, changes, mode, regions, allocations, attempted, verdict, history>>

(* A saved region answers; else the aligned window before the page is      *)
(* asked, and the page itself when the window's run ends before it.  Memory*)
(* that is not readable or of another kind ends this read only, but for a  *)
(* page stage, which it fails.                                             *)
Unread == field' = NoField /\ failed' = (failed \/ mode = "pages")
Use(r) == IF Readable(r, field.kind) THEN Proved(Piece(r)) /\ UNCHANGED failed ELSE Unread
WindowStart(p) == p - ((p - 1) % Window)

query ==
  /\ At("region")
  /\ IF Regions(field.at) # {}
     THEN Use(regions[CHOOSE i \in Regions(field.at) : \A j \in Regions(field.at) : i <= j]) /\ UNCHANGED regions
     ELSE IF Len(regions) = RegionLimit THEN Refused /\ UNCHANGED regions
     ELSE LET r == query_memory_uncached(WindowStart(field.at))
          IN IF region_contains(r, field.at)
             THEN regions' = Append(regions, r) /\ Use(r)
             ELSE To("exact") /\ UNCHANGED <<regions, failed>>
  /\ UNCHANGED <<mem, changes, mode, pages, allocations, attempted, verdict, history>>

query_exact ==
  /\ At("exact")
  /\ LET r == query_memory_uncached(field.at) IN regions' = Append(regions, r) /\ Use(r)
  /\ UNCHANGED <<mem, changes, mode, pages, allocations, attempted, verdict, history>>

(* read_memory: ReadProcessMemory checks the access of every byte itself.  *)
read_memory ==
  /\ At("copy")
  /\ IF \A p \in field.copy..field.at : mem[p].committed /\ readable(mem[p].protection)
     THEN /\ got' = [p \in Pages |-> IF p \in field.copy..field.at
                                     THEN [is |-> field.kind, was |-> Shows(mem, p)] ELSE got[p]]
          /\ field' = IF field.at = field.last THEN NoField
                      ELSE [field EXCEPT !.at = @ + 1, !.copy = field.at + 1, !.step = "look"]
          /\ UNCHANGED failed
     ELSE Refused /\ UNCHANGED got
  /\ UNCHANGED <<mem, changes, mode, proofs, attempted, verdict, before, aba, final>>
-----------------------------------------------------------------------------
(* finish_pages.  A page that is resident shows its protection only; one   *)
(* that was paged out is asked for its region.                             *)
finish_pages_SlipPagesOnly(resident) ==
  \A i \in 1..Len(pages) :
    LET p == pages[i].base
    IN IF p \in resident THEN mem[p].protection = pages[i].protection
       ELSE /\ mem[p].committed /\ mem[p].alloc.kind = allocations[pages[i].allocation].kind
            /\ mem[p].protection = pages[i].protection

finish_pages(resident) ==
  /\ \A a \in Elements(allocations) : mem[a.base].alloc = a
  /\ \A i \in 1..Len(pages) :
       LET p == pages[i].base  a == allocations[pages[i].allocation]
       IN /\ mem[p].protection = pages[i].protection
          /\ p \in resident \/ (mem[p].committed /\ mem[p].alloc.kind = a.kind /\ mem[p].alloc.base = a.base)

(* Regions from the lowest up: one fresh query answers for every saved     *)
(* region that begins inside it.                                           *)
Fresh(r) ==
  LET first == CHOOSE p \in Pages :
        /\ \E s \in Elements(regions) : s.base = p
        /\ region_contains(query_memory_uncached(p), r.base)
        /\ \A s \in Elements(regions) : region_contains(query_memory_uncached(s.base), r.base) => p <= s.base
  IN [query_memory_uncached(first) EXCEPT !.base = r.base, !.size = @ - (r.base - first)]

finish_regions_SlipAccessOnly == \A r \in Elements(regions) : Readable(Fresh(r), r.kind)
finish_regions == \A r \in Elements(regions) : Fresh(r) = r

finish ==
  /\ mode # "none" /\ field.step = "idle" /\ mode' = "none"
  /\ \E resident \in SUBSET {p \in Pages : mem[p].committed} :
       verdict' = IF ~failed /\ finish_pages(resident) /\ finish_regions THEN "accepted" ELSE "refused"
  /\ final' = [p \in Pages |-> Shows(mem, p)]
  /\ regions' = <<>> /\ pages' = <<>> /\ allocations' = <<>> /\ failed' = FALSE /\ attempted' = 0
  /\ UNCHANGED <<mem, changes, field, got, before, aba>>
-----------------------------------------------------------------------------
(* writable_private_span, before a flag word is written: fresh queries and *)
(* no stage.  The allocation with its resident pages, or region by region. *)
writable_pages_SlipRegionOwner(p, q) ==
  {mem[p].alloc.kind, mem[q].alloc.kind} = {"private"}
  /\ \A i \in {p, q} : mem[i].committed /\ mem[i].protection = "rw"
writable_pages(p, q) ==
  /\ mem[p].alloc.kind = "private" /\ q < mem[p].alloc.base + mem[p].alloc.size
  /\ \A i \in {p, q} : mem[i].committed /\ mem[i].protection = "rw"

writable_regions(p, q) ==
  \A i \in {p, q} : LET r == query_memory_uncached(i)
                    IN Readable(r, "private") /\ r.protection = "rw" /\ r.owner = mem[p].alloc.base
-----------------------------------------------------------------------------
(* The simulator's other threads.  The allocator never has two allocations *)
(* on a page.                                                              *)
Becomes(f) ==
  /\ changes < MaxChanges /\ changes' = changes + 1
  /\ mem' = [p \in Pages |-> IF p \in DOMAIN f THEN f[p] ELSE mem[p]]
  /\ before' = [p \in Pages |-> IF Shows(mem', p) = Shows(mem, p) THEN before[p] ELSE before[p] \union {Shows(mem, p)}]
  /\ aba' = [p \in Pages |-> aba[p] \/ (Shows(mem', p) # Shows(mem, p) /\ Shows(mem', p) \in before[p])]
  /\ UNCHANGED <<mode, proofs, failed, attempted, field, verdict, got, final>>

Span(a) == a.base..a.base + a.size - 1
Blank == [alloc |-> Free, committed |-> FALSE, protection |-> "none"]

frees(p) == mem[p].alloc.base = p /\ Becomes([q \in Span(mem[p].alloc) |-> Blank])

allocates(a) ==
  /\ \A q \in Span(a) : mem[q].alloc = Free
  /\ Becomes([q \in Span(a) |-> [alloc |-> a, committed |-> TRUE, protection |-> "rw"]])

protects(p, protection) ==
  mem[p].committed /\ mem[p].protection # protection /\ Becomes([q \in {p} |-> [mem[p] EXCEPT !.protection = protection]])

decommits(p) ==
  mem[p].committed /\ Becomes([q \in {p} |-> [mem[p] EXCEPT !.committed = FALSE, !.protection = "none"]])
-----------------------------------------------------------------------------
Allocated == {[base |-> b, size |-> n, kind |-> k] : b \in Pages, n \in 1..PageCount, k \in Kinds}
Fits == {a \in Allocated : a.base + a.size - 1 <= PageCount}

(* One private allocation and the main image behind it. *)
Init ==
  /\ \E n \in 1..PageCount - 1 : \E guarded \in {{}, {n}} :
       mem = [p \in Pages |->
         [alloc |-> IF p <= n THEN [base |-> 1, size |-> n, kind |-> "private"]
                    ELSE [base |-> n + 1, size |-> PageCount - n, kind |-> "image"],
          committed |-> TRUE, protection |-> IF p \in guarded THEN "none" ELSE IF p <= n THEN "rw" ELSE "ro"]]
  /\ changes = 0 /\ mode = "none" /\ regions = <<>> /\ pages = <<>> /\ allocations = <<>>
  /\ failed = FALSE /\ attempted = 0 /\ field = NoField /\ verdict = "none"
  /\ got = Nothing /\ final = Nothing /\ before = [p \in Pages |-> {}] /\ aba = [p \in Pages |-> FALSE]

Next ==
  \/ \E m \in {"regions", "pages"} : opens(m)
  \/ \E k \in Kinds, p \in Pages, n \in 1..2 : reads(k, p, n)
  \/ look \/ allocation \/ page \/ query \/ query_exact \/ read_memory \/ finish
  \/ \E p \in Pages : frees(p) \/ decommits(p) \/ \E x \in {"rw", "ro", "none"} : protects(p, x)
  \/ \E a \in Fits : allocates(a)

Spec == Init /\ [][Next]_vars
-----------------------------------------------------------------------------
TypeOK ==
  /\ Len(regions) <= RegionLimit /\ Len(pages) <= PageLimit /\ Len(allocations) <= AllocationLimit
  /\ attempted <= ReadLimit /\ failed \in BOOLEAN /\ mode \in {"none", "regions", "pages"}
  /\ \A p \in Pages : mem[p].alloc = Free \/ (mem[p].alloc \in Fits /\ p \in Span(mem[p].alloc))

(* What an accepted inspection read is memory of the kind it asked for     *)
(* that is still what it was when it was read, but for a page that left    *)
(* and came back to what it had been: through cached, shared, overlapping  *)
(* and overflowing proofs of either form.                                  *)
AcceptedIsUnchanged ==
  verdict = "accepted" =>
    \A p \in Pages : got[p].is # "none" /\ ~aba[p] => got[p].was = final[p] /\ got[p].was.kind = got[p].is

(* A flag word is written only where both its pages are committed, private *)
(* and writable, in one allocation.                                        *)
WritableIsTrue ==
  \A p \in Pages : \A q \in {p, p + 1} \intersect Pages :
    writable_pages(p, q) \/ writable_regions(p, q) =>
      /\ mem[p].alloc = mem[q].alloc /\ mem[p].alloc.kind = "private"
      /\ \A i \in {p, q} : mem[i].committed /\ mem[i].protection = "rw"

MemorySafety == TypeOK /\ AcceptedIsUnchanged /\ WritableIsTrue
=============================================================================
