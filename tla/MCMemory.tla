------------------------------ MODULE MCMemory ------------------------------
(***************************************************************************)
(* For TLC: what the bridge reads and holds of others: the manager's       *)
(* packets, and memory of the simulator, one at a time.                    *)
(***************************************************************************)
EXTENDS FrameService, TLC

CONSTANTS PageCount, Window, RegionLimit, PageLimit, AllocationLimit, ReadLimit, MaxRemaps   \* of MemoryProof

ASSUME FrameServiceAssumption

VARIABLES
  component,      \* the component this behaviour is of
  mem, mem_changes, mode, regions, pages, allocations, failed, attempted, field,
  verdict, got, before, aba, final

(* The components. They share no state here: each stays as it starts while *)
(* the behaviour is of another.                                            *)
Memory == INSTANCE MemoryProof WITH MaxChanges <- MaxRemaps, changes <- mem_changes

ASSUME AddedAssumption == Memory!MemoryProofAssumption
-----------------------------------------------------------------------------
memoryVars == <<mem, mem_changes, mode, regions, pages, allocations, failed, attempted,
                field, verdict, got, before, aba, final>>
allVars == <<component, vars, memoryVars>>

Components == {"frames", "memory"}

InitOne ==
  /\ component \in Components
  /\ Init
  /\ Memory!Init
  /\ component # "memory" =>
       \A p \in Memory!Pages : mem[p].protection \in {"ro", "rw"} /\ (mem[p].protection = "rw" <=> p = 1)
  /\ component = "memory" => mem[2].alloc.kind = "private"

(* A step is one of the component the behaviour is of.                     *)
OfFrames == component = "frames" /\ UNCHANGED <<component, memoryVars>> /\ Next
OfMemory == component = "memory" /\ UNCHANGED <<component, vars>> /\ Memory!Next

(* The frames end when the captures and changes of the model are used up.  *)
Rests == component = "frames" /\ UNCHANGED allVars

NextOne == OfFrames \/ OfMemory \/ Rests

SpecOne == InitOne /\ [][NextOne]_allVars
-----------------------------------------------------------------------------
(* See MemoryProof: what an accepted stage read was mapped, and still is;  *)
(* what is declared writable is one private allocation.                    *)
MemorySafety == Memory!MemorySafety

(* Packets are only ever compared for equality.  Two are exchanged here;   *)
(* every permutation would cost the other component more than it saves.    *)
Symmetry == Permutations(Packets \ {CHOOSE p \in Packets : TRUE})
=============================================================================
