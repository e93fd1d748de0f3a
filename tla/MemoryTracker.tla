----------------------------- MODULE MemoryTracker -----------------------------
(***************************************************************************)
(* memory_tracker.rs, driven by the MLOAD and MSTORE instructions of one   *)
(* frame as the recorders drive it: only for instructions inside functions *)
(* of the AST, so not in the routines solc generates.  Addresses count     *)
(* words of 32 bytes.                                                      *)
(*                                                                         *)
(* The program is the environment (external): a function whose locals live *)
(* in memory.  To allocate, it loads the free memory pointer and stores    *)
(* the pointer raised by the size; the loaded value is the object.         *)
(* The names are not those of TrackedFunction, the same function on the    *)
(* stack, so that a module can extend both.                                *)
(***************************************************************************)
EXTENDS Naturals, Sequences

CONSTANTS
    Unset,      \* Option::None
    Vars,       \* the memory locals of the function, in order: a sequence
    Sizes,      \* sizes of the objects it allocates
    Patterns,   \* what the function does beyond one object per declaration:
                \* of {"temporary", "again"}
    MaxFmp      \* bound on the memory

INITIAL_FREE_MEMORY_POINTER == 4

MemoryNames == {Vars[k] : k \in 1..Len(Vars)}

ASSUME MemoryAssumption ==
    /\ Vars \in Seq(MemoryNames) /\ Unset \notin MemoryNames
    /\ Sizes \subseteq Nat \ {0}
    /\ Patterns \subseteq {"temporary", "again"}
    /\ MaxFmp \in Nat /\ MaxFmp >= INITIAL_FREE_MEMORY_POINTER

VARIABLES
    fmp,        \* memory[0x40]
    loaded,     \* the pointer of the allocation going on, or Unset
    declaring,  \* the variable whose declaration is executed, or Unset
    declared,   \* how many variables have been declared
    object,     \* the object each variable points to, or Unset
    last_fmp,   \* the tracker's cached pointer ...
    regions     \* ... and its regions, oldest first

env_vars == <<fmp, loaded, declaring, declared, object>>
memory_vars == <<env_vars, last_fmp, regions>>

-----------------------------------------------------------------------------
(* The tracker. *)

InScope == [k \in 1..declared |-> Vars[k]]
IsRegistered(v) == \E k \in 1..Len(regions) : regions[k].name = v

\* The variable whose declaration or statement is executed; else the one
\* declared last that has no region.
Unregistered == {k \in 1..declared : ~IsRegistered(InScope[k])}
Candidate ==
    IF declaring # Unset THEN declaring
    ELSE IF Unregistered = {} THEN Unset
    ELSE InScope[CHOOSE k \in Unregistered : \A j \in Unregistered : j <= k]

\* Mutant of HandleFmpBump: the new pointer is the base.
HandleFmpBumpNew(prev, new) ==
    IF new > prev /\ Candidate # Unset /\ ~IsRegistered(Candidate)
    THEN Append(regions, [name |-> Candidate, base |-> new, size |-> new - prev])
    ELSE regions

\* A bump of the free memory pointer gives the candidate its region.
HandleFmpBump(prev, new) ==
    IF new > prev /\ Candidate # Unset /\ ~IsRegistered(Candidate)
    THEN Append(regions, [name |-> Candidate, base |-> prev, size |-> new - prev])
    ELSE regions

\* Mutant of Observe: the cached pointer is never refreshed.
ObserveNever == last_fmp

\* Every tracked instruction first reads memory[0x40], as it is before it.
Observe == fmp

\* The value the bump of the pointer compares with: the pointer before the
\* previous tracked instruction.
PrevFmp == last_fmp

\* region: the most recently registered one of a variable, 0 if it has none.
RegionOf(v) ==
    IF IsRegistered(v)
    THEN CHOOSE k \in 1..Len(regions) :
            regions[k].name = v /\ \A j \in k + 1 .. Len(regions) : regions[j].name # v
    ELSE 0

-----------------------------------------------------------------------------
(* The program. *)

\* The declaration of the next variable.  The locals of a function without an
\* initialiser may point to the zero word, word 3, until they are assigned.
DeclareInMemory ==
    /\ declaring = Unset /\ loaded = Unset /\ declared < Len(Vars)
    /\ declared' = declared + 1
    /\ \/ declaring' = Vars[declared + 1] /\ object' = object
       \/ /\ "temporary" \in Patterns
          /\ declaring' = Unset
          /\ object' = [object EXCEPT ![Vars[declared + 1]] = 3]
    /\ UNCHANGED <<fmp, loaded, last_fmp, regions>>

\* MLOAD 0x40, at the start of an allocation.
Load ==
    /\ loaded = Unset
    /\ declaring # Unset \/ "temporary" \in Patterns
    /\ loaded' = fmp
    /\ last_fmp' = Observe
    /\ UNCHANGED <<fmp, declaring, declared, object, regions>>

\* MLOAD and MSTORE anywhere else, between and inside allocations.
Access ==
    /\ last_fmp # fmp
    /\ last_fmp' = Observe
    /\ UNCHANGED <<env_vars, regions>>

\* MSTORE 0x40: the end of the allocation, and of the declaration it is for.
Bump ==
    \E size \in Sizes :
        /\ loaded # Unset /\ loaded + size <= MaxFmp
        /\ fmp' = loaded + size
        /\ last_fmp' = Observe
        /\ regions' = HandleFmpBump(PrevFmp, loaded + size)
        /\ object' = IF declaring # Unset THEN [object EXCEPT ![declaring] = loaded] ELSE object
        /\ loaded' = Unset
        /\ declaring' = Unset
        /\ UNCHANGED declared

\* An allocation by a generated routine, between two statements or for the
\* declaration: the tracker does not see it.
Generated ==
    \E size \in Sizes :
        /\ loaded = Unset /\ fmp + size <= MaxFmp
        /\ fmp' = fmp + size
        /\ object' = IF declaring # Unset THEN [object EXCEPT ![declaring] = fmp] ELSE object
        /\ declaring' = Unset
        /\ UNCHANGED <<loaded, declared, last_fmp, regions>>

\* The function is called again, or its loop goes around.  The recorders never
\* call reset.
Again ==
    /\ "again" \in Patterns
    /\ declaring = Unset /\ loaded = Unset /\ declared > 0
    /\ declared' = 0
    /\ object' = [v \in MemoryNames |-> Unset]
    /\ UNCHANGED <<fmp, loaded, declaring, last_fmp, regions>>

-----------------------------------------------------------------------------
\* The first instruction of a function, after solc's prologue.
MemoryInit ==
    /\ fmp = INITIAL_FREE_MEMORY_POINTER
    /\ loaded = Unset
    /\ declaring = Unset
    /\ declared = 0
    /\ object = [v \in MemoryNames |-> Unset]
    /\ last_fmp = INITIAL_FREE_MEMORY_POINTER
    /\ regions = <<>>

MemoryNext == DeclareInMemory \/ Load \/ Access \/ Bump \/ Generated \/ Again

MemorySpec == MemoryInit /\ [][MemoryNext]_memory_vars

-----------------------------------------------------------------------------
(* Properties *)

\* Types of the state: every region belongs to a variable and is not empty, and
\* the cached pointer is never ahead of memory[0x40].
MemoryTypeOK ==
    /\ fmp \in INITIAL_FREE_MEMORY_POINTER..MaxFmp
    /\ last_fmp \in INITIAL_FREE_MEMORY_POINTER..fmp
    /\ loaded \in {Unset, fmp}
    /\ declaring \in MemoryNames \cup {Unset}
    /\ declared \in 0..Len(Vars)
    /\ object \in [MemoryNames -> {Unset} \cup 3..MaxFmp]
    /\ regions \in Seq([name : MemoryNames, base : Nat, size : Nat \ {0}])

\* No two regions share a word and all are allocated memory, although the base
\* of a region comes from a cached pointer: so a write is reported for at most
\* one variable, whichever region is looked at first.
RegionsDisjoint ==
    /\ \A k \in 1..Len(regions) : regions[k].base + regions[k].size <= fmp
    /\ \A j, k \in 1..Len(regions) :
          j < k => regions[j].base + regions[j].size <= regions[k].base

\* The region a declaration gives to its variable is the object the variable
\* then points to: the cached pointer is the one its allocation loaded, whatever
\* other routines allocated since the tracker last saw the memory.  (The regions
\* of a function that runs again, and those the fallback gives away, are not.)
RegionIsObject ==
    [][\A v \in MemoryNames :
          (declaring = v /\ ~IsRegistered(v) /\ IsRegistered(v)')
              => regions'[RegionOf(v)'].base = object'[v]]_memory_vars

=============================================================================
