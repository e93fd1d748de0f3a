--------------------------- MODULE StorageVariables ---------------------------
(***************************************************************************)
(* How one frame of a recording names the slots an SSTORE writes, and what *)
(* it carries forward under each name: the lookups of storage_layout.rs    *)
(* and the KECCAK256 and SSTORE parts of the loops of recorder.rs.         *)
(*                                                                         *)
(* A slot is a sequence: <<n>> is slot number n, Append(s, key) is         *)
(* keccak256(key . s), and Append(s, -i) is the i-th slot in which the     *)
(* value kept at s goes on elsewhere: the data of dynamic arrays and long  *)
(* strings, the later slots of structs, arrays and strings that are the    *)
(* values of mappings.  All that matters of them is that they are distinct.*)
(*                                                                         *)
(* An entry of the layout is a record: label, slot, encoding, size in      *)
(* slots, members (of a struct: their slots from its first one), elem (of  *)
(* an array: slots of an element; 0 if it is none), keys (of a mapping:    *)
(* the types of its keys, the outermost first; "bytes" for those whose     *)
(* length is not that of a word), wide (its values go on elsewhere), inner *)
(* (last items of the slots at which it keeps further mappings: plain slot *)
(* numbers in a compound, negative in a wide value).                       *)
(***************************************************************************)
EXTENDS Integers, Sequences, FiniteSets

CONSTANTS
    Layout,      \* the storage layout: a sequence of entries
    Keys,        \* keys of mappings, as numbers
    Addresses,   \* how many addresses there are: 2^160 in the EVM
    Vals,        \* stored values, 0 among them
    Offsets,     \* positions in what a value keeps elsewhere
    MaxHashes,   \* bound on the slots the transaction computes
    MaxWritten   \* bound on the slots it writes

ASSUME StorageAssumption ==
    /\ Keys \subseteq Nat /\ Addresses \in Nat \ {0}
    /\ Vals \subseteq Nat /\ 0 \in Vals
    /\ Offsets \subseteq Nat \ {0}
    /\ MaxHashes \in Nat /\ MaxWritten \in Nat

VARIABLES
    world,       \* what the transaction has stored, by slot
    hashed,      \* the slots of mapping elements it has computed
    names,       \* mapping_slot_names: the names of computed slots
    slot_values, \* by slot number, the values written
    shown        \* storage_state: what is carried forward, by name

vars == <<world, hashed, names, slot_values, shown>>

Entries == 1..Len(Layout)
Earliest(S) == CHOOSE k \in S : \A j \in S : k <= j

\* f with the value v at x.
With(f, x, v) == [y \in DOMAIN f \cup {x} |-> IF y = x THEN v ELSE f[y]]
Empty == [x \in {} |-> 0]

IsPlain(s) == Len(s) = 1

-----------------------------------------------------------------------------
(* The names.  `at' counts members, elements or keys. *)

Name(label, part, at) == [var |-> label, part |-> part, at |-> at]

\* resolve_slot: whatever starts in the slot; packed values have one name.
Resolved(s) == {k \in Entries : s = <<Layout[k].slot>>}

\* Mutant of HasMember: member slots taken for slots of the contract.
HasMemberAbsolute(k, m, s) ==
    /\ Layout[k].encoding = "inplace" /\ m <= Len(Layout[k].members)
    /\ s = <<Layout[k].members[m]>>

\* struct_member_at: the first member that starts in the slot.
HasMember(k, m, s) ==
    /\ Layout[k].encoding = "inplace" /\ m <= Len(Layout[k].members)
    /\ s = <<Layout[k].slot + Layout[k].members[m]>>
StructWith(s) == {k \in Entries : \E m \in 1..Len(Layout[k].members) : HasMember(k, m, s)}

Range(k) == {<<n>> : n \in Layout[k].slot .. Layout[k].slot + Layout[k].size - 1}

\* array_element_at: the position is that of the slot.
ArrayWith(s) ==
    {k \in Entries : Layout[k].encoding = "inplace" /\ Layout[k].elem > 0 /\ s \in Range(k)}

MappingAtBase(s) == {k \in Resolved(s) : Layout[k].encoding = "mapping"}

\* format_mapping_key: an address is the low part of the key.
FormatKey(type, key) == IF type = "address" THEN key % Addresses ELSE key

\* The name of a slot: the first lookup that finds one.
VarName(s) ==
    IF Resolved(s) # {} THEN Name(Layout[Earliest(Resolved(s))].label, "whole", <<>>)
    ELSE IF s \in DOMAIN names THEN names[s]
    ELSE IF StructWith(s) # {}
    THEN LET k == Earliest(StructWith(s)) IN
         Name(Layout[k].label, "member",
              <<Earliest({m \in 1..Len(Layout[k].members) : HasMember(k, m, s)})>>)
    ELSE IF ArrayWith(s) # {}
    THEN LET k == Earliest(ArrayWith(s)) IN
         Name(Layout[k].label, "element", <<s[1] - Layout[k].slot>>)
    ELSE Name("storage", "raw", s)

-----------------------------------------------------------------------------
(* KECCAK256 and SSTORE. *)

\* Mutant of NamesAfterHash: the keys of inner mappings are not added.
NamesAfterHashOuter(base, key) ==
    IF MappingAtBase(base) # {}
    THEN LET e == Layout[Earliest(MappingAtBase(base))] IN
         With(names, Append(base, key), Name(e.label, "key", <<FormatKey(e.keys[1], key)>>))
    ELSE IF base \in DOMAIN names
    THEN With(names, Append(base, key), names[base])
    ELSE names

\* A hash of a key and the slot of a mapping, or of a key and a slot that was
\* computed so itself: the keys of inner mappings are taken for addresses.
NamesAfterHash(base, key) ==
    IF MappingAtBase(base) # {}
    THEN LET e == Layout[Earliest(MappingAtBase(base))] IN
         With(names, Append(base, key), Name(e.label, "key", <<FormatKey(e.keys[1], key)>>))
    ELSE IF base \in DOMAIN names
    THEN With(names, Append(base, key),
              [names[base] EXCEPT !.at = Append(@, FormatKey("address", key))])
    ELSE names

\* containing_compound: an array or struct of more than one slot.
CompoundWith(s) ==
    {k \in Entries :
        /\ Layout[k].encoding = "inplace" /\ Layout[k].size > 1
        /\ Layout[k].members # <<>> \/ Layout[k].elem > 0
        /\ s \in Range(k)}

\* Mutant of CompoundValue: the slots are not moved to where the variable is.
CompoundValueNoBase(e, values) ==
    LET At(n) == IF n \in DOMAIN values THEN values[n] ELSE 0 IN
    IF e.members # <<>> THEN [m \in 1..Len(e.members) |-> At(e.members[m])]
    ELSE [n \in 1..e.size |-> At(n - 1)]

\* build_compound_value: one value per member of a struct, one per slot of an
\* array, 0 for a slot this frame has not written.
CompoundValue(e, values) ==
    LET At(n) == IF n \in DOMAIN values THEN values[n] ELSE 0 IN
    IF e.members # <<>> THEN [m \in 1..Len(e.members) |-> At(e.slot + e.members[m])]
    ELSE [n \in 1..e.size |-> At(e.slot + n - 1)]

-----------------------------------------------------------------------------
(* The transaction. *)

Mappings == {k \in Entries : Layout[k].encoding = "mapping"}
Plain == UNION {Range(k) : k \in Entries}

\* The variable a slot is part of, and the elements of mapping k: slots computed
\* from its own with keys alone.
Owns(k, s) == s[1] \in Layout[k].slot .. Layout[k].slot + Layout[k].size - 1
IsElement(k, s) ==
    /\ s[1] = Layout[k].slot /\ Len(s) \in 2 .. Len(Layout[k].keys) + 1
    /\ \A i \in 2..Len(s) : s[i] \in Keys

\* Where a mapping is kept: nothing is written there, but hashed with a key.
HoldsMapping(s) ==
    \/ \E k \in Mappings :
          /\ s = <<Layout[k].slot>> \/ IsElement(k, s)
          /\ Len(s) <= Len(Layout[k].keys)
    \/ /\ IsPlain(s) \/ s[Len(s)] < 0
       /\ \E k \in Entries : Owns(k, s) /\ s[Len(s)] \in Layout[k].inner

IsWide(s) ==
    \E k \in Entries :
        Owns(k, s) /\ Layout[k].wide /\ (k \in Mappings => ~IsPlain(s))
Places ==
    LET slots == Plain \cup hashed IN
    slots \cup {Append(s, -i) : s \in {t \in slots : IsWide(t)}, i \in Offsets}

\* The hash of a word and a slot is one of 64 bytes; that of a string is not.
HashesWord(s) ==
    \A k \in Mappings :
        s = <<Layout[k].slot>> \/ IsElement(k, s)
        => Layout[k].keys[Len(s)] # "bytes"

-----------------------------------------------------------------------------
(* KECCAK256 and SSTORE, as the program executes them. *)

Hash ==
    \E base \in {s \in Places : HoldsMapping(s)}, key \in Keys :
        /\ Cardinality(hashed) < MaxHashes
        /\ hashed' = hashed \cup {Append(base, key)}
        /\ names' = IF HashesWord(base) THEN NamesAfterHash(base, key) ELSE names
        /\ UNCHANGED <<world, slot_values, shown>>

Store ==
    \E s \in {t \in Places : ~HoldsMapping(t)}, v \in Vals :
        LET named == With(shown, VarName(s), v) IN
        /\ Cardinality(DOMAIN world \cup {s}) <= MaxWritten
        /\ world' = With(world, s, v)
        /\ slot_values' = IF IsPlain(s) THEN With(slot_values, s[1], v) ELSE slot_values
        /\ shown' = IF CompoundWith(s) = {} THEN named
                    ELSE LET e == Layout[Earliest(CompoundWith(s))] IN
                         With(named, Name(e.label, "whole", <<>>),
                              CompoundValue(e, slot_values'))
        /\ UNCHANGED <<hashed, names>>

-----------------------------------------------------------------------------
\* The first entry of a frame.
Init ==
    /\ world = Empty
    /\ hashed = {}
    /\ names = Empty
    /\ slot_values = Empty
    /\ shown = Empty

Next == Hash \/ Store

Spec == Init /\ [][Next]_vars

-----------------------------------------------------------------------------
(* What a compiler promises of a layout. *)

IsScalar(e) == e.size = 1 /\ e.members = <<>> /\ e.elem = 0

\* Variables have different names, and share a slot only when they are packed
\* into one.  The members of a struct need not start in each of its slots.
WellFormedLayout ==
    /\ Len(Layout) \in Nat
    /\ \A k \in Entries :
          LET e == Layout[k] IN
          /\ e.slot \in Nat /\ e.size \in Nat \ {0}
          /\ e.members \in Seq(Nat) /\ e.elem \in Nat
          /\ e.keys \in Seq({"address", "uint", "bytes"})
          /\ e.encoding = "mapping" <=> e.keys # <<>>
          /\ e.wide \in BOOLEAN /\ e.inner \subseteq Int
          /\ e.encoding # "inplace" => e.size = 1 /\ e.members = <<>>
          /\ e.members # <<>> =>
                /\ e.elem = 0
                /\ \A m \in 1..Len(e.members) : e.members[m] < e.size
          /\ e.size > 1 => e.members # <<>> \/ e.elem > 0
    /\ \A j, k \in Entries : j # k =>
          /\ Layout[j].label # Layout[k].label
          /\ \/ Range(j) \cap Range(k) = {}
             \/ /\ Layout[j].encoding = "inplace" /\ IsScalar(Layout[j])
                /\ Layout[k].encoding = "inplace" /\ IsScalar(Layout[k])

\* No two keys of the transaction agree in the part that is shown of them.
KeysDiffer == \A a, b \in Keys : a % Addresses = b % Addresses => a = b

-----------------------------------------------------------------------------
(* Properties *)

Label == {Layout[k].label : k \in Entries} \cup {"storage"}
Part == {"whole", "member", "element", "key", "raw"}

\* Types of the state: names carry the label of a variable, and only slots the
\* transaction computed have a cached name.
TypeOK ==
    /\ world \in [DOMAIN world -> Vals] /\ DOMAIN world \subseteq Places
    /\ hashed \subseteq Seq(Int)
    /\ DOMAIN names \subseteq hashed
    /\ \A s \in DOMAIN names : names[s].var \in Label /\ names[s].part = "key"
    /\ slot_values \in [DOMAIN slot_values -> Vals]
    /\ \A n \in DOMAIN shown : n.var \in Label /\ n.part \in Part

\* The slots of variable k that can be known by the layout: the first one, those
\* in which a member of a struct or an element of a fixed-size array starts, and
\* the elements of a mapping whose keys are words.
IsKnown(k, s) ==
    IF k \in Mappings
    THEN IsElement(k, s) /\ \A i \in 2..Len(s) : Layout[k].keys[i - 1] # "bytes"
    ELSE /\ s \in Range(k)
         /\ \/ s[1] = Layout[k].slot
            \/ Layout[k].elem > 0
            \/ \E m \in 1..Len(Layout[k].members) :
                  s[1] = Layout[k].slot + Layout[k].members[m]

\* A slot that is written and can be known is named by the variable it is part
\* of, at the edges of neighbouring structs, arrays and mappings too, and
\* however deep the mapping; any other slot, the data of dynamic arrays and long
\* strings, the rest of wide values and members, elements of mappings by
\* strings and of mappings inside other values, is shown as storage[n] of its
\* own number and never under the name of a variable.
NamedByOwner ==
    \A s \in DOMAIN world :
        IF \E k \in Entries : IsKnown(k, s)
        THEN \E k \in Entries : Owns(k, s) /\ VarName(s).var = Layout[k].label
        ELSE VarName(s) = Name("storage", "raw", s)

\* What is carried forward under the name of a slot is what the slot holds, for
\* every slot written: no two of them share a name.  The name of the first
\* slot of a compound is that of the compound.
HasCompound(s) == CompoundWith(s) # {} /\ VarName(s).part = "whole"
ShownFollowsStorage ==
    \A s \in DOMAIN world : ~HasCompound(s) => shown[VarName(s)] = world[s]

\* The snapshot of a compound holds the value of each of its slots that has
\* been written, whichever of them was written last.
SlotAt(e, n) == <<e.slot + (IF e.members # <<>> THEN e.members[n] ELSE n - 1)>>
Snapshots == {k \in Entries : CompoundWith(<<Layout[k].slot>>) # {}
                              /\ Name(Layout[k].label, "whole", <<>>) \in DOMAIN shown}
SnapshotFollowsStorage ==
    \A k \in Snapshots :
        LET e == Layout[k]
            snapshot == shown[Name(e.label, "whole", <<>>)]
        IN  \A n \in 1..Len(snapshot) :
               SlotAt(e, n) \in DOMAIN world => snapshot[n] = world[SlotAt(e, n)]

=============================================================================
