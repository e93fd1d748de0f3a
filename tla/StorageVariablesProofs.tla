------------------------ MODULE StorageVariablesProofs ------------------------
(***************************************************************************)
(* What the names of storage slots and the values carried forward under    *)
(* them are, for every layout a compiler may give and every transaction.   *)
(***************************************************************************)
EXTENDS StorageVariables, WellFoundedInduction, TLAPS

-----------------------------------------------------------------------------
(* The layout. *)

\* Of several variables there is a first one.
LEMMA EarliestExists ==
    ASSUME NEW S \in SUBSET Nat, S # {}
    PROVE  Earliest(S) \in S /\ \A j \in S : Earliest(S) <= j
  <1>1. PICK x \in S : \A y \in S : ~(<<y, x>> \in OpToRel(<, Nat))
    BY NatLessThanWellFounded, WFMin
  <1>2. ASSUME NEW y \in S PROVE x <= y
    <2>1. x \in Nat /\ y \in Nat
      OBVIOUS
    <2>2. <<y, x>> \in Nat \X Nat /\ <<y, x>>[1] = y /\ <<y, x>>[2] = x
      BY <2>1
    <2>3. <<y, x>> \notin OpToRel(<, Nat)
      BY <1>1
    <2>4. ~(y < x)
      BY <2>2, <2>3 DEF OpToRel
    <2>5. QED
      BY <2>1, <2>4
  <1>3. QED
    BY <1>2 DEF Earliest

\* What the hypotheses say of one variable, and of two.
LEMMA LayoutEntry ==
    ASSUME WellFormedLayout, NEW k \in Entries
    PROVE  /\ k \in Nat
           /\ Layout[k].slot \in Nat /\ Layout[k].size \in Nat \ {0}
           /\ Layout[k].members \in Seq(Nat) /\ Layout[k].elem \in Nat
           /\ Layout[k].encoding # "inplace" => Layout[k].size = 1 /\ Layout[k].members = <<>>
           /\ \A n : <<n>> \in Range(k) <=>
                 n \in Nat /\ Layout[k].slot <= n /\ n < Layout[k].slot + Layout[k].size
           /\ \A s \in Range(k) : \E n \in Nat : s = <<n>>
           /\ <<Layout[k].slot>> \in Range(k)
  <1>1. /\ k \in Nat
        /\ Layout[k].slot \in Nat /\ Layout[k].size \in Nat \ {0}
        /\ Layout[k].members \in Seq(Nat) /\ Layout[k].elem \in Nat
        /\ Layout[k].encoding # "inplace" => Layout[k].size = 1 /\ Layout[k].members = <<>>
    BY DEF WellFormedLayout, Entries
  <1>2. ASSUME NEW n
        PROVE  <<n>> \in Range(k) <=>
                 n \in Nat /\ Layout[k].slot <= n /\ n < Layout[k].slot + Layout[k].size
    BY <1>1, SMTT(30) DEF Range
  <1>3. \A s \in Range(k) : \E n \in Nat : s = <<n>>
    BY <1>1 DEF Range
  <1>4. <<Layout[k].slot>> \in Range(k)
    BY <1>1, <1>2
  <1>5. QED
    BY <1>1, <1>2, <1>3, <1>4

\* A slot that belongs to two variables holds packed values.
LEMMA SharedSlot ==
    ASSUME WellFormedLayout, NEW j \in Entries, NEW k \in Entries,
           NEW n, <<n>> \in Range(j), <<n>> \in Range(k), j # k
    PROVE  /\ n = Layout[j].slot /\ n = Layout[k].slot
           /\ Layout[j].encoding = "inplace" /\ IsScalar(Layout[j])
           /\ Layout[k].encoding = "inplace" /\ IsScalar(Layout[k])
  <1>1. ~(Range(j) \cap Range(k) = {})
    OBVIOUS
  <1>2. /\ Layout[j].encoding = "inplace" /\ IsScalar(Layout[j])
        /\ Layout[k].encoding = "inplace" /\ IsScalar(Layout[k])
    BY <1>1 DEF WellFormedLayout
  <1>3. Layout[j].size = 1 /\ Layout[k].size = 1
    BY <1>2 DEF IsScalar
  <1>4. /\ n \in Nat /\ Layout[j].slot <= n /\ n < Layout[j].slot + 1
        /\ Layout[k].slot <= n /\ n < Layout[k].slot + 1
        /\ Layout[j].slot \in Nat /\ Layout[k].slot \in Nat
    BY <1>3, LayoutEntry
  <1>5. QED
    BY <1>2, <1>4

\* A member starts in a slot of its struct.
LEMMA MemberSlot ==
    ASSUME WellFormedLayout, NEW k \in Entries, NEW n,
           NEW m \in 1..Len(Layout[k].members), HasMember(k, m, <<n>>)
    PROVE  <<n>> \in Range(k) /\ n = Layout[k].slot + Layout[k].members[m]
  <1>1. n = Layout[k].slot + Layout[k].members[m]
    BY DEF HasMember
  <1>2. Layout[k].members # <<>>
    BY LayoutEntry
  <1>3. Layout[k].members[m] < Layout[k].size /\ Layout[k].members[m] \in Nat
    BY <1>2, LayoutEntry, SMTT(30) DEF WellFormedLayout
  <1>4. /\ Layout[k].slot \in Nat /\ Layout[k].size \in Nat
        /\ <<n>> \in Range(k) <=>
              n \in Nat /\ Layout[k].slot <= n /\ n < Layout[k].slot + Layout[k].size
    BY LayoutEntry
  <1>5. n \in Nat /\ Layout[k].slot <= n /\ n < Layout[k].slot + Layout[k].size
    BY <1>1, <1>3, <1>4
  <1>6. QED
    BY <1>1, <1>4, <1>5

-----------------------------------------------------------------------------
(* Names. *)

\* The name a slot of a variable gets: the variable's own for its first slot, a
\* member or an element for the others.
IsPlainName(n, name) ==
    \E k \in Entries :
        /\ <<n>> \in Range(k)
        /\ \/ n = Layout[k].slot /\ name = Name(Layout[k].label, "whole", <<>>)
           \/ \E m \in 1..Len(Layout[k].members) :
                 /\ n = Layout[k].slot + Layout[k].members[m]
                 /\ name = Name(Layout[k].label, "member", <<m>>)
           \/ name = Name(Layout[k].label, "element", <<n - Layout[k].slot>>)

\* An element of mapping k whose keys are all words, and the name it gets: by its
\* keys, the inner ones shown as addresses.
WordPath(k, s) ==
    IsElement(k, s) /\ \A i \in 2..Len(s) : Layout[k].keys[i - 1] # "bytes"
KeyType(k, j) == IF j = 1 THEN Layout[k].keys[1] ELSE "address"
ElementName(k, s) ==
    Name(Layout[k].label, "key",
         [j \in 1 .. Len(s) - 1 |-> FormatKey(KeyType(k, j), s[j + 1])])
IsKeyName(s, name) ==
    s \in Seq(Int) /\ \E k \in Mappings : WordPath(k, s) /\ name = ElementName(k, s)

\* The name a slot gets that no lookup finds.
Raw(s) == Name("storage", "raw", s)

IsName(s, name) ==
    \/ \E n : s = <<n>> /\ IsPlainName(n, name)
    \/ IsKeyName(s, name)
    \/ name = Raw(s)

\* A slot of a variable gets a name of a variable when the layout's lookups, tried
\* one after the other, find it, and its own number when they do not.
LEMMA PlainNamed ==
    ASSUME WellFormedLayout, NEW n, <<n>> \notin DOMAIN names
    PROVE  IF /\ Resolved(<<n>>) = {} /\ StructWith(<<n>>) = {} /\ ArrayWith(<<n>>) = {}
           THEN VarName(<<n>>) = Raw(<<n>>)
           ELSE IsPlainName(n, VarName(<<n>>))
  <1> DEFINE s == <<n>>
  <1>1. Entries \subseteq Nat
    BY DEF Entries
  <1>2. CASE Resolved(s) # {}
    <2> DEFINE e == Earliest(Resolved(s))
    <2>1. e \in Resolved(s)
      BY <1>1, <1>2, EarliestExists DEF Resolved
    <2>2. VarName(s) = Name(Layout[e].label, "whole", <<>>)
      BY <1>2 DEF VarName
    <2> HIDE DEF e
    <2>3. e \in Entries /\ n = Layout[e].slot
      BY <2>1 DEF Resolved
    <2>4. <<n>> \in Range(e)
      BY <2>3, LayoutEntry
    <2>5. IsPlainName(n, VarName(s))
      BY <2>2, <2>3, <2>4 DEF IsPlainName
    <2>6. QED
      BY <1>2, <2>5
  <1>3. CASE Resolved(s) = {} /\ StructWith(s) # {}
    <2> DEFINE e == Earliest(StructWith(s))
               ms == {m \in 1..Len(Layout[e].members) : HasMember(e, m, s)}
               m == Earliest(ms)
    <2>1. e \in StructWith(s)
      BY <1>1, <1>3, EarliestExists DEF StructWith
    <2>2. VarName(s) = Name(Layout[e].label, "member", <<m>>)
      BY <1>3 DEF VarName
    <2> HIDE DEF e
    <2>3. e \in Entries /\ ms # {} /\ ms \in SUBSET Nat
      BY <2>1, LayoutEntry DEF StructWith
    <2> HIDE DEF ms
    <2>4. m \in ms
      BY <2>3, EarliestExists
    <2> HIDE DEF m
    <2>5. m \in 1..Len(Layout[e].members) /\ HasMember(e, m, s)
      BY <2>4 DEF ms
    <2>6. <<n>> \in Range(e) /\ n = Layout[e].slot + Layout[e].members[m]
      BY <2>3, <2>5, MemberSlot
    <2>7. IsPlainName(n, VarName(s))
      BY <2>2, <2>3, <2>5, <2>6 DEF IsPlainName
    <2>8. QED
      BY <1>3, <2>7
  <1>4. CASE Resolved(s) = {} /\ StructWith(s) = {} /\ ArrayWith(s) # {}
    <2> DEFINE e == Earliest(ArrayWith(s))
    <2>1. e \in ArrayWith(s)
      BY <1>1, <1>4, EarliestExists DEF ArrayWith
    <2>2. VarName(s) = Name(Layout[e].label, "element", <<s[1] - Layout[e].slot>>)
      BY <1>4 DEF VarName
    <2> HIDE DEF e
    <2>3. e \in Entries /\ <<n>> \in Range(e) /\ s[1] = n
      BY <2>1 DEF ArrayWith
    <2>4. IsPlainName(n, VarName(s))
      BY <2>2, <2>3 DEF IsPlainName
    <2>5. QED
      BY <1>4, <2>4
  <1>5. CASE Resolved(s) = {} /\ StructWith(s) = {} /\ ArrayWith(s) = {}
    BY <1>5 DEF VarName, Raw
  <1>6. QED
    BY <1>2, <1>3, <1>4, <1>5

\* A name says which variable it is of, how, and where in it.
LEMMA NameParts ==
    ASSUME NEW l1, NEW l2, NEW p1, NEW p2, NEW at1, NEW at2,
           Name(l1, p1, at1) = Name(l2, p2, at2)
    PROVE  l1 = l2 /\ p1 = p2 /\ at1 = at2
  <1>1. /\ Name(l1, p1, at1).var = l1 /\ Name(l1, p1, at1).part = p1
        /\ Name(l1, p1, at1).at = at1
        /\ Name(l2, p2, at2).var = l2 /\ Name(l2, p2, at2).part = p2
        /\ Name(l2, p2, at2).at = at2
    BY DEF Name
  <1>2. QED
    BY <1>1

\* Labels tell variables apart, and so do the slots of mappings.
LEMMA LabelsDiffer ==
    ASSUME WellFormedLayout, NEW j \in Entries, NEW k \in Entries,
           Layout[j].label = Layout[k].label
    PROVE  j = k
  BY DEF WellFormedLayout

\* No mapping shares its slot, with another mapping or with anything else.
LEMMA MappingSlot ==
    ASSUME WellFormedLayout, NEW j \in Entries, NEW k \in Mappings,
           <<Layout[k].slot>> \in Range(j)
    PROVE  j = k
  <1>1. k \in Entries /\ <<Layout[k].slot>> \in Range(k) /\ Layout[k].encoding # "inplace"
    BY LayoutEntry DEF Mappings
  <1>2. QED
    BY <1>1, SharedSlot

\* Keys that differ are shown differently.
LEMMA FormatInjective ==
    ASSUME KeysDiffer, NEW a \in Keys, NEW b \in Keys, NEW type,
           FormatKey(type, a) = FormatKey(type, b)
    PROVE  a = b
  BY DEF KeysDiffer, FormatKey

\* What an element is: the slot of a mapping and keys.
LEMMA ElementParts ==
    ASSUME WellFormedLayout, NEW k \in Mappings, NEW s \in Seq(Int), IsElement(k, s)
    PROVE  /\ Len(s) \in Nat /\ Len(s) >= 2 /\ Len(s) <= Len(Layout[k].keys) + 1
           /\ s[1] = Layout[k].slot
           /\ \A i \in 2..Len(s) : s[i] \in Keys
  <1>1. Len(Layout[k].keys) \in Nat /\ Len(s) \in Nat
    BY DEF WellFormedLayout, Mappings
  <1>2. QED
    BY <1>1 DEF IsElement

\* The variable an element is of.
LEMMA ElementOwner ==
    ASSUME WellFormedLayout, NEW s, NEW j \in Mappings, NEW k \in Mappings,
           s[1] = Layout[j].slot, s[1] = Layout[k].slot
    PROVE  j = k
  <1>1. j \in Entries /\ <<Layout[k].slot>> \in Range(j)
    BY LayoutEntry DEF Mappings
  <1>2. QED
    BY <1>1, MappingSlot

\* An element of a mapping has one name, ...
LEMMA KeyNameUnique ==
    ASSUME WellFormedLayout, NEW s, NEW n1, NEW n2, IsKeyName(s, n1), IsKeyName(s, n2)
    PROVE  n1 = n2
  <1>1. PICK j \in Mappings : s[1] = Layout[j].slot /\ n1 = ElementName(j, s)
    BY DEF IsKeyName, WordPath, IsElement
  <1>2. PICK k \in Mappings : s[1] = Layout[k].slot /\ n2 = ElementName(k, s)
    BY DEF IsKeyName, WordPath, IsElement
  <1>3. j = k
    BY <1>1, <1>2, ElementOwner
  <1>4. QED
    BY <1>1, <1>2, <1>3

\* ... and a name one element, or one slot.
LEMMA KeyNameInjective ==
    ASSUME WellFormedLayout, KeysDiffer, NEW s, NEW t, NEW name,
           IsKeyName(s, name), IsKeyName(t, name)
    PROVE  s = t
  <1> DEFINE At(k, u) == [j \in 1 .. Len(u) - 1 |-> FormatKey(KeyType(k, j), u[j + 1])]
  <1>1. PICK k \in Mappings : IsElement(k, s) /\ name = ElementName(k, s)
    BY DEF IsKeyName, WordPath
  <1>2. PICK l \in Mappings : IsElement(l, t) /\ name = ElementName(l, t)
    BY DEF IsKeyName, WordPath
  <1>3. Layout[k].label = Layout[l].label /\ At(k, s) = At(l, t)
    BY <1>1, <1>2, NameParts DEF ElementName
  <1>4. k = l
    BY <1>3, LabelsDiffer DEF Mappings
  <1>5. /\ s \in Seq(Int) /\ Len(s) >= 2 /\ s[1] = Layout[k].slot
        /\ \A i \in 2..Len(s) : s[i] \in Keys
    BY <1>1, ElementParts DEF IsKeyName
  <1>6. /\ t \in Seq(Int) /\ Len(t) >= 2 /\ t[1] = Layout[k].slot
        /\ \A i \in 2..Len(t) : t[i] \in Keys
    BY <1>2, <1>4, ElementParts DEF IsKeyName
  <1>7. Len(s) = Len(t)
    <2>1. Len(s) \in Nat /\ Len(t) \in Nat /\ Len(s) >= 2 /\ Len(t) >= 2
      BY <1>5, <1>6
    <2>2. DOMAIN At(k, s) = 1 .. Len(s) - 1 /\ DOMAIN At(l, t) = 1 .. Len(t) - 1
      OBVIOUS
    <2>3. 1 .. Len(s) - 1 = 1 .. Len(t) - 1
      BY <1>3, <2>2
    <2>4. Len(s) - 1 \in 1 .. Len(t) - 1 /\ Len(t) - 1 \in 1 .. Len(s) - 1
      BY <2>1, <2>3
    <2>5. QED
      BY <2>1, <2>4
  <1>8. ASSUME NEW i \in 2..Len(s) PROVE s[i] = t[i]
    <2>1. i - 1 \in 1 .. Len(s) - 1 /\ (i - 1) + 1 = i /\ i \in 2..Len(t)
      BY <1>5, <1>7
    <2> DEFINE j == i - 1
    <2>2. j \in 1 .. Len(s) - 1 /\ j \in 1 .. Len(t) - 1 /\ j + 1 = i
      BY <1>7, <2>1
    <2> HIDE DEF j
    <2>3. At(k, s)[j] = FormatKey(KeyType(k, j), s[i])
          /\ At(l, t)[j] = FormatKey(KeyType(l, j), t[i])
      BY <2>2
    <2>4. FormatKey(KeyType(k, j), s[i]) = FormatKey(KeyType(k, j), t[i])
      BY <1>3, <1>4, <2>3
    <2>5. s[i] \in Keys /\ t[i] \in Keys
      BY <1>5, <1>6, <2>1
    <2>6. QED
      BY <2>4, <2>5, FormatInjective
  <1>9. \A i \in 1..Len(s) : s[i] = t[i]
    <2>1. ASSUME NEW i \in 1..Len(s) PROVE s[i] = t[i]
      <3>1. i = 1 \/ i \in 2..Len(s)
        BY <1>5
      <3>2. QED
        BY <1>5, <1>6, <1>8, <3>1
    <2>2. QED
      BY <2>1
  <1>10. QED
    <2> DEFINE n == Len(s)
    <2>1. s \in [1..n -> Int] /\ t \in [1..n -> Int]
      BY ONLY <1>5, <1>6, <1>7
    <2>2. \A i \in 1..n : s[i] = t[i]
      BY <1>9
    <2> DEFINE places == 1..n
    <2> HIDE DEF n, places
    <2>3. s \in [places -> Int] /\ t \in [places -> Int] /\ \A i \in places : s[i] = t[i]
      BY ONLY <2>1, <2>2 DEF places
    <2>4. QED
      BY ONLY <2>3

\* No two slots share a name.
LEMMA NamesInjective ==
    ASSUME WellFormedLayout, KeysDiffer, NEW s, NEW t, NEW name,
           IsName(s, name), IsName(t, name)
    PROVE  s = t
  <1>1. ASSUME NEW n, NEW p, IsPlainName(n, name), IsPlainName(p, name) PROVE n = p
    <2>1. PICK j \in Entries :
        /\ <<n>> \in Range(j)
        /\ \/ n = Layout[j].slot /\ name = Name(Layout[j].label, "whole", <<>>)
           \/ \E m \in 1..Len(Layout[j].members) :
                 /\ n = Layout[j].slot + Layout[j].members[m]
                 /\ name = Name(Layout[j].label, "member", <<m>>)
           \/ name = Name(Layout[j].label, "element", <<n - Layout[j].slot>>)
      BY <1>1 DEF IsPlainName
    <2>2. PICK k \in Entries :
        /\ <<p>> \in Range(k)
        /\ \/ p = Layout[k].slot /\ name = Name(Layout[k].label, "whole", <<>>)
           \/ \E m \in 1..Len(Layout[k].members) :
                 /\ p = Layout[k].slot + Layout[k].members[m]
                 /\ name = Name(Layout[k].label, "member", <<m>>)
           \/ name = Name(Layout[k].label, "element", <<p - Layout[k].slot>>)
      BY <1>1 DEF IsPlainName
    <2>3. name.var = Layout[j].label /\ name.var = Layout[k].label
      BY <2>1, <2>2 DEF Name
    <2>4. j = k
      BY <2>3, LabelsDiffer
    <2>5. n \in Nat /\ p \in Nat /\ Layout[k].slot \in Nat
      BY <2>1, <2>2, LayoutEntry
    <2>6. CASE name.part = "whole"
      BY <2>1, <2>2, <2>4, <2>6 DEF Name
    <2>7. CASE name.part = "member"
      <3>1. PICK m1 : n = Layout[j].slot + Layout[j].members[m1] /\ name.at = <<m1>>
        BY <2>1, <2>7 DEF Name
      <3>2. PICK m2 : p = Layout[k].slot + Layout[k].members[m2] /\ name.at = <<m2>>
        BY <2>2, <2>7 DEF Name
      <3>3. m1 = m2
        BY <3>1, <3>2
      <3>4. QED
        BY <2>4, <3>1, <3>2, <3>3
    <2>8. CASE name.part \notin {"whole", "member"}
      <3>1. name.at = <<n - Layout[j].slot>> /\ name.at = <<p - Layout[k].slot>>
        BY <2>1, <2>2, <2>8 DEF Name
      <3>2. n - Layout[j].slot = p - Layout[k].slot
        BY <3>1
      <3>3. QED
        BY <2>4, <2>5, <3>2
    <2>9. QED
      BY <2>6, <2>7, <2>8
  <1>2. ASSUME NEW u, IsKeyName(u, name) PROVE name.part = "key"
    BY <1>2 DEF IsKeyName, ElementName, Name
  <1>3. ASSUME NEW n, IsPlainName(n, name) PROVE name.part \notin {"key", "raw"}
    BY <1>3 DEF IsPlainName, Name
  <1>4. ASSUME NEW u, name = Raw(u) PROVE name.part = "raw" /\ name.at = u
    BY <1>4 DEF Raw, Name
  <1>5. CASE name.part = "key"
    BY <1>3, <1>4, <1>5, KeyNameInjective DEF IsName
  <1>6. CASE name.part = "raw"
    BY <1>2, <1>3, <1>4, <1>6 DEF IsName
  <1>7. CASE name.part \notin {"key", "raw"}
    BY <1>1, <1>2, <1>4, <1>7 DEF IsName
  <1>8. QED
    BY <1>5, <1>6, <1>7

\* The name of a variable is that of its first slot.
LEMMA WholeName ==
    ASSUME WellFormedLayout, NEW s, NEW k \in Entries,
           IsName(s, Name(Layout[k].label, "whole", <<>>))
    PROVE  s = <<Layout[k].slot>>
  <1> DEFINE name == Name(Layout[k].label, "whole", <<>>)
  <1>1. name.part = "whole" /\ name.var = Layout[k].label
    BY DEF Name
  <1> HIDE DEF name
  <1>2. ~IsKeyName(s, name) /\ name # Raw(s)
    BY <1>1 DEF IsKeyName, ElementName, Raw, Name
  <1>3. PICK n : s = <<n>> /\ IsPlainName(n, name)
    BY <1>2 DEF IsName, name
  <1>4. PICK j \in Entries : n = Layout[j].slot /\ name.var = Layout[j].label
    BY <1>1, <1>3 DEF IsPlainName, Name
  <1>5. QED
    BY <1>1, <1>3, <1>4, LabelsDiffer

-----------------------------------------------------------------------------
(* The invariant. *)

\* A slot that is computed, and one in which a value goes on elsewhere.
IsHash(s) == s \in Seq(Int) /\ Len(s) >= 2 /\ s[Len(s)] \in Keys
IsFar(s) == s \in Seq(Int) /\ Len(s) >= 2 /\ s[Len(s)] < 0

\* The slots computed end in a key; those with a cached name are the elements of
\* mappings whose keys are all words, each under the name of its keys.
NamesOK ==
    /\ \A s \in hashed : IsHash(s)
    /\ DOMAIN names = {s \in hashed : \E k \in Mappings : WordPath(k, s)}
    /\ \A s \in DOMAIN names : IsKeyName(s, names[s])

\* Where something may be written: in a variable, a slot that was computed, or one
\* in which a value goes on.
IsStored(s) ==
    \/ \E k \in Entries \ Mappings : s \in Range(k)
    \/ s \in hashed
    \/ IsFar(s)

\* What is known of a slot that was written: its value is carried forward under
\* its name, and the values by slot number are those of the storage.
WrittenOK ==
    \A s \in DOMAIN world :
        /\ IsStored(s)
        /\ VarName(s) \in DOMAIN shown
        /\ ~HasCompound(s) => shown[VarName(s)] = world[s]
        /\ IsPlain(s) => s[1] \in DOMAIN slot_values /\ slot_values[s[1]] = world[s]

\* The snapshot of a compound is what its slots were when one of them was
\* written last, and no other value has been written under its name since.
SnapshotsOK ==
    \A k \in Snapshots :
        shown[Name(Layout[k].label, "whole", <<>>)] = CompoundValue(Layout[k], slot_values)

\* A slot of more than one item is no slot of a variable: no lookup in the layout
\* finds it.
LEMMA LongSlot ==
    ASSUME WellFormedLayout, NEW s \in Seq(Int), Len(s) >= 2
    PROVE  /\ ~IsPlain(s) /\ MappingAtBase(s) = {}
           /\ Resolved(s) = {} /\ StructWith(s) = {} /\ ArrayWith(s) = {}
           /\ \A k \in Entries : s \notin Range(k)
           /\ \A n : s # <<n>>
  <1>1. ASSUME NEW n, s = <<n>> PROVE FALSE
    <2>1. Len(s) = 1
      BY <1>1
    <2>2. QED
      BY <2>1
  <1>2. ~IsPlain(s)
    <2> DEFINE n == Len(s)
    <2>1. n \in Nat /\ n >= 2
      OBVIOUS
    <2> HIDE DEF n
    <2>2. n # 1
      BY ONLY <2>1
    <2>3. QED
      BY <2>2 DEF IsPlain, n
  <1>3. \A j \in Entries : s \notin Range(j)
    BY <1>1, LayoutEntry
  <1>4. MappingAtBase(s) = {} /\ Resolved(s) = {} /\ StructWith(s) = {}
    BY <1>1 DEF Resolved, MappingAtBase, StructWith, HasMember
  <1>5. ArrayWith(s) = {}
    BY <1>3 DEF ArrayWith
  <1>6. QED
    BY <1>1, <1>2, <1>3, <1>4, <1>5

\* Such a slot has its cached name, or its own number.
LEMMA LongNamed ==
    ASSUME WellFormedLayout, NamesOK, NEW s \in Seq(Int), Len(s) >= 2
    PROVE  /\ s \in DOMAIN names => VarName(s) = names[s] /\ IsKeyName(s, VarName(s))
           /\ s \notin DOMAIN names => VarName(s) = Raw(s)
  <1>1. Resolved(s) = {} /\ StructWith(s) = {} /\ ArrayWith(s) = {}
    BY LongSlot
  <1>2. s \in DOMAIN names => IsKeyName(s, names[s])
    BY DEF NamesOK
  <1>3. QED
    BY <1>1, <1>2 DEF VarName, Raw

\* The slots of variables are in nobody's cache.
LEMMA PlainNotCached ==
    ASSUME WellFormedLayout, NamesOK, NEW k \in Entries, NEW s \in Range(k)
    PROVE  s \notin DOMAIN names /\ s \notin hashed /\ IsPlain(s) /\ s = <<s[1]>>
  <1>1. PICK n \in Nat : s = <<n>>
    BY LayoutEntry
  <1>2. Len(s) = 1 /\ s[1] = n
    BY <1>1
  <1>3. s \notin hashed
    BY <1>2 DEF NamesOK, IsHash
  <1>4. QED
    BY <1>1, <1>2, <1>3 DEF IsPlain, NamesOK

\* The two kinds of slots a transaction can write.
LEMMA StoredShape ==
    ASSUME WellFormedLayout, NamesOK, NEW s, IsStored(s)
    PROVE  \/ /\ \E k \in Entries \ Mappings : s \in Range(k)
              /\ s \notin DOMAIN names /\ IsPlain(s) /\ s = <<s[1]>>
           \/ s \in Seq(Int) /\ Len(s) >= 2 /\ ~IsPlain(s)
  <1>1. ASSUME NEW k \in Entries \ Mappings, s \in Range(k)
        PROVE  s \notin DOMAIN names /\ IsPlain(s) /\ s = <<s[1]>>
    BY <1>1, PlainNotCached
  <1>2. ASSUME s \in hashed \/ IsFar(s)
        PROVE  s \in Seq(Int) /\ Len(s) >= 2 /\ ~IsPlain(s)
    BY <1>2 DEF NamesOK, IsHash, IsFar, IsPlain
  <1>3. QED
    BY <1>1, <1>2 DEF IsStored

\* The name of a slot a transaction can write.
LEMMA SlotNamed ==
    ASSUME WellFormedLayout, NamesOK, NEW s, IsStored(s)
    PROVE  IsName(s, VarName(s))
  <1>1. ASSUME s \in Seq(Int), Len(s) >= 2 PROVE IsName(s, VarName(s))
    BY <1>1, LongNamed DEF IsName
  <1>2. ASSUME s \notin DOMAIN names, s = <<s[1]>> PROVE IsName(s, VarName(s))
    <2> DEFINE n == s[1]
    <2> HIDE DEF n
    <2>1. s = <<n>> /\ <<n>> \notin DOMAIN names
      BY <1>2 DEF n
    <2>2. IsPlainName(n, VarName(<<n>>)) \/ VarName(<<n>>) = Raw(<<n>>)
      BY <2>1, PlainNamed
    <2>3. QED
      BY <2>1, <2>2 DEF IsName
  <1>3. QED
    BY <1>1, <1>2, StoredShape

\* A slot of a compound is a slot of no other variable.
LEMMA CompoundOwner ==
    ASSUME WellFormedLayout, NEW s, NEW j \in CompoundWith(s), NEW k \in Entries,
           s \in Range(k)
    PROVE  j = k
  <1>1. j \in Entries /\ s \in Range(j) /\ Layout[j].size > 1
    BY DEF CompoundWith
  <1>2. PICK n \in Nat : s = <<n>>
    BY LayoutEntry
  <1>3. CASE j # k
    <2>1. Layout[j].size = 1
      BY <1>1, <1>2, <1>3, SharedSlot DEF IsScalar
    <2>2. QED
      BY <1>1, <2>1
  <1>4. QED
    BY <1>3

\* A snapshot reads only the slots of its variable.
LEMMA CompoundValueFrame ==
    ASSUME WellFormedLayout, NEW k \in Entries, NEW v, NEW w,
           \A n : <<n>> \in Range(k) =>
                     /\ n \in DOMAIN v <=> n \in DOMAIN w
                     /\ n \in DOMAIN v => v[n] = w[n]
    PROVE  CompoundValue(Layout[k], v) = CompoundValue(Layout[k], w)
  <1> DEFINE e == Layout[k]
             At(f, n) == IF n \in DOMAIN f THEN f[n] ELSE 0
  <1>1. /\ e.slot \in Nat /\ e.size \in Nat /\ e.members \in Seq(Nat)
        /\ \A n : <<n>> \in Range(k) <=>
              n \in Nat /\ e.slot <= n /\ n < e.slot + e.size
    BY LayoutEntry
  <1>2. \A n : <<n>> \in Range(k) => At(v, n) = At(w, n)
    OBVIOUS
  <1>3. CASE e.members # <<>>
    <2>1. ASSUME NEW m \in 1..Len(e.members)
          PROVE  At(v, e.slot + e.members[m]) = At(w, e.slot + e.members[m])
      <3>1. e.members[m] < e.size /\ e.members[m] \in Nat
        BY <1>1, <1>3, SMTT(30) DEF WellFormedLayout
      <3>2. <<e.slot + e.members[m]>> \in Range(k)
        <4> DEFINE x == e.members[m]
                   b == e.slot
                   z == e.size
                   n == b + x
        <4>0. x < z /\ x \in Nat /\ b \in Nat /\ z \in Nat
          BY <1>1, <3>1
        <4> HIDE DEF x, b, z
        <4>1. n \in Nat /\ b <= n /\ n < b + z
          BY <4>0
        <4> HIDE DEF n, e
        <4>2. <<n>> \in Range(k)
          BY <1>1, <4>1 DEF b, z
        <4>3. QED
          BY <4>2 DEF n, b, x
      <3> HIDE DEF At, e
      <3>3. QED
        BY <1>2, <3>2
    <2>2. /\ CompoundValue(e, v) = [m \in 1..Len(e.members) |-> At(v, e.slot + e.members[m])]
          /\ CompoundValue(e, w) = [m \in 1..Len(e.members) |-> At(w, e.slot + e.members[m])]
      BY <1>3 DEF CompoundValue
    <2> HIDE DEF At, e
    <2>3. CompoundValue(e, v) = CompoundValue(e, w)
      BY <2>1, <2>2
    <2>4. QED
      BY <2>3 DEF e
  <1>4. CASE ~(e.members # <<>>)
    <2>1. ASSUME NEW m \in 1..e.size
          PROVE  At(v, e.slot + m - 1) = At(w, e.slot + m - 1)
      <3> DEFINE n == e.slot + m - 1
      <3>1. n \in Nat /\ e.slot <= n /\ n < e.slot + e.size
        BY <1>1
      <3> HIDE DEF n, e, At
      <3>2. <<n>> \in Range(k)
        BY <1>1, <3>1
      <3>3. At(v, n) = At(w, n)
        BY <1>2, <3>2
      <3>4. QED
        BY <3>3 DEF n
    <2>2. /\ CompoundValue(e, v) = [m \in 1..e.size |-> At(v, e.slot + m - 1)]
          /\ CompoundValue(e, w) = [m \in 1..e.size |-> At(w, e.slot + m - 1)]
      BY <1>4 DEF CompoundValue
    <2> HIDE DEF At, e
    <2>3. CompoundValue(e, v) = CompoundValue(e, w)
      BY <2>1, <2>2
    <2>4. QED
      BY <2>3 DEF e
  <1>5. QED
    BY <1>3, <1>4

-----------------------------------------------------------------------------
(* The steps. *)

\* A place is a slot of a variable, one that was computed, or one in which a value
\* goes on.
LEMMA PlaceShape ==
    ASSUME WellFormedLayout, NamesOK, NEW s \in Places
    PROVE  /\ s \in Seq(Int) /\ Len(s) \in Nat /\ Len(s) >= 1
           /\ (\E k \in Entries : s \in Range(k)) \/ s \in hashed \/ IsFar(s)
  <1>1. ASSUME NEW t \in Plain \cup hashed
        PROVE  t \in Seq(Int) /\ Len(t) \in Nat /\ Len(t) >= 1
    <2>1. ASSUME t \in Plain PROVE t \in Seq(Int) /\ Len(t) = 1
      <3>1. PICK k \in Entries : t \in Range(k)
        BY <2>1 DEF Plain
      <3>2. PICK n \in Nat : t = <<n>>
        BY <3>1, LayoutEntry
      <3>3. QED
        BY <3>2
    <2>2. ASSUME t \in hashed PROVE t \in Seq(Int) /\ Len(t) \in Nat /\ Len(t) >= 2
      BY <2>2 DEF NamesOK, IsHash
    <2>3. QED
      BY <2>1, <2>2
  <1>2. CASE s \in Plain \cup hashed
    <2>1. s \in Plain => \E k \in Entries : s \in Range(k)
      BY DEF Plain
    <2>2. QED
      BY <1>1, <1>2, <2>1
  <1>3. CASE s \notin Plain \cup hashed
    <2>1. PICK t \in Plain \cup hashed, i \in Offsets : s = Append(t, -i)
      BY <1>3 DEF Places
    <2>2. t \in Seq(Int) /\ Len(t) \in Nat /\ Len(t) >= 1
      BY <1>1
    <2>3. i \in Nat /\ i # 0
      BY StorageAssumption
    <2>4. -i \in Int /\ -i < 0
      BY <2>3
    <2>5. s \in Seq(Int) /\ Len(s) = Len(t) + 1 /\ s[Len(s)] = -i
      BY <2>1, <2>2, <2>4
    <2>6. Len(s) \in Nat /\ Len(s) >= 2
      BY <2>2, <2>5
    <2>7. QED
      BY <2>4, <2>5, <2>6 DEF IsFar
  <1>4. QED
    BY <1>2, <1>3

\* What a mapping is kept at is its slot, or an element with fewer keys than it
\* takes: all of them keys.
LEMMA HashedFrom ==
    ASSUME WellFormedLayout, NamesOK, NEW base \in Places, NEW key \in Keys
    PROVE  LET x == Append(base, key) IN
           /\ IsHash(x) /\ Len(x) = Len(base) + 1
           /\ \A i \in 1..Len(base) : x[i] = base[i]
           /\ x[Len(base) + 1] = key
  <1> DEFINE x == Append(base, key)
  <1>1. base \in Seq(Int) /\ Len(base) \in Nat /\ Len(base) >= 1
    BY PlaceShape
  <1>2. key \in Int
    BY StorageAssumption
  <1>3. /\ x \in Seq(Int) /\ Len(x) = Len(base) + 1
        /\ \A i \in 1..Len(base) : x[i] = base[i]
        /\ x[Len(base) + 1] = key
    BY <1>1, <1>2
  <1> HIDE DEF x
  <1>4. IsHash(x)
    BY <1>1, <1>3 DEF IsHash
  <1>5. QED
    BY <1>3, <1>4 DEF x

\* Keys are shown as numbers.
LEMMA FormatInt ==
    ASSUME NEW key \in Keys, NEW type
    PROVE  FormatKey(type, key) \in Int
  <1>1. key \in Int /\ Addresses \in Nat \ {0}
    BY StorageAssumption
  <1>2. key % Addresses \in Int
    BY <1>1
  <1>3. QED
    BY <1>1, <1>2 DEF FormatKey

\* A sequence with one item more at its end.
LEMMA AppendIs ==
    ASSUME NEW n \in Nat, NEW f \in Seq(Int), NEW g \in Seq(Int), NEW a \in Int,
           n >= 1, Len(f) = n - 1, Len(g) = n,
           \A j \in 1 .. n - 1 : g[j] = f[j] /\ j \in 1..n, g[n] = a
    PROVE  Append(f, a) = g
  <1> DEFINE h == Append(f, a)
  <1>1. /\ h \in Seq(Int) /\ Len(h) = n
        /\ \A j \in 1 .. n - 1 : h[j] = f[j]
        /\ h[n] = a
    OBVIOUS
  <1> HIDE DEF h
  <1>2. \A j \in 1..n : j = n \/ j \in 1 .. n - 1
    OBVIOUS
  <1>3. \A j \in 1..n : h[j] = g[j]
    BY <1>1, <1>2
  <1>4. h = g
    BY <1>1, <1>3
  <1>5. QED
    BY <1>4 DEF h

\* An element whose keys are words is computed from the slot of its mapping, or
\* from such an element, and by a hash of two words.
LEMMA WordPathBase ==
    ASSUME WellFormedLayout, NamesOK, NEW base \in Places, NEW key \in Keys,
           NEW k \in Mappings, WordPath(k, Append(base, key))
    PROVE  /\ HashesWord(base)
           /\ MappingAtBase(base) # {} \/ base \in DOMAIN names
  <1> DEFINE x == Append(base, key)
             n == Len(base)
  <1>1. base \in Seq(Int) /\ n \in Nat /\ n >= 1
    BY PlaceShape
  <1>2. /\ x \in Seq(Int) /\ Len(x) = n + 1
        /\ \A i \in 1..n : x[i] = base[i]
    BY HashedFrom DEF IsHash
  <1> HIDE DEF x
  <1>3. IsElement(k, x) /\ \A i \in 2..Len(x) : Layout[k].keys[i - 1] # "bytes"
    BY DEF WordPath, x
  <1>4. /\ Len(x) <= Len(Layout[k].keys) + 1 /\ Len(Layout[k].keys) \in Nat
        /\ x[1] = Layout[k].slot /\ \A i \in 2..Len(x) : x[i] \in Keys
    <2>1. Len(Layout[k].keys) \in Nat
      BY DEF WellFormedLayout, Mappings
    <2>2. QED
      BY <1>2, <1>3, <2>1, ElementParts
  <1>5. base[1] = Layout[k].slot /\ n + 1 \in 2..Len(x) /\ (n + 1) - 1 = n
    BY <1>1, <1>2, <1>4
  <1>6. ASSUME NEW j \in Mappings, base = <<Layout[j].slot>> \/ IsElement(j, base)
        PROVE  Layout[j].keys[n] # "bytes"
    <2>1. base[1] = Layout[j].slot
      BY <1>6 DEF IsElement
    <2>2. j = k
      BY <1>5, <2>1, ElementOwner
    <2>3. QED
      BY <1>3, <1>5, <2>2
  <1>7. HashesWord(base)
    BY <1>6 DEF HashesWord
  <1>8. CASE n = 1
    <2>1. base = <<Layout[k].slot>>
      BY <1>1, <1>5, <1>8
    <2>2. k \in MappingAtBase(base)
      BY <2>1 DEF MappingAtBase, Resolved, Mappings
    <2>3. QED
      BY <1>7, <2>2
  <1>9. CASE n # 1
    <2>1. n >= 2 /\ n \in 2..Len(x) /\ n \in 1..n
      <3> HIDE DEF n
      <3>1. QED
        BY <1>1, <1>2, <1>9
    <2>2. base[n] \in Keys
      BY <1>2, <1>4, <2>1
    <2>3. base[n] \in Nat
      BY <2>2, StorageAssumption
    <2>4. ~IsFar(base)
      BY <2>3 DEF IsFar
    <2>5. base \in hashed
      BY <1>1, <2>1, <2>4, PlaceShape, LongSlot
    <2>6. ASSUME NEW i \in 2..n PROVE base[i] \in Keys /\ Layout[k].keys[i - 1] # "bytes"
      <3>1. i \in 2..Len(x) /\ i \in 1..n
        BY <1>1, <1>2
      <3>2. QED
        BY <1>2, <1>3, <1>4, <3>1
    <2>7. n \in 2 .. Len(Layout[k].keys) + 1
      BY <1>1, <1>2, <1>4, <2>1
    <2>8. WordPath(k, base)
      BY <1>5, <2>6, <2>7 DEF WordPath, IsElement
    <2>9. QED
      BY <1>7, <2>5, <2>8 DEF NamesOK
  <1>10. QED
    BY <1>8, <1>9

\* The code knows the elements whose keys are words, and no other: a hash adds a
\* name for the slot it computes just when that is one.
LEMMA HashNames ==
    ASSUME WellFormedLayout, NamesOK, NEW base \in Places, NEW key \in Keys,
           HoldsMapping(base), HashesWord(base)
    PROVE  LET x == Append(base, key) IN
           \/ /\ \A k \in Mappings : ~WordPath(k, x)
              /\ NamesAfterHash(base, key) = names
           \/ \E k \in Mappings :
                 /\ WordPath(k, x)
                 /\ NamesAfterHash(base, key) = With(names, x, ElementName(k, x))
  <1> DEFINE x == Append(base, key)
             n == Len(base)
  <1>1. base \in Seq(Int) /\ n \in Nat /\ n >= 1
    BY PlaceShape
  <1>2. /\ IsHash(x) /\ Len(x) = n + 1 /\ x[n + 1] = key
        /\ \A i \in 1..n : x[i] = base[i]
    BY HashedFrom
  <1>3. CASE MappingAtBase(base) # {}
    <2> DEFINE k == Earliest(MappingAtBase(base))
    <2>1. k \in MappingAtBase(base)
      <3>1. MappingAtBase(base) \in SUBSET Nat
        BY DEF MappingAtBase, Resolved, Entries
      <3>2. QED
        BY <1>3, <3>1, EarliestExists
    <2>2. NamesAfterHash(base, key) =
             With(names, x, Name(Layout[k].label, "key",
                                 <<FormatKey(Layout[k].keys[1], key)>>))
      BY <1>3 DEF NamesAfterHash
    <2> HIDE DEF k
    <2>3. k \in Mappings /\ base = <<Layout[k].slot>>
      BY <2>1 DEF MappingAtBase, Resolved, Mappings
    <2>4. n = 1 /\ base[1] = Layout[k].slot
      BY <2>3
    <2>5. Len(Layout[k].keys) \in Nat /\ Len(Layout[k].keys) >= 1
      BY <2>3 DEF WellFormedLayout, Mappings
    <2>6. Layout[k].keys[1] # "bytes"
      BY <2>3, <2>4 DEF HashesWord
    <2>7. Len(x) = 2 /\ x[1] = Layout[k].slot /\ x[2] = key
      BY <1>2, <2>4
    <2> HIDE DEF x, n
    <2>8. IsElement(k, x)
      BY <2>5, <2>7 DEF IsElement
    <2>9. WordPath(k, x)
      BY <2>6, <2>7, <2>8 DEF WordPath
    <2>10. ElementName(k, x) = Name(Layout[k].label, "key",
                                    <<FormatKey(Layout[k].keys[1], key)>>)
      <3>1. [j \in 1 .. Len(x) - 1 |-> FormatKey(KeyType(k, j), x[j + 1])] =
               <<FormatKey(Layout[k].keys[1], key)>>
        BY <2>7 DEF KeyType
      <3>2. QED
        BY <3>1 DEF ElementName
    <2>11. QED
      BY <2>2, <2>3, <2>9, <2>10 DEF x
  <1>4. CASE MappingAtBase(base) = {} /\ base \in DOMAIN names
    <2>1. PICK k \in Mappings : WordPath(k, base) /\ names[base] = ElementName(k, base)
      BY <1>4 DEF NamesOK, IsKeyName
    <2>2. /\ IsElement(k, base) /\ base[1] = Layout[k].slot /\ n >= 2
          /\ \A i \in 2..n : base[i] \in Keys
          /\ Len(Layout[k].keys) \in Nat
      BY <1>1, <2>1, ElementParts DEF WordPath, WellFormedLayout, Mappings
    <2>3. n <= Len(Layout[k].keys)
      <3>1. ~IsPlain(base) /\ ~(base[Len(base)] < 0)
        <4>1. base[n] \in Keys
          BY <1>1, <2>2
        <4>2. base[n] \in Nat
          BY <4>1, StorageAssumption
        <4>3. QED
          BY <2>2, <4>2 DEF IsPlain
      <3>2. PICK j \in Mappings : /\ base = <<Layout[j].slot>> \/ IsElement(j, base)
                                  /\ n <= Len(Layout[j].keys)
        BY <3>1 DEF HoldsMapping
      <3>3. base[1] = Layout[j].slot
        BY <3>2 DEF IsElement
      <3>4. j = k
        BY <2>2, <3>3, ElementOwner
      <3>5. QED
        BY <3>2, <3>4
    <2>4. Layout[k].keys[n] # "bytes"
      BY <2>2 DEF HashesWord
    <2>5. IsElement(k, x)
      <3>1. Len(x) \in 2 .. Len(Layout[k].keys) + 1 /\ x[1] = Layout[k].slot
        BY <1>1, <1>2, <2>2, <2>3
      <3>2. ASSUME NEW i \in 2..Len(x) PROVE x[i] \in Keys
        <4>1. i = n + 1 \/ i \in 2..n
          BY <1>1, <1>2
        <4>2. QED
          BY <1>2, <2>2, <4>1
      <3>3. QED
        BY <3>1, <3>2 DEF IsElement
    <2>6. WordPath(k, x)
      <3>1. ASSUME NEW i \in 2..Len(x) PROVE Layout[k].keys[i - 1] # "bytes"
        <4>1. i - 1 = n \/ i \in 2..n
          BY <1>1, <1>2
        <4>2. QED
          BY <2>1, <2>4, <4>1 DEF WordPath
      <3>2. QED
        BY <2>5, <3>1 DEF WordPath
    <2> DEFINE f == [j \in 1 .. n - 1 |-> FormatKey(KeyType(k, j), base[j + 1])]
               g == [j \in 1 .. n |-> FormatKey(KeyType(k, j), x[j + 1])]
               a == FormatKey("address", key)
    <2>7. Append(f, a) = g
      <3>0. ASSUME NEW i \in 2 .. n + 1, NEW type PROVE FormatKey(type, x[i]) \in Int
        <4>1. x[i] \in Keys
          <5>1. i = n + 1 \/ i \in 2..n
            BY <1>1
          <5>2. QED
            BY <1>2, <2>2, <5>1
        <4>2. QED
          BY <4>1, FormatInt
      <3>1. ASSUME NEW j \in 1 .. n - 1 PROVE g[j] = f[j] /\ j \in 1..n
        <4>1. j \in 1..n /\ j + 1 \in 1..n
          BY <1>1
        <4>2. x[j + 1] = base[j + 1]
          BY <1>2, <4>1
        <4>3. QED
          BY <4>1, <4>2
      <3>2. g[n] = a
        <4>1. n # 1
          BY <2>2
        <4>2. KeyType(k, n) = "address" /\ n \in 1..n
          BY <1>1, <4>1 DEF KeyType
        <4>3. QED
          BY <1>2, <4>2
      <3>3. n - 1 \in Nat /\ (n - 1) + 1 = n
        BY <1>1
      <3>4. g \in Seq(Int) /\ Len(g) = n
        <4>1. \A j \in 1..n : FormatKey(KeyType(k, j), x[j + 1]) \in Int
          <5>1. ASSUME NEW j \in 1..n PROVE j + 1 \in 2 .. n + 1
            BY <1>1
          <5> HIDE DEF x, n
          <5>2. QED
            BY <3>0, <5>1
        <4> HIDE DEF x, n
        <4>2. QED
          BY <1>1, <4>1
      <3>5. f \in Seq(Int) /\ Len(f) = n - 1
        <4>1. \A j \in 1 .. n - 1 : f[j] \in Int
          <5>1. \A j \in 1..n : g[j] \in Int
            BY <3>4
          <5> HIDE DEF f, g
          <5>2. QED
            BY <3>1, <5>1
        <4>2. f = [j \in 1 .. n - 1 |-> f[j]]
          OBVIOUS
        <4> HIDE DEF f, x, n, g
        <4>3. QED
          BY <3>3, <4>1, <4>2
      <3>6. a \in Int
        BY FormatInt
      <3> HIDE DEF a, x, n, f, g
      <3>7. QED
        BY <1>1, <3>1, <3>2, <3>4, <3>5, <3>6, AppendIs
    <2>8. [names[base] EXCEPT !.at = Append(@, a)] = ElementName(k, x)
      <3>1. names[base] = Name(Layout[k].label, "key", f)
        BY <2>1 DEF ElementName
      <3>2. n = Len(x) - 1
        BY <1>1, <1>2
      <3>3. ElementName(k, x) = Name(Layout[k].label, "key", g)
        BY <3>2 DEF ElementName
      <3> HIDE DEF f, g, a, x, n
      <3>4. QED
        BY <2>7, <3>1, <3>3 DEF Name
    <2>9. NamesAfterHash(base, key) = With(names, x, ElementName(k, x))
      BY <1>4, <2>8 DEF NamesAfterHash
    <2>10. QED
      BY <2>6, <2>9
  <1>5. CASE MappingAtBase(base) = {} /\ base \notin DOMAIN names
    <2>1. NamesAfterHash(base, key) = names
      BY <1>5 DEF NamesAfterHash
    <2>2. ASSUME NEW k \in Mappings, WordPath(k, x) PROVE FALSE
      <3>1. MappingAtBase(base) # {} \/ base \in DOMAIN names
        BY <2>2, WordPathBase
      <3>2. QED
        BY <1>5, <3>1
    <2>3. QED
      BY <2>1, <2>2
  <1>6. QED
    BY <1>3, <1>4, <1>5

\* So the cached names stay those of the elements, and grow only by the slot that
\* is computed.
LEMMA HashExtends ==
    ASSUME WellFormedLayout, NamesOK, Hash
    PROVE  /\ NamesOK' /\ hashed \subseteq hashed'
           /\ DOMAIN names \subseteq DOMAIN names'
           /\ \A s \in DOMAIN names : names'[s] = names[s]
           /\ \A s \in DOMAIN names' : s \in hashed \/ s \in DOMAIN names \/ IsHash(s)
           /\ \A s \in hashed : s \in DOMAIN names' => s \in DOMAIN names
           /\ UNCHANGED <<world, slot_values, shown>>
  <1>1. PICK base \in Places, key \in Keys :
           /\ HoldsMapping(base)
           /\ hashed' = hashed \cup {Append(base, key)}
           /\ names' = IF HashesWord(base) THEN NamesAfterHash(base, key) ELSE names
           /\ UNCHANGED <<world, slot_values, shown>>
    BY DEF Hash
  <1> DEFINE x == Append(base, key)
  <1>2. IsHash(x)
    BY HashedFrom
  <1>3. \/ names' = names /\ \A k \in Mappings : ~WordPath(k, x)
        \/ \E k \in Mappings : WordPath(k, x) /\ names' = With(names, x, ElementName(k, x))
    <2>1. CASE HashesWord(base)
      BY <1>1, <2>1, HashNames
    <2>2. CASE ~HashesWord(base)
      BY <1>1, <2>2, WordPathBase
    <2>3. QED
      BY <2>1, <2>2
  <1> HIDE DEF x
  <1>4. hashed' = hashed \cup {x}
    BY <1>1 DEF x
  <1>5. \A s \in hashed' : IsHash(s)
    BY <1>2, <1>4 DEF NamesOK
  <1>6. CASE names' = names /\ \A k \in Mappings : ~WordPath(k, x)
    <2>1. DOMAIN names' = {s \in hashed' : \E k \in Mappings : WordPath(k, s)}
      BY <1>4, <1>6 DEF NamesOK
    <2>2. NamesOK'
      BY <1>5, <1>6, <2>1 DEF NamesOK
    <2>3. QED
      BY <1>1, <1>4, <1>6, <2>2
  <1>7. ASSUME NEW k \in Mappings, WordPath(k, x),
               names' = With(names, x, ElementName(k, x))
        PROVE  /\ NamesOK' /\ DOMAIN names' = DOMAIN names \cup {x}
               /\ \A s \in DOMAIN names : names'[s] = names[s]
               /\ x \in hashed => x \in DOMAIN names
    <2>1. /\ DOMAIN names' = DOMAIN names \cup {x}
          /\ \A s \in DOMAIN names \cup {x} :
                names'[s] = IF s = x THEN ElementName(k, x) ELSE names[s]
      BY <1>7 DEF With
    <2>2. DOMAIN names' = {s \in hashed' : \E j \in Mappings : WordPath(j, s)}
      BY <1>4, <1>7, <2>1 DEF NamesOK
    <2>3. IsKeyName(x, ElementName(k, x))
      BY <1>2, <1>7 DEF IsKeyName, IsHash
    <2>4. \A s \in DOMAIN names : names'[s] = names[s]
      BY <2>1, <2>3, KeyNameUnique DEF NamesOK
    <2>5. NamesOK'
      BY <1>5, <2>1, <2>2, <2>3 DEF NamesOK
    <2>6. x \in hashed => x \in DOMAIN names
      BY <1>7 DEF NamesOK
    <2>7. QED
      BY <2>1, <2>4, <2>5, <2>6
  <1>8. CASE \E k \in Mappings : WordPath(k, x) /\ names' = With(names, x, ElementName(k, x))
    <2>1. /\ NamesOK' /\ DOMAIN names' = DOMAIN names \cup {x}
          /\ \A s \in DOMAIN names : names'[s] = names[s]
          /\ x \in hashed => x \in DOMAIN names
      BY <1>7, <1>8
    <2>2. QED
      BY <1>1, <1>2, <1>4, <2>1
  <1>9. QED
    BY <1>3, <1>6, <1>8

\* A hash changes no name that a slot has, and no value that is carried.
LEMMA HashKept ==
    ASSUME WellFormedLayout, NamesOK, WrittenOK, SnapshotsOK, Hash
    PROVE  NamesOK' /\ WrittenOK' /\ SnapshotsOK'
  <1>1. /\ NamesOK' /\ hashed \subseteq hashed'
        /\ DOMAIN names \subseteq DOMAIN names'
        /\ \A s \in DOMAIN names : names'[s] = names[s]
        /\ \A s \in DOMAIN names' : s \in hashed \/ s \in DOMAIN names \/ IsHash(s)
        /\ \A s \in hashed : s \in DOMAIN names' => s \in DOMAIN names
        /\ UNCHANGED <<world, slot_values, shown>>
    BY HashExtends
  <1>2. ASSUME NEW s, IsStored(s) PROVE s \in DOMAIN names' <=> s \in DOMAIN names
    <2>1. ASSUME IsHash(s) PROVE s \in hashed
      <3>1. ~IsFar(s)
        BY <2>1, StorageAssumption DEF IsHash, IsFar
      <3>2. \A k \in Entries : s \notin Range(k)
        BY <2>1, LongSlot DEF IsHash
      <3>3. QED
        BY <1>2, <3>1, <3>2 DEF IsStored
    <2>2. QED
      BY <1>1, <2>1
  <1>3. ASSUME NEW s \in DOMAIN world
        PROVE  IsStored(s)' /\ VarName(s)' = VarName(s)
    <2>1. IsStored(s)
      BY DEF WrittenOK
    <2>2. s \in DOMAIN names' <=> s \in DOMAIN names
      BY <1>2, <2>1
    <2>3. VarName(s)' = VarName(s)
      BY <1>1, <2>2 DEF VarName
    <2>4. QED
      BY <1>1, <2>1, <2>3 DEF IsStored
  <1>4. ASSUME NEW s \in DOMAIN world
        PROVE  HasCompound(s)' <=> HasCompound(s)
    BY <1>3 DEF HasCompound
  <1>5. WrittenOK'
    BY <1>1, <1>3, <1>4 DEF WrittenOK
  <1>6. SnapshotsOK'
    BY <1>1 DEF SnapshotsOK, Snapshots
  <1>7. QED
    BY <1>1, <1>5, <1>6

Whole(k) == Name(Layout[k].label, "whole", <<>>)

\* What a write to slot s changes of the values carried forward: the name of s,
\* and that of the compound it is in.
LEMMA StoreShows ==
    ASSUME NEW s, NEW v,
           shown' = IF CompoundWith(s) = {} THEN With(shown, VarName(s), v)
                    ELSE LET e == Layout[Earliest(CompoundWith(s))] IN
                         With(With(shown, VarName(s), v), Name(e.label, "whole", <<>>),
                              CompoundValue(e, slot_values'))
    PROVE  /\ CompoundWith(s) = {} =>
                 /\ DOMAIN shown' = DOMAIN shown \cup {VarName(s)}
                 /\ shown'[VarName(s)] = v
                 /\ \A y \in DOMAIN shown : y # VarName(s) => shown'[y] = shown[y]
           /\ CompoundWith(s) # {} =>
                 \E e \in CompoundWith(s) :
                    /\ DOMAIN shown' = DOMAIN shown \cup {VarName(s), Whole(e)}
                    /\ VarName(s) # Whole(e) => shown'[VarName(s)] = v
                    /\ shown'[Whole(e)] = CompoundValue(Layout[e], slot_values')
                    /\ \A y \in DOMAIN shown :
                          y # VarName(s) /\ y # Whole(e) => shown'[y] = shown[y]
  <1> DEFINE nm == VarName(s)
             named == With(shown, nm, v)
  <1> HIDE DEF nm
  <1>1. /\ DOMAIN named = DOMAIN shown \cup {nm}
        /\ named[nm] = v
        /\ \A y \in DOMAIN shown : y # nm => named[y] = shown[y]
    BY DEF With
  <1>2. CASE CompoundWith(s) = {}
    BY <1>1, <1>2 DEF nm
  <1>3. CASE CompoundWith(s) # {}
    <2> DEFINE e == Earliest(CompoundWith(s))
               value == CompoundValue(Layout[e], slot_values')
               whole == Whole(e)
               new == With(named, whole, value)
    <2>1. e \in CompoundWith(s)
      <3>1. CompoundWith(s) \in SUBSET Nat
        BY DEF CompoundWith, Entries
      <3>2. QED
        BY <1>3, <3>1, EarliestExists
    <2>2. shown' = new
      BY <1>3 DEF Whole, nm
    <2> HIDE DEF named, value, whole
    <2>3. /\ DOMAIN new = DOMAIN named \cup {whole}
          /\ new[whole] = value
          /\ \A y \in DOMAIN named : y # whole => new[y] = named[y]
      BY DEF With
    <2> HIDE DEF new
    <2> HIDE DEF e
    <2>4. /\ DOMAIN new = DOMAIN shown \cup {nm, whole}
          /\ nm # whole => new[nm] = v
          /\ \A y \in DOMAIN shown : y # nm /\ y # whole => new[y] = shown[y]
      BY <1>1, <2>3
    <2>5. QED
      BY <1>3, <2>1, <2>2, <2>3, <2>4 DEF nm, value, whole
  <1>4. QED
    BY <1>2, <1>3

\* A write of v to slot s.
StoreAt(s, v) ==
    /\ IsStored(s)
    /\ world' = With(world, s, v)
    /\ slot_values' = IF IsPlain(s) THEN With(slot_values, s[1], v) ELSE slot_values
    /\ shown' = IF CompoundWith(s) = {} THEN With(shown, VarName(s), v)
                ELSE LET e == Layout[Earliest(CompoundWith(s))] IN
                     With(With(shown, VarName(s), v), Name(e.label, "whole", <<>>),
                          CompoundValue(e, slot_values'))
    /\ UNCHANGED <<hashed, names>>

\* What a write does: no place that holds a mapping is written.
LEMMA StoreDoes ==
    ASSUME WellFormedLayout, NamesOK, Store
    PROVE  \E s, v : StoreAt(s, v)
  <1>1. PICK s \in Places, v \in Vals :
              /\ ~HoldsMapping(s)
              /\ world' = With(world, s, v)
              /\ slot_values' = IF IsPlain(s) THEN With(slot_values, s[1], v) ELSE slot_values
              /\ shown' = IF CompoundWith(s) = {} THEN With(shown, VarName(s), v)
                          ELSE LET e == Layout[Earliest(CompoundWith(s))] IN
                               With(With(shown, VarName(s), v), Name(e.label, "whole", <<>>),
                                    CompoundValue(e, slot_values'))
              /\ UNCHANGED <<hashed, names>>
    BY DEF Store
  <1>2. IsStored(s)
    <2>1. ASSUME NEW k \in Entries, s \in Range(k) PROVE k \notin Mappings
      <3> SUFFICES ASSUME k \in Mappings PROVE FALSE
        OBVIOUS
      <3>1. PICK n \in Nat : s = <<n>>
        BY <2>1, LayoutEntry
      <3>2. /\ Layout[k].slot \in Nat /\ Layout[k].size = 1
            /\ Layout[k].slot <= n /\ n < Layout[k].slot + Layout[k].size
        BY <2>1, <3>1, LayoutEntry DEF Mappings
      <3>3. s = <<Layout[k].slot>> /\ Len(s) = 1
        BY <3>1, <3>2
      <3>4. Len(Layout[k].keys) \in Nat /\ Len(Layout[k].keys) >= 1
        BY DEF WellFormedLayout, Mappings
      <3>5. HoldsMapping(s)
        BY <3>3, <3>4 DEF HoldsMapping
      <3>6. QED
        BY <1>1, <3>5
    <2>2. (\E k \in Entries : s \in Range(k)) \/ s \in hashed \/ IsFar(s)
      BY PlaceShape
    <2>3. QED
      BY <2>1, <2>2 DEF IsStored
  <1>3. QED
    BY <1>1, <1>2 DEF StoreAt

\* A slot written earlier keeps its name, which is not that of the slot written
\* now, nor that of its compound unless it shows that compound.
LEMMA OthersNamed ==
    ASSUME WellFormedLayout, KeysDiffer, NamesOK, NEW s, IsStored(s), NEW t, IsStored(t)
    PROVE  /\ t # s => VarName(t) # VarName(s)
           /\ \A e \in CompoundWith(s) : VarName(t) = Whole(e) => HasCompound(t)
           /\ IsPlain(t) => t = <<t[1]>>
  <1>1. IsName(t, VarName(t)) /\ IsName(s, VarName(s))
    BY SlotNamed
  <1>2. VarName(t) = VarName(s) => t = s
    BY <1>1, NamesInjective
  <1>3. ASSUME NEW e \in CompoundWith(s), VarName(t) = Whole(e)
        PROVE  HasCompound(t)
    <2>1. e \in Entries /\ Layout[e].encoding = "inplace" /\ Layout[e].size > 1
          /\ (Layout[e].members # <<>> \/ Layout[e].elem > 0)
      BY DEF CompoundWith
    <2>2. t = <<Layout[e].slot>>
      BY <1>1, <1>3, <2>1, WholeName DEF Whole
    <2>3. t \in Range(e)
      BY <2>1, <2>2, LayoutEntry
    <2>4. e \in CompoundWith(t)
      BY <2>1, <2>3 DEF CompoundWith
    <2>5. VarName(t).part = "whole"
      BY <1>3 DEF Whole, Name
    <2>6. QED
      BY <2>4, <2>5 DEF HasCompound
  <1>4. IsPlain(t) => t = <<t[1]>>
    BY StoredShape
  <1>5. QED
    BY <1>2, <1>3, <1>4

\* A write leaves the value of every slot under its name, ...
LEMMA StoreShown ==
    ASSUME WellFormedLayout, KeysDiffer, NamesOK, WrittenOK, Store
    PROVE  NamesOK' /\ WrittenOK'
  <1>1. PICK s, v : StoreAt(s, v)
    BY StoreDoes
  <1> USE DEF StoreAt
  <1>2. NamesOK'
    BY <1>1 DEF NamesOK
  <1>3. \A t : IsStored(t)' <=> IsStored(t)
    BY <1>1 DEF IsStored
  <1>4. \A t : VarName(t)' = VarName(t) /\ (HasCompound(t)' <=> HasCompound(t))
    BY <1>1 DEF VarName, HasCompound
  <1>5. /\ DOMAIN world' = DOMAIN world \cup {s}
        /\ world'[s] = v /\ \A t \in DOMAIN world : t # s => world'[t] = world[t]
    BY <1>1 DEF With
  <1>6. /\ DOMAIN shown \subseteq DOMAIN shown' /\ VarName(s) \in DOMAIN shown'
        /\ \/ CompoundWith(s) = {} /\ shown'[VarName(s)] = v
              /\ \A y \in DOMAIN shown : y # VarName(s) => shown'[y] = shown[y]
           \/ \E e \in CompoundWith(s) :
                 /\ VarName(s) # Whole(e) => shown'[VarName(s)] = v
                 /\ \A y \in DOMAIN shown :
                       y # VarName(s) /\ y # Whole(e) => shown'[y] = shown[y]
    BY <1>1, StoreShows
  <1>7. ASSUME ~HasCompound(s) PROVE shown'[VarName(s)] = v
    <2>1. \A e : Whole(e).part = "whole"
      BY DEF Whole, Name
    <2>2. CompoundWith(s) # {} => \A e : VarName(s) # Whole(e)
      BY <1>7, <2>1 DEF HasCompound
    <2>3. QED
      BY <1>6, <2>2
  <1>8. ASSUME NEW t \in DOMAIN world, t # s
        PROVE  /\ VarName(t) \in DOMAIN shown'
               /\ ~HasCompound(t) => shown'[VarName(t)] = world'[t]
    <2>1. /\ VarName(t) \in DOMAIN shown /\ (~HasCompound(t) => shown[VarName(t)] = world[t])
          /\ IsStored(t)
      BY DEF WrittenOK
    <2>2. /\ VarName(t) # VarName(s)
          /\ ~HasCompound(t) => \A e \in CompoundWith(s) : VarName(t) # Whole(e)
      BY <1>1, <1>8, <2>1, OthersNamed
    <2>3. ~HasCompound(t) => shown'[VarName(t)] = shown[VarName(t)]
      BY <1>6, <2>1, <2>2
    <2>4. QED
      BY <1>5, <1>6, <1>8, <2>1, <2>3
  <1>9. ASSUME NEW t \in DOMAIN world, t # s, IsPlain(t)
        PROVE  t[1] \in DOMAIN slot_values' /\ slot_values'[t[1]] = world'[t]
    <2>1. t[1] \in DOMAIN slot_values /\ slot_values[t[1]] = world[t] /\ IsStored(t)
      BY <1>9 DEF WrittenOK
    <2>2. t = <<t[1]>> /\ (IsPlain(s) => s = <<s[1]>>)
      BY <1>1, <1>9, <2>1, OthersNamed
    <2>3. IsPlain(s) => t[1] # s[1]
      BY <1>9, <2>2
    <2>4. QED
      BY <1>1, <1>5, <1>9, <2>1, <2>3 DEF With
  <1>10. IsPlain(s) => s[1] \in DOMAIN slot_values' /\ slot_values'[s[1]] = v
    BY <1>1 DEF With
  <1>11. ASSUME NEW t \in DOMAIN world'
         PROVE  /\ IsStored(t)'
                /\ VarName(t)' \in DOMAIN shown'
                /\ ~HasCompound(t)' => shown'[VarName(t)'] = world'[t]
                /\ IsPlain(t) => t[1] \in DOMAIN slot_values' /\ slot_values'[t[1]] = world'[t]
    <2>1. CASE t = s
      BY <1>1, <1>3, <1>4, <1>5, <1>6, <1>7, <1>10, <2>1
    <2>2. CASE t # s
      <3>1. t \in DOMAIN world /\ IsStored(t)
        BY <1>5, <2>2 DEF WrittenOK
      <3>2. QED
        BY <1>3, <1>4, <1>8, <1>9, <2>2, <3>1
    <2>3. QED
      BY <2>1, <2>2
  <1>12. WrittenOK'
    BY <1>11 DEF WrittenOK
  <1>13. QED
    BY <1>2, <1>12

\* ... and brings the snapshot of the compound it is in up to date, but no other.
LEMMA StoreSnapshots ==
    ASSUME WellFormedLayout, KeysDiffer, NamesOK, WrittenOK, SnapshotsOK, Store
    PROVE  SnapshotsOK'
  <1>1. PICK s, v : StoreAt(s, v)
    BY StoreDoes
  <1> USE DEF StoreAt
  <1>2. SUFFICES ASSUME NEW k \in Entries, CompoundWith(<<Layout[k].slot>>) # {},
                        Whole(k) \in DOMAIN shown'
                 PROVE  shown'[Whole(k)] = CompoundValue(Layout[k], slot_values')
    BY DEF SnapshotsOK, Snapshots, Whole
  <1>3. /\ Layout[k].encoding = "inplace" /\ Layout[k].size > 1
        /\ Layout[k].members # <<>> \/ Layout[k].elem > 0
    <2>1. PICK j \in CompoundWith(<<Layout[k].slot>>) : TRUE
      BY <1>2
    <2>2. j = k
      BY LayoutEntry, CompoundOwner
    <2>3. QED
      BY <2>1, <2>2 DEF CompoundWith
  <1>4. CASE s \in Range(k)
    <2>1. k \in CompoundWith(s)
      BY <1>3, <1>4 DEF CompoundWith
    <2>2. \A e \in CompoundWith(s) : e = k
      BY <1>4, CompoundOwner
    <2>3. PICK e \in CompoundWith(s) :
             shown'[Whole(e)] = CompoundValue(Layout[e], slot_values')
      BY <1>1, <2>1, StoreShows
    <2>4. QED
      BY <2>2, <2>3
  <1>5. CASE s \notin Range(k)
    <2>1. VarName(s) # Whole(k)
      <3>1. IsName(s, VarName(s))
        BY <1>1, SlotNamed
      <3>2. <<Layout[k].slot>> \in Range(k)
        BY LayoutEntry
      <3>3. QED
        BY <1>5, <3>1, <3>2, WholeName DEF Whole
    <2>2. ASSUME NEW e \in CompoundWith(s) PROVE Whole(e) # Whole(k)
      <3>1. e \in Entries /\ e # k
        BY <1>5 DEF CompoundWith
      <3>2. Layout[e].label # Layout[k].label
        BY <3>1, LabelsDiffer
      <3>3. QED
        BY <3>2, NameParts DEF Whole
    <2>3. Whole(k) \in DOMAIN shown /\ shown'[Whole(k)] = shown[Whole(k)]
      <3>1. CASE CompoundWith(s) = {}
        <4>1. /\ DOMAIN shown' = DOMAIN shown \cup {VarName(s)}
              /\ \A y \in DOMAIN shown : y # VarName(s) => shown'[y] = shown[y]
          BY <1>1, <3>1, StoreShows
        <4>2. QED
          BY <1>2, <2>1, <4>1
      <3>2. CASE CompoundWith(s) # {}
        <4>1. PICK e \in CompoundWith(s) :
                 /\ DOMAIN shown' = DOMAIN shown \cup {VarName(s), Whole(e)}
                 /\ \A y \in DOMAIN shown :
                       y # VarName(s) /\ y # Whole(e) => shown'[y] = shown[y]
          BY <1>1, <3>2, StoreShows
        <4>2. QED
          BY <1>2, <2>1, <2>2, <4>1
      <3>3. QED
        BY <3>1, <3>2
    <2>4. shown[Whole(k)] = CompoundValue(Layout[k], slot_values)
      BY <1>2, <2>3 DEF SnapshotsOK, Snapshots, Whole
    <2>5. ASSUME NEW n, <<n>> \in Range(k)
          PROVE  /\ n \in DOMAIN slot_values' <=> n \in DOMAIN slot_values
                 /\ n \in DOMAIN slot_values' => slot_values'[n] = slot_values[n]
      <3>1. IsPlain(s) => n # s[1]
        <4>1. IsPlain(s) => s = <<s[1]>>
          BY <1>1, StoredShape
        <4>2. QED
          BY <1>5, <2>5, <4>1
      <3>2. QED
        BY <1>1, <3>1 DEF With
    <2>6. CompoundValue(Layout[k], slot_values') = CompoundValue(Layout[k], slot_values)
      <3> DEFINE w == slot_values'
      <3> HIDE DEF w
      <3>1. \A n : <<n>> \in Range(k) =>
                     /\ n \in DOMAIN w <=> n \in DOMAIN slot_values
                     /\ n \in DOMAIN w => w[n] = slot_values[n]
        BY <2>5 DEF w
      <3>2. CompoundValue(Layout[k], w) = CompoundValue(Layout[k], slot_values)
        BY <3>1, CompoundValueFrame
      <3>3. QED
        BY <3>2 DEF w
    <2>7. QED
      BY <2>3, <2>4, <2>6
  <1>6. QED
    BY <1>4, <1>5

-----------------------------------------------------------------------------
(* The owners of names. *)

\* The slots computed: known are the elements whose keys are words.
LEMMA LongOwner ==
    ASSUME WellFormedLayout, NamesOK, NEW s \in Seq(Int), Len(s) >= 2, IsStored(s)
    PROVE  IF \E k \in Entries : IsKnown(k, s)
           THEN \E k \in Entries : Owns(k, s) /\ VarName(s).var = Layout[k].label
           ELSE VarName(s) = Raw(s)
  <1>1. \A k \in Entries : s \notin Range(k)
    BY LongSlot
  <1>2. \A k \in Entries : IsKnown(k, s) <=> k \in Mappings /\ WordPath(k, s)
    BY <1>1 DEF IsKnown, WordPath
  <1>3. CASE s \in DOMAIN names
    <2>1. PICK k \in Mappings : WordPath(k, s) /\ VarName(s) = ElementName(k, s)
      BY <1>3, LongNamed DEF IsKeyName
    <2>2. k \in Entries /\ VarName(s).var = Layout[k].label
      BY <2>1 DEF ElementName, Name, Mappings
    <2>3. Owns(k, s)
      <3>1. s[1] = Layout[k].slot
        BY <2>1 DEF WordPath, IsElement
      <3>2. Layout[k].slot \in Nat /\ Layout[k].size \in Nat \ {0}
        BY <2>2, LayoutEntry
      <3>3. QED
        BY <3>1, <3>2 DEF Owns
    <2>4. QED
      BY <1>2, <2>1, <2>2, <2>3
  <1>4. CASE s \notin DOMAIN names
    <2>1. ASSUME NEW k \in Mappings, WordPath(k, s) PROVE FALSE
      <3>1. Len(s) \in 2..Len(s) /\ s[Len(s)] \in Keys
        BY <2>1, ElementParts DEF WordPath
      <3>2. ~IsFar(s)
        BY <3>1, StorageAssumption DEF IsFar
      <3>3. s \in hashed
        BY <1>1, <3>2 DEF IsStored
      <3>4. QED
        BY <1>4, <2>1, <3>3 DEF NamesOK
    <2>2. VarName(s) = Raw(s)
      BY <1>4, LongNamed
    <2>3. QED
      BY <1>2, <2>1, <2>2
  <1>5. QED
    BY <1>3, <1>4

\* The slots of variables: known are those that a lookup finds.
LEMMA PlainOwner ==
    ASSUME WellFormedLayout, NEW s, s \notin DOMAIN names, s = <<s[1]>>, IsPlain(s),
           \E k \in Entries \ Mappings : s \in Range(k)
    PROVE  IF \E k \in Entries : IsKnown(k, s)
           THEN \E k \in Entries : Owns(k, s) /\ VarName(s).var = Layout[k].label
           ELSE VarName(s) = Raw(s)
  <1> DEFINE n == s[1]
             found == Resolved(s) # {} \/ StructWith(s) # {} \/ ArrayWith(s) # {}
  <1>1. IF found THEN IsPlainName(n, VarName(s)) ELSE VarName(s) = Raw(s)
    <2> HIDE DEF n
    <2>1. s = <<n>> /\ <<n>> \notin DOMAIN names
      BY DEF n
    <2>2. IF Resolved(<<n>>) = {} /\ StructWith(<<n>>) = {} /\ ArrayWith(<<n>>) = {}
          THEN VarName(<<n>>) = Raw(<<n>>)
          ELSE IsPlainName(n, VarName(<<n>>))
      BY <2>1, PlainNamed
    <2>3. QED
      BY <2>1, <2>2
  <1>2. PICK i \in Entries \ Mappings : s \in Range(i)
    OBVIOUS
  <1>3. ASSUME NEW k \in Entries, IsKnown(k, s) PROVE found
    <2>1. k \notin Mappings
      <3>1. ASSUME k \in Mappings PROVE IsElement(k, s)
        BY <1>3, <3>1 DEF IsKnown
      <3>2. QED
        BY <3>1 DEF IsElement, IsPlain
    <2>2. /\ s \in Range(k)
          /\ \/ n = Layout[k].slot
             \/ Layout[k].elem > 0
             \/ \E m \in 1..Len(Layout[k].members) :
                   n = Layout[k].slot + Layout[k].members[m]
      BY <1>3, <2>1 DEF IsKnown
    <2>3. CASE n = Layout[k].slot
      BY <2>3 DEF Resolved
    <2>4. CASE n # Layout[k].slot
      <3>1. Layout[k].encoding = "inplace"
        <4>1. <<n>> \in Range(k)
          BY <2>2
        <4>2. /\ n \in Nat /\ Layout[k].slot <= n
              /\ n < Layout[k].slot + Layout[k].size
              /\ Layout[k].slot \in Nat /\ Layout[k].size \in Nat
          BY <4>1, LayoutEntry
        <4>3. Layout[k].size # 1
          BY <2>4, <4>2
        <4>4. QED
          BY <4>3, LayoutEntry
      <3>2. CASE Layout[k].elem > 0
        BY <2>2, <3>1, <3>2 DEF ArrayWith
      <3>3. ASSUME NEW m \in 1..Len(Layout[k].members),
                   n = Layout[k].slot + Layout[k].members[m]
            PROVE  found
        <4>1. m <= Len(Layout[k].members)
          BY LayoutEntry
        <4>2. s = <<Layout[k].slot + Layout[k].members[m]>>
          BY <3>3
        <4>3. HasMember(k, m, s)
          BY <3>1, <4>1, <4>2 DEF HasMember
        <4>4. k \in StructWith(s)
          BY <4>3 DEF StructWith
        <4>5. QED
          BY <4>4
      <3>4. QED
        BY <2>2, <2>4, <3>2, <3>3
    <2>5. QED
      BY <2>3, <2>4
  <1>4. ASSUME found PROVE \E k \in Entries : IsKnown(k, s)
    <2>1. ASSUME NEW k \in Resolved(s) PROVE IsKnown(k, s)
      <3>1. k \in Entries /\ s = <<Layout[k].slot>> /\ s \in Range(k)
        BY LayoutEntry DEF Resolved
      <3>2. k \notin Mappings
        BY <1>2, <3>1, MappingSlot
      <3>3. QED
        BY <3>1, <3>2 DEF IsKnown
    <2>2. ASSUME NEW k \in StructWith(s) PROVE IsKnown(k, s)
      <3>1. PICK m \in 1..Len(Layout[k].members) : HasMember(k, m, s)
        BY DEF StructWith
      <3>2. k \in Entries /\ k \notin Mappings
        BY <3>1 DEF StructWith, HasMember, Mappings
      <3>3. <<n>> \in Range(k) /\ n = Layout[k].slot + Layout[k].members[m]
        <4> HIDE DEF n
        <4>1. HasMember(k, m, <<n>>)
          BY <3>1 DEF n
        <4>2. QED
          BY <3>2, <4>1, MemberSlot
      <3>4. QED
        BY <3>2, <3>3 DEF IsKnown
    <2>3. ASSUME NEW k \in ArrayWith(s) PROVE IsKnown(k, s)
      BY DEF ArrayWith, IsKnown, Mappings
    <2>4. QED
      BY <1>4, <2>1, <2>2, <2>3 DEF Resolved, StructWith, ArrayWith
  <1>5. ASSUME IsPlainName(n, VarName(s))
        PROVE  \E k \in Entries : Owns(k, s) /\ VarName(s).var = Layout[k].label
    <2> DEFINE name == VarName(s)
    <2> HIDE DEF name
    <2>1. IsPlainName(n, name)
      BY <1>5 DEF name
    <2>2. PICK k \in Entries : <<n>> \in Range(k) /\ name.var = Layout[k].label
      BY <2>1 DEF IsPlainName, Name
    <2>3. Owns(k, s)
      <3> HIDE DEF n
      <3>1. /\ n \in Nat /\ Layout[k].slot <= n /\ n < Layout[k].slot + Layout[k].size
            /\ Layout[k].slot \in Nat /\ Layout[k].size \in Nat
        BY <2>2, LayoutEntry
      <3>2. n \in Layout[k].slot .. Layout[k].slot + Layout[k].size - 1
        BY <3>1
      <3>3. QED
        BY <3>2 DEF Owns, n
    <2>4. QED
      BY <2>2, <2>3 DEF name
  <1>6. QED
    BY <1>1, <1>3, <1>4, <1>5

-----------------------------------------------------------------------------
(* Theorems. *)

\* A recording starts with nothing named, written or shown.
LEMMA InitNames == Init => NamesOK /\ WrittenOK /\ SnapshotsOK
  BY DEF Init, NamesOK, WrittenOK, SnapshotsOK, Snapshots, Empty

\* The invariant, for every layout a compiler gives and every order of hashes
\* and writes.
LEMMA NamesInvariant ==
    ASSUME WellFormedLayout, KeysDiffer
    PROVE  Spec => [](NamesOK /\ WrittenOK /\ SnapshotsOK)
  <1>1. NamesOK /\ WrittenOK /\ SnapshotsOK /\ [Next]_vars
            => (NamesOK /\ WrittenOK /\ SnapshotsOK)'
    <2> SUFFICES ASSUME NamesOK, WrittenOK, SnapshotsOK, [Next]_vars
                 PROVE  (NamesOK /\ WrittenOK /\ SnapshotsOK)'
      OBVIOUS
    <2>1. CASE Hash
      BY <2>1, HashKept
    <2>2. CASE Store
      BY <2>2, StoreShown, StoreSnapshots
    <2>3. CASE UNCHANGED vars
      BY <2>3 DEF vars, NamesOK, WrittenOK, SnapshotsOK, Snapshots, VarName, HasCompound, IsStored
    <2>4. QED
      BY <2>1, <2>2, <2>3 DEF Next
  <1>2. QED
    BY <1>1, InitNames, PTL DEF Spec

\* Every slot that is written and that the layout lets the code know is named
\* after the variable it belongs to, in the middle of structs, arrays and nested
\* mappings too: no lookup takes a slot from the variable that owns it.  Every
\* other slot is named by its number, whatever the transaction hashed before.
THEOREM NamesAreOwners ==
    ASSUME WellFormedLayout, KeysDiffer
    PROVE  Spec => []NamedByOwner
  <1>1. NamesOK /\ WrittenOK => NamedByOwner
    <2> SUFFICES ASSUME NamesOK, NEW s, IsStored(s)
                 PROVE  IF \E k \in Entries : IsKnown(k, s)
                        THEN \E k \in Entries : Owns(k, s) /\ VarName(s).var = Layout[k].label
                        ELSE VarName(s) = Raw(s)
      BY DEF NamedByOwner, WrittenOK, Raw
    <2>1. CASE s \in Seq(Int) /\ Len(s) >= 2 /\ ~IsPlain(s)
      BY <2>1, LongOwner
    <2>2. CASE /\ \E k \in Entries \ Mappings : s \in Range(k)
               /\ s \notin DOMAIN names /\ IsPlain(s) /\ s = <<s[1]>>
      BY <2>2, PlainOwner
    <2>3. QED
      BY <2>1, <2>2, StoredShape
  <1>2. QED
    BY <1>1, NamesInvariant, PTL

\* What is carried forward under the name of a slot is what the slot holds: no
\* later write to another slot, of whatever variable, lands under that name.
THEOREM ShownIsStored ==
    ASSUME WellFormedLayout, KeysDiffer
    PROVE  Spec => []ShownFollowsStorage
  <1>1. WrittenOK => ShownFollowsStorage
    BY DEF WrittenOK, ShownFollowsStorage
  <1>2. QED
    BY <1>1, NamesInvariant, PTL

\* A snapshot holds what each slot of its compound holds, of those the frame has
\* written, however its writes were ordered.
THEOREM SnapshotsAreStored ==
    ASSUME WellFormedLayout, KeysDiffer
    PROVE  Spec => []SnapshotFollowsStorage
  <1>1. WrittenOK /\ SnapshotsOK => SnapshotFollowsStorage
    <2> SUFFICES ASSUME WrittenOK, SnapshotsOK, NEW k \in Snapshots
                 PROVE  LET e == Layout[k]
                            snapshot == shown[Name(e.label, "whole", <<>>)]
                        IN  \A n \in 1..Len(snapshot) :
                               SlotAt(e, n) \in DOMAIN world => snapshot[n] = world[SlotAt(e, n)]
      BY DEF SnapshotFollowsStorage
    <2> DEFINE e == Layout[k]
               snapshot == shown[Name(e.label, "whole", <<>>)]
               At(n) == IF n \in DOMAIN slot_values THEN slot_values[n] ELSE 0
    <2>1. snapshot = CompoundValue(e, slot_values)
      BY DEF SnapshotsOK
    <2>2. e.members \in Seq(Nat) /\ e.slot \in Nat /\ e.size \in Nat
      BY LayoutEntry DEF Snapshots
    <2>3. ASSUME NEW n, <<n>> \in DOMAIN world PROVE At(n) = world[<<n>>]
      <3>1. IsPlain(<<n>>) /\ <<n>>[1] = n
        BY DEF IsPlain
      <3>2. n \in DOMAIN slot_values /\ slot_values[n] = world[<<n>>]
        BY <2>3, <3>1 DEF WrittenOK
      <3>3. QED
        BY <3>2
    <2>4. CASE e.members # <<>>
      <3>1. snapshot = [m \in 1..Len(e.members) |-> At(e.slot + e.members[m])]
        BY <2>1, <2>4 DEF CompoundValue
      <3> HIDE DEF snapshot, e, At
      <3>2. Len(snapshot) = Len(e.members)
        BY <2>2, <3>1
      <3>3. ASSUME NEW n \in 1..Len(snapshot), SlotAt(e, n) \in DOMAIN world
            PROVE  snapshot[n] = world[SlotAt(e, n)]
        <4>1. SlotAt(e, n) = <<e.slot + e.members[n]>>
          BY <2>4 DEF SlotAt
        <4>2. snapshot[n] = At(e.slot + e.members[n])
          BY <3>1, <3>2, <3>3
        <4>3. QED
          BY <2>3, <3>3, <4>1, <4>2
      <3>4. QED
        BY <3>3 DEF snapshot, e
    <2>5. CASE e.members = <<>>
      <3>1. snapshot = [m \in 1..e.size |-> At(e.slot + m - 1)]
        BY <2>1, <2>5 DEF CompoundValue
      <3> HIDE DEF snapshot, e, At
      <3>2. Len(snapshot) = e.size
        BY <2>2, <3>1
      <3>3. ASSUME NEW n \in 1..Len(snapshot), SlotAt(e, n) \in DOMAIN world
            PROVE  snapshot[n] = world[SlotAt(e, n)]
        <4>1. SlotAt(e, n) = <<e.slot + n - 1>>
          BY <2>2, <2>5, <3>2, <3>3 DEF SlotAt
        <4>2. snapshot[n] = At(e.slot + n - 1)
          BY <3>1, <3>2, <3>3
        <4>3. QED
          BY <2>3, <3>3, <4>1, <4>2
      <3>4. QED
        BY <3>3 DEF snapshot, e
    <2>6. QED
      BY <2>4, <2>5
  <1>2. QED
    BY <1>1, NamesInvariant, PTL

=============================================================================
