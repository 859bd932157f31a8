---------------------------- MODULE HostListProofs -----------------------------
(***************************************************************************)
(* What the operations on the list of saved PCs return, for every list:    *)
(* what the proofs about the launcher and about merge_duplicates stand on. *)
(* Natural numbers have a least element, which is all the induction they   *)
(* need.                                                                   *)
(***************************************************************************)
EXTENDS HostList, FiniteSetTheorems, SequenceTheorems, WellFoundedInduction, TLAPS

LEMMA LeastElement ==
  ASSUME NEW T, T \subseteq Nat, T # {}
  PROVE  \E x \in T : \A y \in T : x <= y
<1>1. IsWellFoundedOn(OpToRel(<, Nat), Nat)
  BY NatLessThanWellFounded
<1>2. PICK x \in T : \A y \in T : ~(<<y, x>> \in OpToRel(<, Nat))
  BY <1>1, WFMin
<1>3. ASSUME NEW y \in T PROVE x <= y
  <2>1. x \in Nat /\ y \in Nat
    OBVIOUS
  <2>2. ~(y < x)
    BY <1>2, <2>1 DEF OpToRel
  <2> QED
    BY <2>1, <2>2
<1> QED
  BY <1>3

LEMMA PlacesOfKept ==
  ASSUME NEW n \in Nat, NEW kept, kept \subseteq 1..n
  PROVE  /\ IsFiniteSet(kept) /\ Cardinality(kept) \in Nat /\ Cardinality(kept) <= n
         /\ \A i \in kept : NewPlace(kept, i) \in 1..Cardinality(kept)
         /\ \A i, j \in kept : i < j => NewPlace(kept, i) < NewPlace(kept, j)
         /\ \A k \in 1..Cardinality(kept) : \E i \in kept : NewPlace(kept, i) = k
<1> DEFINE below(i) == {j \in kept : j <= i}
           c == Cardinality(kept)
<1>1. IsFiniteSet(1..n) /\ Cardinality(1..n) = n
  <2>1. 1 \in Int /\ n \in Int
    OBVIOUS
  <2>2. IsFiniteSet(1..n) /\ Cardinality(1..n) = IF 1 > n THEN 0 ELSE n - 1 + 1
    BY <2>1, FS_Interval
  <2> QED
    BY <2>2
<1>2. IsFiniteSet(kept) /\ c \in Nat /\ c <= n
  BY <1>1, FS_Subset, FS_CardinalityType
<1>3. ASSUME NEW i \in kept
      PROVE  IsFiniteSet(below(i)) /\ Cardinality(below(i)) \in 1..c
  <2>1. IsFiniteSet(below(i)) /\ Cardinality(below(i)) \in Nat /\ Cardinality(below(i)) <= c
    BY <1>2, FS_Subset, FS_CardinalityType
  <2>2. i \in below(i)
    OBVIOUS
  <2>3. Cardinality(below(i)) # 0
    BY <2>1, <2>2, FS_EmptySet
  <2> QED
    BY <1>2, <2>1, <2>3
<1>4. ASSUME NEW i \in kept, NEW j \in kept, i < j
      PROVE  Cardinality(below(i)) < Cardinality(below(j))
  <2>a. \A k \in kept : k \in Int
    OBVIOUS
  <2>b. j <= j /\ ~(j <= i) /\ \A k \in kept : k <= i => k <= j
    BY <1>4, <2>a
  <2>1. below(i) \subseteq below(j) /\ j \in below(j) /\ j \notin below(i)
    BY <1>4, <2>b
  <2>2. IsFiniteSet(below(j)) /\ Cardinality(below(i)) \in Nat /\ Cardinality(below(j)) \in Nat
    BY <1>2, <1>3
  <2> HIDE DEF below
  <2>3. /\ Cardinality(below(i)) <= Cardinality(below(j))
        /\ Cardinality(below(i)) # Cardinality(below(j))
    BY <2>1, <2>2, FS_Subset
  <2> QED
    BY <2>2, <2>3
<1> DEFINE f == [i \in kept |-> Cardinality(below(i))]
<1>5. f \in [kept -> 1..c]
  BY <1>3
<1>6. \A i, j \in kept : f[i] = f[j] => i = j
  <2>1. ASSUME NEW i \in kept, NEW j \in kept, i # j PROVE f[i] # f[j]
    <3>1. i < j \/ j < i
      BY <2>1
    <3>2. f[i] = Cardinality(below(i)) /\ f[j] = Cardinality(below(j))
      OBVIOUS
    <3>3. Cardinality(below(i)) \in Nat /\ Cardinality(below(j)) \in Nat
      BY <1>2, <1>3
    <3> HIDE DEF f, below
    <3> QED
      BY <3>1, <3>2, <3>3, <1>4
  <2> QED
    BY <2>1
<1>7. IsFiniteSet(1..c) /\ Cardinality(1..c) = c
  <2>1. 1 \in Int /\ c \in Int
    BY <1>2
  <2>2. IsFiniteSet(1..c) /\ Cardinality(1..c) = IF 1 > c THEN 0 ELSE c - 1 + 1
    BY <2>1, FS_Interval
  <2> QED
    BY <1>2, <2>2
<1>8. f \in Injection(kept, 1..c)
  BY <1>5, <1>6 DEF Injection, IsInjective
<1>9. f \in Surjection(kept, 1..c)
  BY <1>2, <1>7, <1>8, FS_Injection
<1>10. \A k \in 1..c : \E i \in kept : f[i] = k
  BY <1>9 DEF Surjection
<1> QED
  BY <1>2, <1>3, <1>4, <1>10 DEF NewPlace

\* What is picked, and from where.
PickedWell(S, s, kept) ==
  LET p == Picked(s, kept)
      c == Cardinality(kept)
  IN  /\ c \in Nat /\ c <= Len(s)
      /\ p \in Seq(S) /\ Len(p) = c
      /\ \A k \in 1..c : \E i \in kept : NewPlace(kept, i) = k /\ p[k] = s[i]
      /\ \A i \in kept : NewPlace(kept, i) \in 1..c /\ p[NewPlace(kept, i)] = s[i]

LEMMA PickedFacts ==
  ASSUME NEW S, NEW s \in Seq(S), NEW kept, kept \subseteq 1..Len(s)
  PROVE  PickedWell(S, s, kept)
<1> DEFINE c == Cardinality(kept)
           at(k) == CHOOSE i \in kept : NewPlace(kept, i) = k
           p == Picked(s, kept)
<1>0. Len(s) \in Nat
  BY LenProperties
<1>1. /\ c \in Nat /\ c <= Len(s)
      /\ \A i \in kept : NewPlace(kept, i) \in 1..c
      /\ \A i, j \in kept : i < j => NewPlace(kept, i) < NewPlace(kept, j)
      /\ \A k \in 1..c : \E i \in kept : NewPlace(kept, i) = k
  BY <1>0, PlacesOfKept
<1>2. \A k \in 1..c : at(k) \in kept /\ NewPlace(kept, at(k)) = k
  BY <1>1
<1>3. p = [k \in 1..c |-> s[at(k)]]
  BY DEF Picked
<1>4. \A k \in 1..c : s[at(k)] \in S
  <2>1. \A i \in 1..Len(s) : s[i] \in S
    BY ElementOfSeq
  <2> QED
    BY <1>2, <2>1
<1>5. p \in Seq(S) /\ Len(p) = c
  <2>1. p \in [1..c -> S]
    BY <1>3, <1>4
  <2> HIDE DEF p, c
  <2>2. p \in Seq(S)
    BY <1>1, <2>1, IsASeq
  <2> QED
    BY <1>1, <2>1, <2>2, LenProperties
<1>6. ASSUME NEW i \in kept PROVE at(NewPlace(kept, i)) = i
  <2> DEFINE j == at(NewPlace(kept, i))
  <2>1. j \in kept /\ NewPlace(kept, j) = NewPlace(kept, i) /\ NewPlace(kept, i) \in 1..c
    BY <1>1, <1>2
  <2>a. \A q \in 1..Len(s) : q \in Int
    OBVIOUS
  <2>2. i \in Int /\ j \in Int
    BY <2>1, <2>a
  <2> HIDE DEF j
  <2>3. ~(i < j) /\ ~(j < i)
    BY <1>1, <2>1
  <2> QED
    BY <2>2, <2>3 DEF j
<1> HIDE DEF p, at
<1>7. \A k \in 1..c : at(k) \in kept /\ NewPlace(kept, at(k)) = k /\ p[k] = s[at(k)]
  BY <1>2, <1>3
<1>8. \A i \in kept : NewPlace(kept, i) \in 1..c /\ p[NewPlace(kept, i)] = s[i]
  BY <1>1, <1>6, <1>7
<1> QED
  BY <1>1, <1>5, <1>7, <1>8 DEF p, PickedWell

-----------------------------------------------------------------------------
(* The list of saved PCs. *)

LEMMA HostsOf ==
  ASSUME NEW list \in ListType
  PROVE  /\ list.hosts \in Seq(Hosts) /\ Len(list.hosts) \in Nat /\ list.selected \in Nat
         /\ \A i \in Places(list) : list.hosts[i] \in Hosts
<1>1. list.hosts \in Seq(Hosts) /\ list.selected \in Nat
  BY DEF ListType
<1> QED
  BY <1>1, LenProperties, ElementOfSeq DEF Places

\* merge_duplicates: the entry at `index` stays and is found at MergedPlace; the
\* selected PC stays selected, or the entry that is the same PC is.
LEMMA MergedFacts ==
  ASSUME NEW list \in ListType, NEW index \in Places(list), HasSelected(list)
  PROVE  LET m == Merged(list, index)
             p == MergedPlace(list, index)
         IN  /\ m \in ListType /\ Len(m.hosts) <= Len(list.hosts)
             /\ p \in Places(m) /\ m.hosts[p] = list.hosts[index]
             /\ HasSelected(m)
             /\ \/ SelectedHost(m) = SelectedHost(list)
                \/ /\ SelectedHost(m) = list.hosts[index]
                   /\ SameHost(SelectedHost(list), list.hosts[index])
             /\ \A k \in Places(m) : \E i \in Kept(list, index) :
                  m.hosts[k] = list.hosts[i] /\ NewPlace(Kept(list, index), i) = k
<1> DEFINE kept == Kept(list, index)
           m == Merged(list, index)
           p == MergedPlace(list, index)
           heir == IF list.selected \in kept THEN list.selected ELSE index
<1>1. /\ list.hosts \in Seq(Hosts) /\ Len(list.hosts) \in Nat /\ list.selected \in Places(list)
      /\ index \in kept /\ kept \subseteq 1..Len(list.hosts)
  BY HostsOf DEF Kept, Places, HasSelected
<1> DEFINE picked == Picked(list.hosts, kept)
<1>2. /\ Cardinality(kept) \in Nat /\ Cardinality(kept) <= Len(list.hosts)
      /\ picked \in Seq(Hosts) /\ Len(picked) = Cardinality(kept)
      /\ \A k \in 1..Cardinality(kept) :
           \E i \in kept : NewPlace(kept, i) = k /\ picked[k] = list.hosts[i]
      /\ \A i \in kept : NewPlace(kept, i) \in 1..Cardinality(kept)
                         /\ picked[NewPlace(kept, i)] = list.hosts[i]
  <2> DEFINE s == list.hosts
  <2>1. s \in Seq(Hosts) /\ kept \subseteq 1..Len(s)
    BY <1>1
  <2>2. PickedWell(Hosts, s, kept)
    <3> HIDE DEF s, kept
    <3> QED
      BY <2>1, PickedFacts
  <2> QED
    BY <2>2 DEF PickedWell
<1>3. heir \in kept
  BY <1>1
<1>4. m = [hosts |-> picked, selected |-> NewPlace(kept, heir)]
  BY DEF Merged
<1>5. p = NewPlace(kept, index)
  BY DEF MergedPlace
<1>6. \/ list.hosts[heir] = list.hosts[list.selected]
      \/ /\ heir = index
         /\ SameHost(list.hosts[list.selected], list.hosts[index])
  BY <1>1 DEF Kept, Places
<1> HIDE DEF m, p, kept, heir, picked
<1>7. /\ m.hosts = picked /\ m.selected = NewPlace(kept, heir)
      /\ Places(m) = 1..Cardinality(kept)
  BY <1>2, <1>4 DEF Places
<1>8. m \in ListType
  BY <1>2, <1>3, <1>4 DEF ListType
<1>9. HasSelected(m) /\ SelectedHost(m) = list.hosts[heir]
  BY <1>2, <1>3, <1>7 DEF HasSelected, SelectedHost
<1>10. p \in Places(m) /\ m.hosts[p] = list.hosts[index]
  BY <1>1, <1>2, <1>5, <1>7
<1>11. \A k \in Places(m) : \E i \in kept : m.hosts[k] = list.hosts[i] /\ NewPlace(kept, i) = k
  BY <1>2, <1>7
<1>12. Len(m.hosts) <= Len(list.hosts)
  BY <1>2, <1>7
<1> QED
  BY <1>6, <1>8, <1>9, <1>10, <1>11, <1>12 DEF m, p, kept, SelectedHost

\* Folding the twins of one entry leaves none, when the others had none.
LEMMA MergedNoTwins ==
  ASSUME NEW list \in ListType, NEW index \in Places(list), HasSelected(list),
         \A i, j \in Places(list) \ {index} : i # j => ~SameHost(list.hosts[i], list.hosts[j])
  PROVE  NoTwinsIn(Merged(list, index))
<1> DEFINE kept == Kept(list, index)
           m == Merged(list, index)
<1>1. \A k \in Places(m) : \E i \in kept : m.hosts[k] = list.hosts[i] /\ NewPlace(kept, i) = k
  BY MergedFacts
<1>2. \A i, j \in kept : i # j => ~SameHost(list.hosts[i], list.hosts[j])
  BY DEF Kept, SameHost
<1> HIDE DEF m, kept
<1>3. ASSUME NEW k \in Places(m), NEW l \in Places(m), k # l
      PROVE  ~SameHost(m.hosts[k], m.hosts[l])
  <2>1. PICK i \in kept : m.hosts[k] = list.hosts[i] /\ NewPlace(kept, i) = k
    BY <1>1
  <2>2. PICK j \in kept : m.hosts[l] = list.hosts[j] /\ NewPlace(kept, j) = l
    BY <1>1
  <2> QED
    BY <1>2, <1>3, <2>1, <2>2
<1> QED
  BY <1>3 DEF NoTwinsIn, m

LEMMA GreatestElement ==
  ASSUME NEW n \in Nat, NEW T, T \subseteq 1..n, T # {}
  PROVE  \E x \in T : \A y \in T : y <= x
<1> DEFINE D == {n - x : x \in T}
<1>0. \A x \in T : n - x \in Nat
  OBVIOUS
<1>1. D \subseteq Nat /\ D # {}
  <2>1. PICK x \in T : TRUE
    OBVIOUS
  <2>2. n - x \in D
    BY <2>1
  <2> QED
    BY <1>0, <2>2
<1>2. PICK d \in D : \A e \in D : d <= e
  BY <1>1, LeastElement
<1>3. PICK x \in T : d = n - x
  OBVIOUS
<1>4. ASSUME NEW y \in T PROVE y <= x
  <2>0. n - y \in D
    OBVIOUS
  <2> HIDE DEF D
  <2>1. n - x <= n - y
    BY <1>2, <1>3, <2>0
  <2>2. x \in Int /\ y \in Int /\ n \in Int
    OBVIOUS
  <2> QED
    BY <2>1, <2>2
<1> QED
  BY <1>3, <1>4

\* Which entry an address, a port or an identity stands for, or the next free
\* place; and what that entry says afterwards.
Targeted(list, addr, port, uid) ==
  LET i == UpsertTarget(list, addr, port, uid)
      h == UpsertedHost(list, i, addr, port, uid)
  IN  /\ i \in 1..Len(list.hosts) + 1
      /\ i \in Places(list) => Describes(list.hosts[i], addr, port, uid)
      /\ h \in Hosts
      /\ port # 0 => h.ep = [addr |-> addr, port |-> port]
      /\ uid # NoId => h.uid = uid
      /\ uid = NoId /\ i \in Places(list) => h = list.hosts[i]
      /\ uid = NoId /\ i \notin Places(list) => h.uid = NoId

LEMMA UpsertTargetFacts ==
  ASSUME NEW list \in ListType, NEW addr \in Addresses, NEW port \in Ports \cup {0},
         NEW uid \in Ids \cup {NoId}
  PROVE  Targeted(list, addr, port, uid)
<1> DEFINE i == UpsertTarget(list, addr, port, uid)
           h == UpsertedHost(list, i, addr, port, uid)
           known == {j \in Places(list) : Describes(list.hosts[j], addr, port, uid)}
           old == IF i \in Places(list) THEN list.hosts[i]
                  ELSE [ep |-> [addr |-> addr, port |-> DefaultPort], uid |-> NoId]
<1>1. /\ Len(list.hosts) \in Nat /\ \A j \in Places(list) : list.hosts[j] \in Hosts
  BY HostsOf
<1>2. i \in 1..Len(list.hosts) + 1 /\ (i \in Places(list) => i \in known)
  <2>0. i = IF known # {} THEN CHOOSE j \in known : \A k \in known : j <= k
                          ELSE Len(list.hosts) + 1
    BY DEF UpsertTarget
  <2>a. known \subseteq Places(list) /\ Places(list) = 1..Len(list.hosts)
    BY DEF Places
  <2> HIDE DEF i, known
  <2>1. CASE known # {}
    <3>1. known \subseteq Nat
      BY <1>1, <2>a
    <3>2. \E j \in known : \A k \in known : j <= k
      BY <2>1, <3>1, LeastElement
    <3>3. i \in known
      BY <2>0, <2>1, <3>2
    <3> QED
      BY <1>1, <2>a, <3>3
  <2>2. CASE known = {}
    <3>1. i = Len(list.hosts) + 1
      BY <2>0, <2>2
    <3> QED
      BY <1>1, <2>a, <3>1
  <2> QED
    BY <2>1, <2>2
<1>3. h = [ep |-> [addr |-> addr, port |-> IF port = 0 THEN old.ep.port ELSE port],
           uid |-> IF uid = NoId THEN old.uid ELSE uid]
  BY DEF UpsertedHost
<1>4. i \in Places(list) => Describes(list.hosts[i], addr, port, uid)
  BY <1>2
<1>5. old \in Hosts
  BY <1>1, HostListAssumption DEF Hosts, Endpoints
<1>6. i \in Places(list) => old = list.hosts[i]
  OBVIOUS
<1>7. i \notin Places(list) => old.uid = NoId
  OBVIOUS
<1> HIDE DEF i, h, old
<1>8. old.ep \in [addr : Addresses, port : Ports] /\ old.uid \in Ids \cup {NoId}
      /\ old = [ep |-> old.ep, uid |-> old.uid]
      /\ old.ep = [addr |-> old.ep.addr, port |-> old.ep.port] /\ old.ep.port \in Ports
  BY <1>5 DEF Hosts, Endpoints
<1>9. h \in Hosts
  BY <1>3, <1>8 DEF Hosts, Endpoints
<1>10. (port # 0 => h.ep = [addr |-> addr, port |-> port]) /\ (uid # NoId => h.uid = uid)
  BY <1>3
<1>11. ASSUME uid = NoId, i \in Places(list) PROVE h = list.hosts[i]
  <2>1. old.ep.addr = addr /\ port \in {0, old.ep.port}
    BY <1>4, <1>6, <1>11 DEF Describes
  <2>2. h = [ep |-> [addr |-> old.ep.addr, port |-> old.ep.port], uid |-> old.uid]
    BY <1>3, <1>11, <2>1
  <2> QED
    BY <1>6, <1>8, <1>11, <2>2
<1>12. uid = NoId /\ i \notin Places(list) => h.uid = NoId
  BY <1>3, <1>7
<1> QED
  BY <1>2, <1>4, <1>9, <1>10, <1>11, <1>12 DEF i, h, Targeted

-----------------------------------------------------------------------------
(* A list with one of its entries erased.                                  *)

\* Every place of a sequence is kept.
LEMMA AllKept ==
  ASSUME NEW S, NEW s \in Seq(S)
  PROVE  /\ \A i \in 1..Len(s) : NewPlace(1..Len(s), i) = i
         /\ Cardinality(1..Len(s)) = Len(s)
         /\ Picked(s, 1..Len(s)) = s
<1> DEFINE n == Len(s)
<1>0. n \in Nat
  BY LenProperties
<1>1. \A i \in 0..n : Cardinality(1..i) = i
  <2>1. ASSUME NEW i \in 0..n PROVE Cardinality(1..i) = i
    <3>1. 1 \in Int /\ i \in Int /\ i >= 0
      BY <1>0
    <3>2. Cardinality(1..i) = IF 1 > i THEN 0 ELSE i - 1 + 1
      BY <3>1, FS_Interval
    <3> QED
      BY <3>1, <3>2
  <2> QED
    BY <2>1
<1>2. \A i \in 1..n : NewPlace(1..n, i) = i
  <2>1. ASSUME NEW i \in 1..n PROVE NewPlace(1..n, i) = i
    <3>1. {j \in 1..n : j <= i} = 1..i
      BY <1>0
    <3>2. i \in 0..n
      BY <1>0
    <3>3. Cardinality({j \in 1..n : j <= i}) = i
      BY <1>1, <3>1, <3>2
    <3> QED
      BY <3>3 DEF NewPlace
  <2> QED
    BY <2>1
<1>3. Cardinality(1..n) = n
  <2>1. n \in 0..n
    BY <1>0
  <2> QED
    BY <1>1, <2>1
<1>4. Picked(s, 1..n) = s
  <2> DEFINE at(k) == CHOOSE i \in 1..n : NewPlace(1..n, i) = k
  <2>1. \A k \in 1..n : at(k) = k
    BY <1>2
  <2>2. Picked(s, 1..n) = [k \in 1..Cardinality(1..n) |-> s[at(k)]]
    BY DEF Picked
  <2> HIDE DEF at
  <2>3. Picked(s, 1..n) = [k \in 1..n |-> s[k]]
    BY <1>3, <2>1, <2>2
  <2>4. s = [k \in 1..n |-> s[k]]
    BY LenProperties
  <2> QED
    BY <2>3, <2>4
<1> QED
  BY <1>2, <1>3, <1>4

\* One place less: the places after it move up by one.
LEMMA PlacesWithout ==
  ASSUME NEW n \in Nat, NEW kept, kept \subseteq 1..n, NEW k \in kept
  PROVE  /\ Cardinality(kept \ {k}) = Cardinality(kept) - 1
         /\ \A i \in kept \ {k} :
              NewPlace(kept \ {k}, i) = IF k < i THEN NewPlace(kept, i) - 1 ELSE NewPlace(kept, i)
<1>1. IsFiniteSet(kept) /\ Cardinality(kept) \in Nat
  BY PlacesOfKept
<1>2. Cardinality(kept \ {k}) = Cardinality(kept) - 1
  BY <1>1, FS_RemoveElement
<1>3. ASSUME NEW i \in kept \ {k}
      PROVE  NewPlace(kept \ {k}, i) = IF k < i THEN NewPlace(kept, i) - 1 ELSE NewPlace(kept, i)
  <2> DEFINE below == {j \in kept : j <= i}
             fewer == {j \in kept \ {k} : j <= i}
  <2>0. k \in Int /\ i \in Int /\ k # i
    OBVIOUS
  <2>1. NewPlace(kept, i) = Cardinality(below) /\ NewPlace(kept \ {k}, i) = Cardinality(fewer)
    BY DEF NewPlace
  <2>2. CASE k < i
    <3>1. k \in below /\ fewer = below \ {k}
      BY <2>0, <2>2
    <3>2. IsFiniteSet(below)
      BY <1>1, FS_Subset
    <3> HIDE DEF below, fewer
    <3>3. Cardinality(fewer) = Cardinality(below) - 1
      BY <3>1, <3>2, FS_RemoveElement
    <3> QED
      BY <2>1, <2>2, <3>3
  <2>3. CASE ~(k < i)
    <3>1. fewer = below
      BY <2>0, <2>3
    <3> HIDE DEF below, fewer
    <3> QED
      BY <2>1, <2>3, <3>1
  <2> QED
    BY <2>2, <2>3
<1> QED
  BY <1>2, <1>3

\* Removing one entry of what was picked is picking the others.
LEMMA PickedWithout ==
  ASSUME NEW S, NEW s \in Seq(S), NEW kept, kept \subseteq 1..Len(s), NEW k \in kept
  PROVE  LET p == Picked(s, kept)
             d == NewPlace(kept, k)
         IN  Picked(s, kept \ {k}) = SubSeq(p, 1, d - 1) \o SubSeq(p, d + 1, Len(p))
<1> DEFINE p == Picked(s, kept)
           d == NewPlace(kept, k)
           rest == kept \ {k}
           q == Picked(s, rest)
           c == Cardinality(kept)
           left == SubSeq(p, 1, d - 1) \o SubSeq(p, d + 1, Len(p))
<1>0. Len(s) \in Nat /\ rest \subseteq 1..Len(s)
  BY LenProperties
<1>1. PickedWell(S, s, kept) /\ PickedWell(S, s, rest)
  <2> HIDE DEF rest
  <2> QED
    BY <1>0, PickedFacts
<1>2. /\ c \in Nat /\ p \in Seq(S) /\ Len(p) = c
      /\ \A i \in kept : NewPlace(kept, i) \in 1..c /\ p[NewPlace(kept, i)] = s[i]
  BY <1>1 DEF PickedWell
<1>3. /\ Cardinality(rest) = c - 1
      /\ \A i \in rest :
           NewPlace(rest, i) = IF k < i THEN NewPlace(kept, i) - 1 ELSE NewPlace(kept, i)
  BY <1>0, PlacesWithout
<1>4. /\ q \in Seq(S) /\ Len(q) = c - 1
      /\ \A j \in 1..c - 1 : \E i \in rest : NewPlace(rest, i) = j /\ q[j] = s[i]
  BY <1>1, <1>3 DEF PickedWell
<1>5. \A i \in rest : /\ i \in kept
                      /\ k < i => d < NewPlace(kept, i)
                      /\ ~(k < i) => NewPlace(kept, i) < d
  <2>1. \A i, j \in kept : i < j => NewPlace(kept, i) < NewPlace(kept, j)
    BY <1>0, PlacesOfKept
  <2>2. ASSUME NEW i \in rest PROVE i < k \/ k < i
    <3>1. \A j \in 1..Len(s) : j \in Int
      OBVIOUS
    <3>2. i \in Int /\ k \in Int /\ i # k
      BY <3>1
    <3> QED
      BY <3>2
  <2>3. \A i \in rest : ~(k < i) => i < k
    BY <2>2
  <2> QED
    BY <2>1, <2>3
<1> HIDE DEF q, rest, p, d, c
<1>6. d \in 1..c
  BY <1>2 DEF d
<1>7. /\ left \in Seq(S) /\ Len(left) = c - 1
      /\ \A j \in 1..c - 1 : left[j] = IF j < d THEN p[j] ELSE p[j + 1]
  <2>0. \A j \in 1..c : p[j] \in S
    BY <1>2, ElementOfSeq
  <2> DEFINE a == SubSeq(p, 1, d - 1)
             b == SubSeq(p, d + 1, Len(p))
  <2>1. /\ a \in Seq(S) /\ Len(a) = d - 1
        /\ \A j \in 1..d - 1 : a[j] = p[j]
    <3>1. \A j \in 1..d - 1 : p[j] \in S
      BY <1>2, <1>6, <2>0
    <3>2. 1 \in Int /\ d - 1 \in Int
      BY <1>2, <1>6
    <3>3. /\ a \in Seq(S) /\ Len(a) = IF 1 <= d - 1 THEN d - 1 - 1 + 1 ELSE 0
          /\ \A j \in 1..d - 1 - 1 + 1 : a[j] = p[1 + j - 1]
      BY <3>1, <3>2, SubSeqProperties
    <3> HIDE DEF a
    <3> QED
      BY <1>2, <1>6, <3>3
  <2>2. /\ b \in Seq(S) /\ Len(b) = c - d
        /\ \A j \in 1..c - d : b[j] = p[d + j]
    <3>1. \A j \in d + 1..Len(p) : p[j] \in S
      BY <1>2, <1>6, <2>0
    <3>2. d + 1 \in Int /\ Len(p) \in Int /\ Len(p) = c
      BY <1>2, <1>6
    <3>3. /\ b \in Seq(S) /\ Len(b) = IF d + 1 <= Len(p) THEN Len(p) - (d + 1) + 1 ELSE 0
          /\ \A j \in 1..Len(p) - (d + 1) + 1 : b[j] = p[d + 1 + j - 1]
      BY <3>1, <3>2, SubSeqProperties
    <3> HIDE DEF b
    <3> QED
      BY <1>2, <1>6, <3>2, <3>3
  <2> HIDE DEF a, b
  <2>3. /\ a \o b \in Seq(S) /\ Len(a \o b) = Len(a) + Len(b)
        /\ \A j \in 1..Len(a) + Len(b) : (a \o b)[j] = IF j <= Len(a) THEN a[j] ELSE b[j - Len(a)]
    BY <2>1, <2>2, ConcatProperties
  <2>4. left = a \o b
    BY DEF a, b
  <2> HIDE DEF left
  <2>5. ASSUME NEW j \in 1..c - 1 PROVE left[j] = IF j < d THEN p[j] ELSE p[j + 1]
    <3>1. left[j] = IF j <= d - 1 THEN a[j] ELSE b[j - (d - 1)]
      BY <1>2, <1>6, <2>1, <2>2, <2>3, <2>4
    <3>2. CASE j < d
      BY <1>2, <1>6, <2>1, <3>1, <3>2
    <3>3. CASE ~(j < d)
      <4>1. j - (d - 1) \in 1..c - d /\ d + (j - (d - 1)) = j + 1 /\ ~(j <= d - 1)
        BY <1>2, <1>6, <3>3
      <4> QED
        BY <2>2, <3>1, <3>3, <4>1
    <3> QED
      BY <3>2, <3>3
  <2> QED
    BY <1>2, <1>6, <2>1, <2>2, <2>3, <2>4, <2>5
<1> HIDE DEF left
<1>8. ASSUME NEW j \in 1..c - 1 PROVE q[j] = left[j]
  <2>1. PICK i \in rest : NewPlace(rest, i) = j /\ q[j] = s[i]
    BY <1>4
  <2>2. NewPlace(kept, i) \in 1..c /\ p[NewPlace(kept, i)] = s[i]
    BY <1>2, <1>5
  <2>3. CASE k < i
    <3>1. NewPlace(kept, i) = j + 1 /\ ~(j < d)
      BY <1>3, <1>5, <1>6, <2>1, <2>2, <2>3
    <3> QED
      BY <1>7, <2>1, <2>2, <3>1
  <2>4. CASE ~(k < i)
    <3>1. NewPlace(kept, i) = j /\ j < d
      BY <1>3, <1>5, <1>6, <2>1, <2>2, <2>4
    <3> QED
      BY <1>7, <2>1, <2>2, <3>1
  <2> QED
    BY <2>3, <2>4
<1>9. q = left
  <2>1. Len(q) = Len(left) /\ \A j \in 1..Len(q) : q[j] = left[j]
    BY <1>4, <1>7, <1>8
  <2> QED
    BY <1>4, <1>7, <2>1, SeqEqual
<1> QED
  BY <1>9 DEF q, left, p, d, rest
=============================================================================
