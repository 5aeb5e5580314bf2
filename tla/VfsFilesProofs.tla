---------------------------- MODULE VfsFilesProofs ----------------------------
(***************************************************************************)
(* Proofs about VfsRegistry and VfsFiles for every number of VFS objects   *)
(* and connections, and so for stacks of any height.                       *)
(***************************************************************************)
EXTENDS VfsFiles, SequenceTheorems, TLAPS

\* What is ever listed owns itself, for ever: SQLite's list, the wrappers and the
\* connections only refer to such objects, which is why nothing needs to count
\* them.  An object has its parent from its construction on.
Kept == registered \cup {Os}
Registry ==
  /\ Listed \subseteq Kept
  /\ \A c \in Connection : using[c] # Null => using[c] \in Kept
  /\ \A v \in Vfs : parent[v] # Null => parent[v] \in Kept
  /\ \A v \in held \cup registered : parent[v] # Null

\* An open descends through self-owning objects to the platform's VFS; layers exist
\* only on the way back and in an opened file.
Descent ==
  \A c \in Connection :
    /\ \A i \in DOMAIN frames[c] : frames[c][i] \in Kept
    /\ \A i \in DOMAIN frames[c] : frames[c][i] = Os => i = Len(frames[c])
    /\ found[c] => frames[c] # <<>> /\ \A i \in DOMAIN frames[c] : frames[c][i] # Os
    /\ using[c] = Null => frames[c] = <<>> /\ file[c] = <<>>

\* All layers below the outermost have what the URI said, and that one too until
\* the first PRAGMA.
Layers ==
  \A c \in Connection : \A i \in DOMAIN file[c] :
    i > 1 \/ Opening(c) => file[c][i].cipher = uri[c]

FilesInv == FilesTypeOK /\ Registry /\ DefaultExists /\ Descent /\ Layers

-----------------------------------------------------------------------------
(* SQLite's list.                                                           *)

\* A VFS that is taken off the list leaves the others where they are.
LEMMA Unlinked ==
  ASSUME TypeOK, IsInjective(vfsList), NEW v
  PROVE  /\ vfsUnlink(v) \in Seq(Vfs \cup {Os})
         /\ IsInjective(vfsUnlink(v))
         /\ Range(vfsUnlink(v)) = Listed \ {v}
<1>1. vfsList \in Seq(Vfs \cup {Os}) /\ DOMAIN vfsList = 1..Len(vfsList) /\ Len(vfsList) \in Nat
  BY DEF TypeOK
<1>2. CASE v \notin Listed
  BY <1>1, <1>2 DEF vfsUnlink, Listed
<1>3. CASE v \in Listed
  <2>1. PICK i \in 1..Len(vfsList) : vfsList[i] = v
    BY <1>1, <1>3 DEF Listed, Range
  <2>2. \A j \in 1..Len(vfsList) : vfsList[j] = v => j = i
    BY <1>1, <2>1 DEF IsInjective
  <2>3. i = CHOOSE k \in DOMAIN vfsList : vfsList[k] = v /\ \A j \in 1..k - 1 : vfsList[j] # v
    <3>1. \A j \in 1..i - 1 : vfsList[j] # v
      BY <1>1, <2>1, <2>2
    <3> QED
      BY <1>1, <2>1, <2>2, <3>1
  <2> DEFINE r == SubSeq(vfsList, 1, i - 1) \o SubSeq(vfsList, i + 1, Len(vfsList))
  <2>4. vfsUnlink(v) = r
    BY <1>3, <2>3 DEF vfsUnlink, RemoveAt
  <2>5. /\ r \in Seq(Vfs \cup {Os}) /\ Len(r) = Len(vfsList) - 1
        /\ \A k \in 1..Len(r) : r[k] = vfsList[IF k < i THEN k ELSE k + 1]
    <3> DEFINE a == SubSeq(vfsList, 1, i - 1)
               b == SubSeq(vfsList, i + 1, Len(vfsList))
    <3>1. /\ a \in Seq(Vfs \cup {Os}) /\ Len(a) = i - 1
          /\ \A k \in 1..i - 1 : a[k] = vfsList[k]
      BY <1>1, <2>1
    <3>2. /\ b \in Seq(Vfs \cup {Os}) /\ Len(b) = Len(vfsList) - i
          /\ \A k \in 1..Len(vfsList) - i : b[k] = vfsList[i + k]
      <4>1. \A k \in i + 1..Len(vfsList) : vfsList[k] \in Vfs \cup {Os}
        BY <1>1, <2>1
      <4>2. /\ b \in Seq(Vfs \cup {Os})
            /\ Len(b) = IF i + 1 <= Len(vfsList) THEN Len(vfsList) - (i + 1) + 1 ELSE 0
            /\ \A k \in 1..Len(vfsList) - (i + 1) + 1 : b[k] = vfsList[i + 1 + k - 1]
        BY <1>1, <2>1, <4>1, SubSeqProperties
      <4>3. i \in Nat /\ i <= Len(vfsList) /\ Len(vfsList) \in Nat
        BY <1>1, <2>1
      <4> HIDE DEF b, r
      <4>4. Len(b) = Len(vfsList) - i
        BY <4>2, <4>3
      <4>5. ASSUME NEW k \in 1..Len(vfsList) - i PROVE b[k] = vfsList[i + k]
        <5>1. k \in 1..Len(vfsList) - (i + 1) + 1 /\ i + 1 + k - 1 = i + k
          BY <4>3
        <5> QED
          BY <4>2, <5>1
      <4> QED
        BY <4>2, <4>4, <4>5
    <3>3. r = a \o b
      OBVIOUS
    <3> HIDE DEF a, b, r
    <3>4. r \in Seq(Vfs \cup {Os}) /\ Len(r) = Len(vfsList) - 1
      <4>1. r \in Seq(Vfs \cup {Os}) /\ Len(r) = Len(a) + Len(b)
        BY <3>1, <3>2, <3>3, ConcatProperties
      <4> QED
        BY <1>1, <2>1, <3>1, <3>2, <4>1
    <3>5. \A k \in 1..Len(vfsList) - 1 : r[k] = IF k < i THEN a[k] ELSE b[k - (i - 1)]
      BY <1>1, <2>1, <3>1, <3>2, <3>3
    <3>6. ASSUME NEW k \in 1..Len(vfsList) - 1
          PROVE  r[k] = vfsList[IF k < i THEN k ELSE k + 1]
      <4>1. CASE k < i
        BY <2>1, <3>1, <3>5, <4>1
      <4>2. CASE ~(k < i)
        <5>1. k - (i - 1) \in 1..Len(vfsList) - i /\ i + (k - (i - 1)) = k + 1
          BY <1>1, <2>1, <4>2
        <5> QED
          BY <3>2, <3>5, <4>2, <5>1
      <4> QED
        BY <4>1, <4>2
    <3> QED
      BY <3>4, <3>6
  <2>6. DOMAIN r = 1..Len(vfsList) - 1
    BY <1>1, <2>5, LenProperties
  <2> HIDE DEF r
  <2>7. IsInjective(r)
    <3> SUFFICES ASSUME NEW k \in 1..Len(vfsList) - 1, NEW m \in 1..Len(vfsList) - 1,
                        r[k] = r[m]
                 PROVE  k = m
      BY <2>6 DEF IsInjective
    <3> DEFINE at(n) == IF n < i THEN n ELSE n + 1
    <3>1. at(k) \in DOMAIN vfsList /\ at(m) \in DOMAIN vfsList
      BY <1>1, <2>1
    <3>2. vfsList[at(k)] = vfsList[at(m)]
      BY <2>5
    <3>3. at(k) = at(m)
      BY <3>1, <3>2 DEF IsInjective
    <3> QED
      BY <1>1, <2>1, <3>3
  <2>8. ASSUME NEW x PROVE x \in Range(r) <=> x \in Listed \ {v}
    <3>1. ASSUME x \in Range(r) PROVE x \in Listed \ {v}
      <4>1. PICK k \in 1..Len(vfsList) - 1 : x = r[k]
        BY <2>6, <3>1 DEF Range
      <4>2. PICK j \in 1..Len(vfsList) : x = vfsList[j] /\ j # i
        BY <1>1, <2>1, <2>5, <4>1
      <4> QED
        BY <1>1, <2>2, <4>2 DEF Listed, Range
    <3>2. ASSUME x \in Listed, x # v PROVE x \in Range(r)
      <4>1. PICK j \in 1..Len(vfsList) : x = vfsList[j] /\ j # i
        BY <1>1, <2>1, <3>2 DEF Listed, Range
      <4>2. PICK k \in 1..Len(vfsList) - 1 : x = r[k]
        <5>1. CASE j < i
          BY <1>1, <2>1, <2>5, <4>1, <5>1
        <5>2. CASE j > i
          <6>1. j - 1 \in 1..Len(vfsList) - 1 /\ ~(j - 1 < i) /\ (j - 1) + 1 = j
            BY <1>1, <2>1, <4>1, <5>2
          <6>2. r[j - 1] = vfsList[j]
            BY <2>5, <6>1
          <6> QED
            BY <4>1, <6>1, <6>2
        <5> QED
          BY <2>1, <4>1, <5>1, <5>2
      <4> QED
        BY <2>6, <4>2 DEF Range
    <3> QED
      BY <3>1, <3>2
  <2> QED
    BY <2>4, <2>5, <2>7, <2>8
<1> QED
  BY <1>2, <1>3

\* A VFS that is registered is linked once, as the first or the second.
LEMMA Linked ==
  ASSUME TypeOK, IsInjective(vfsList), NEW v \in Vfs, NEW dflt \in BOOLEAN,
         sqlite3_vfs_register(v, dflt)
  PROVE  /\ vfsList' \in Seq(Vfs \cup {Os})
         /\ IsInjective(vfsList')
         /\ Listed' = Listed \cup {v}
<1> DEFINE rest == vfsUnlink(v)
<1>1. rest \in Seq(Vfs \cup {Os}) /\ IsInjective(rest) /\ Range(rest) = Listed \ {v}
  BY Unlinked
<1>2. vfsList' = IF dflt \/ rest = <<>> THEN <<v>> \o rest ELSE <<Head(rest), v>> \o Tail(rest)
  BY DEF sqlite3_vfs_register
<1> HIDE DEF rest
<1>3. DOMAIN rest = 1..Len(rest) /\ Len(rest) \in Nat
  BY <1>1
<1>4. \A i \in 1..Len(rest) : rest[i] # v
  BY <1>1, <1>3 DEF Range
<1>5. \A i, j \in 1..Len(rest) : rest[i] = rest[j] => i = j
  BY <1>1, <1>3 DEF IsInjective
<1>6. CASE dflt \/ rest = <<>>
  <2>1. vfsList' = <<v>> \o rest
    BY <1>2, <1>6
  <2>2. /\ vfsList' \in Seq(Vfs \cup {Os}) /\ Len(vfsList') = Len(rest) + 1
        /\ \A i \in 1..Len(rest) + 1 : vfsList'[i] = IF i = 1 THEN v ELSE rest[i - 1]
    BY <1>1, <1>3, <2>1
  <2>3. DOMAIN vfsList' = 1..Len(rest) + 1
    BY <1>3, <2>2, LenProperties
  <2>4. IsInjective(vfsList')
    BY <1>3, <1>4, <1>5, <2>2, <2>3 DEF IsInjective
  <2>5. Range(vfsList') = Range(rest) \cup {v}
    <3>1. vfsList'[1] = v /\ \A i \in 1..Len(rest) : i + 1 \in 1..Len(rest) + 1 /\ vfsList'[i + 1] = rest[i]
      BY <1>3, <2>2
    <3>2. Range(rest) \cup {v} \subseteq Range(vfsList')
      BY <1>3, <2>3, <3>1 DEF Range
    <3>3. ASSUME NEW i \in 1..Len(rest) + 1 PROVE vfsList'[i] \in Range(rest) \cup {v}
      BY <1>3, <2>2 DEF Range
    <3> QED
      BY <2>3, <3>2, <3>3 DEF Range
  <2> QED
    BY <1>1, <2>2, <2>4, <2>5 DEF Listed
<1>7. CASE ~(dflt \/ rest = <<>>)
  <2>1. vfsList' = <<Head(rest), v>> \o Tail(rest) /\ Len(rest) >= 1
    BY <1>1, <1>2, <1>3, <1>7
  <2>2. /\ vfsList' \in Seq(Vfs \cup {Os}) /\ Len(vfsList') = Len(rest) + 1
        /\ \A i \in 1..Len(rest) + 1 :
             vfsList'[i] = IF i = 1 THEN rest[1] ELSE IF i = 2 THEN v ELSE rest[i - 1]
    BY <1>1, <1>3, <2>1
  <2>3. DOMAIN vfsList' = 1..Len(rest) + 1
    BY <1>3, <2>2, LenProperties
  <2>4. IsInjective(vfsList')
    BY <1>3, <1>4, <1>5, <2>1, <2>2, <2>3 DEF IsInjective
  <2>5. Range(vfsList') = Range(rest) \cup {v}
    <3>1. /\ vfsList'[1] = rest[1] /\ vfsList'[2] = v /\ 1 \in 1..Len(rest) /\ 2 \in 1..Len(rest) + 1
          /\ \A i \in 2..Len(rest) : i + 1 \in 1..Len(rest) + 1 /\ vfsList'[i + 1] = rest[i]
      BY <1>3, <2>1, <2>2
    <3>2. Range(rest) \cup {v} \subseteq Range(vfsList')
      <4>1. ASSUME NEW i \in 1..Len(rest) PROVE rest[i] \in Range(vfsList')
        <5>1. PICK j \in 1..Len(rest) + 1 : vfsList'[j] = rest[i]
          <6>1. CASE i = 1
            BY <1>3, <3>1, <6>1
          <6>2. CASE i # 1
            BY <1>3, <3>1, <6>2
          <6> QED
            BY <6>1, <6>2
        <5> QED
          BY <2>3, <5>1 DEF Range
      <4> QED
        BY <1>3, <2>3, <3>1, <4>1 DEF Range
    <3>3. ASSUME NEW i \in 1..Len(rest) + 1 PROVE vfsList'[i] \in Range(rest) \cup {v}
      <4>1. CASE i = 2
        BY <2>2, <4>1
      <4>2. CASE i # 2
        <5>1. PICK j \in 1..Len(rest) : vfsList'[i] = rest[j]
          BY <1>3, <2>1, <2>2, <4>2
        <5> QED
          BY <1>3, <5>1 DEF Range
      <4> QED
        BY <4>1, <4>2
    <3> QED
      BY <2>3, <3>2, <3>3 DEF Range
  <2> QED
    BY <1>1, <2>2, <2>4, <2>5 DEF Listed
<1> QED
  BY <1>6, <1>7

-----------------------------------------------------------------------------
(* Objects and the list.                                                    *)

\* Constructing, registering, unregistering and dropping VFS objects leaves every
\* raw pointer with an object that owns itself.
LEMMA RegistryStepInv ==
  ASSUME TypeOK, Registry, DefaultExists, RegistryStep
  PROVE  /\ TypeOK' /\ Registry' /\ DefaultExists'
         /\ registered \subseteq registered' /\ using' = using
<1> USE VfsAssumption
<1>l. /\ Os \in Listed /\ IsInjective(vfsList) /\ Listed \subseteq Kept
      /\ Kept \subseteq Vfs \cup {Os}
  BY DEF DefaultExists, Registry, Kept, TypeOK
<1>1. ASSUME NEW v \in Vfs, Construct(v)
      PROVE  /\ TypeOK' /\ Registry' /\ DefaultExists'
             /\ registered \subseteq registered' /\ using' = using
  <2>1. PICK p \in Listed : parent' = [parent EXCEPT ![v] = p]
    BY <1>1 DEF Construct
  <2>2. p \in Kept /\ p \in Vfs \cup {Os} /\ held' = held \cup {v}
    BY <1>1, <1>l, <2>1 DEF Construct
  <2>3. UNCHANGED <<vfsList, registered, using>>
    BY <1>1 DEF Construct
  <2>4. TypeOK'
    BY <2>1, <2>2, <2>3 DEF TypeOK
  <2>5. Registry' /\ DefaultExists'
    BY <1>l, <2>1, <2>2, <2>3 DEF TypeOK, Registry, Kept, DefaultExists, Listed
  <2> QED
    BY <2>3, <2>4, <2>5
<1>2. ASSUME NEW v \in Vfs, RegisterCryptVfs(v)
      PROVE  /\ TypeOK' /\ Registry' /\ DefaultExists'
             /\ registered \subseteq registered' /\ using' = using
  <2>1. /\ sqlite3_vfs_register(v, FALSE) /\ vfsList # <<>>
        /\ parent' = [parent EXCEPT ![v] = Head(vfsList)]
        /\ registered' = registered \cup {v} /\ UNCHANGED <<held, using>>
    BY <1>2 DEF RegisterCryptVfs
  <2>2. Head(vfsList) \in Kept /\ Head(vfsList) \in Vfs \cup {Os}
    BY <1>l, <2>1 DEF Listed, Range, TypeOK
  <2>3. /\ vfsList' \in Seq(Vfs \cup {Os}) /\ IsInjective(vfsList') /\ Listed' = Listed \cup {v}
    BY <1>l, <2>1, Linked
  <2>4. TypeOK'
    BY <2>1, <2>2, <2>3 DEF TypeOK
  <2>5. Registry'
    BY <1>l, <2>1, <2>2, <2>3 DEF TypeOK, Registry, Kept
  <2> QED
    BY <1>l, <2>1, <2>3, <2>4, <2>5 DEF DefaultExists
<1>3. ASSUME NEW v \in Vfs, UnregisterVfs(v)
      PROVE  /\ TypeOK' /\ Registry' /\ DefaultExists'
             /\ registered \subseteq registered' /\ using' = using
  <2>1. vfsList' = vfsUnlink(v) /\ UNCHANGED <<registered, held, parent, using>>
    BY <1>3 DEF UnregisterVfs
  <2>2. /\ vfsList' \in Seq(Vfs \cup {Os}) /\ IsInjective(vfsList') /\ Listed' = Listed \ {v}
    BY <1>l, <2>1, Unlinked DEF Listed
  <2>3. TypeOK'
    BY <2>1, <2>2 DEF TypeOK
  <2> QED
    BY <1>l, <2>1, <2>2, <2>3 DEF Registry, Kept, DefaultExists
<1>4. ASSUME NEW v \in Vfs, DropVfs(v)
      PROVE  /\ TypeOK' /\ Registry' /\ DefaultExists'
             /\ registered \subseteq registered' /\ using' = using
  BY <1>4 DEF DropVfs, TypeOK, Registry, Kept, DefaultExists, Listed
<1>5. ASSUME NEW v \in Vfs, NEW makeDflt \in BOOLEAN, RegisterVfs(v, makeDflt)
      PROVE  /\ TypeOK' /\ Registry' /\ DefaultExists'
             /\ registered \subseteq registered' /\ using' = using
  <2>1. /\ sqlite3_vfs_register(v, makeDflt) /\ v \in held
        /\ registered' = registered \cup {v} /\ UNCHANGED <<held, parent, using>>
    BY <1>5 DEF RegisterVfs
  <2>2. /\ vfsList' \in Seq(Vfs \cup {Os}) /\ IsInjective(vfsList') /\ Listed' = Listed \cup {v}
    BY <1>l, <2>1, Linked
  <2>3. TypeOK'
    BY <2>1, <2>2 DEF TypeOK
  <2> QED
    BY <1>l, <2>1, <2>2, <2>3 DEF Registry, Kept, DefaultExists
<1> QED
  BY <1>1, <1>2, <1>3, <1>4, <1>5 DEF RegistryStep

\* A connection takes up a VFS from the list, or lets go of it.
LEMMA ConnectionStep ==
  ASSUME TypeOK, Registry, DefaultExists, NEW c \in Connection,
         OpenConnection(c) \/ CloseConnection(c)
  PROVE  TypeOK' /\ Registry' /\ DefaultExists' /\ registered' = registered
<1> USE VfsAssumption
<1>1. Listed \subseteq Kept /\ Kept \subseteq Vfs \cup {Os}
  BY DEF Registry, Kept, TypeOK
<1>2. PICK v \in Kept \cup {Null} : using' = [using EXCEPT ![c] = v]
  BY <1>1 DEF OpenConnection, CloseConnection
<1>3. UNCHANGED <<vfsList, registered, held, parent>>
  BY DEF OpenConnection, CloseConnection
<1> QED
  BY <1>1, <1>2, <1>3 DEF TypeOK, Registry, Kept, DefaultExists, Listed

-----------------------------------------------------------------------------
(* Files.                                                                   *)

\* What stays of a stack of calls when the innermost one returns.
LEMMA FrontOf ==
  ASSUME NEW S, NEW s \in Seq(S), s # <<>>
  PROVE  /\ Front(s) \in Seq(S)
         /\ DOMAIN Front(s) = 1..Len(s) - 1 /\ DOMAIN s = 1..Len(s)
         /\ \A i \in DOMAIN Front(s) : i \in DOMAIN s /\ Front(s)[i] = s[i]
         /\ Len(s) \in DOMAIN s
<1>1. Len(s) \in Nat \ {0} /\ DOMAIN s = 1..Len(s) /\ \A i \in 1..Len(s) : s[i] \in S
  BY EmptySeq, LenProperties
<1>2. /\ Front(s) \in Seq(S) /\ Len(Front(s)) = Len(s) - 1
      /\ \A i \in 1..Len(s) - 1 : Front(s)[i] = s[i]
  BY <1>1 DEF Front
<1>3. DOMAIN Front(s) = 1..Len(Front(s))
  BY <1>2, LenProperties
<1> QED
  BY <1>1, <1>2, <1>3

\* The parts of the invariant that speak of one connection's open and file.
DescentOf(c) ==
  /\ \A i \in DOMAIN frames[c] : frames[c][i] \in Kept
  /\ \A i \in DOMAIN frames[c] : frames[c][i] = Os => i = Len(frames[c])
  /\ found[c] => frames[c] # <<>> /\ \A i \in DOMAIN frames[c] : frames[c][i] # Os
  /\ using[c] = Null => frames[c] = <<>> /\ file[c] = <<>>
LayersOf(c) ==
  \A i \in DOMAIN file[c] : i > 1 \/ Opening(c) => file[c][i].cipher = uri[c]

\* Steps of one connection leave the others alone.
LEMMA OtherConnections ==
  ASSUME FilesInv, NEW c \in Connection, registered' = registered,
         \A d \in Connection \ {c} :
           /\ frames'[d] = frames[d] /\ found'[d] = found[d] /\ file'[d] = file[d]
           /\ uri'[d] = uri[d] /\ using'[d] = using[d],
         DescentOf(c)', LayersOf(c)'
  PROVE  Descent' /\ Layers'
BY DEF FilesInv, Descent, DescentOf, Layers, LayersOf, Opening, Kept

\* A connection that is given up or closed has no calls and no layers.
LEMMA GivenUp ==
  ASSUME FilesInv, NEW c \in Connection, CloseConnection(c),
         frames'[c] = <<>>, file'[c] = <<>>, found'[c] = FALSE
  PROVE  DescentOf(c)' /\ LayersOf(c)'
BY DEF DescentOf, LayersOf

\* Every step of a connection's open and close keeps the invariant.
LEMMA FileStep ==
  ASSUME FilesInv, NEW c \in Connection,
         \/ BeginOpen(c) \/ OpenParent(c) \/ OsOpens(c) \/ OsRefuses(c)
         \/ WrapFile(c) \/ WrapThrows(c)
         \/ \E on \in BOOLEAN : PragmaCipher(c, on)
         \/ CloseFile(c)
  PROVE  FilesInv'
<1> USE VfsAssumption
<1>i. /\ FilesTypeOK /\ TypeOK /\ Registry /\ DefaultExists /\ Descent /\ Layers
      /\ DescentOf(c) /\ LayersOf(c)
  BY DEF FilesInv, FilesTypeOK, Descent, DescentOf, Layers, LayersOf
<1>f. /\ frames \in [Connection -> Seq(Vfs \cup {Os})] /\ found \in [Connection -> BOOLEAN]
      /\ file \in [Connection -> Seq([cipher : BOOLEAN])] /\ uri \in [Connection -> BOOLEAN]
  BY <1>i DEF FilesTypeOK
<1>v. ASSUME UNCHANGED vars
      PROVE  TypeOK' /\ Registry' /\ DefaultExists' /\ registered' = registered /\ using' = using
  BY <1>i, <1>v DEF vars, TypeOK, Registry, DefaultExists, Listed, Kept
<1>k. Kept \subseteq Vfs \cup {Os}
  BY <1>i DEF Kept, TypeOK
<1>1. CASE BeginOpen(c)
  <2>1. TypeOK' /\ Registry' /\ DefaultExists' /\ registered' = registered
    BY <1>i, <1>1, ConnectionStep DEF BeginOpen
  <2>2. PICK v \in Kept : using[c] = Null /\ using' = [using EXCEPT ![c] = v]
    BY <1>i, <1>1 DEF BeginOpen, OpenConnection, Registry
  <2>3. /\ frames' = [frames EXCEPT ![c] = <<v>>] /\ UNCHANGED <<found, file>>
        /\ uri' \in [Connection -> BOOLEAN] /\ \A d \in Connection \ {c} : uri'[d] = uri[d]
    BY <1>i, <1>1, <2>2 DEF BeginOpen, TypeOK
  <2>4. file'[c] = <<>> /\ found'[c] = FALSE /\ frames'[c] = <<v>> /\ using'[c] = v
    BY <1>i, <1>f, <2>2, <2>3 DEF DescentOf, TypeOK
  <2>5. DescentOf(c)' /\ LayersOf(c)'
    BY <1>k, <2>1, <2>2, <2>4 DEF DescentOf, LayersOf, Kept
  <2>6. FilesTypeOK'
    BY <1>f, <1>k, <2>1, <2>3 DEF FilesTypeOK
  <2> QED
    BY <1>i, <1>f, <2>1, <2>2, <2>3, <2>5, <2>6, OtherConnections DEF FilesInv, TypeOK
<1>2. CASE OpenParent(c)
  <2>1. TypeOK' /\ Registry' /\ DefaultExists' /\ registered' = registered /\ using' = using
    BY <1>v, <1>2 DEF OpenParent
  <2> DEFINE s == frames[c]
             p == parent[Last(s)]
  <2>2. /\ s \in Seq(Vfs \cup {Os}) /\ s # <<>> /\ ~found[c] /\ Last(s) # Os
        /\ frames' = [frames EXCEPT ![c] = Append(s, p)] /\ UNCHANGED <<found, file, uri>>
    BY <1>f, <1>2 DEF OpenParent, Opening
  <2>3. Last(s) \in registered
    BY <1>i, <2>2, FrontOf DEF DescentOf, Kept, Last
  <2>4. p \in Kept /\ p \in Vfs \cup {Os}
    BY <1>i, <1>k, <2>3 DEF Registry, TypeOK
  <2>5. /\ Append(s, p) \in Seq(Vfs \cup {Os}) /\ Append(s, p) # <<>>
        /\ \A i \in DOMAIN Append(s, p) : Append(s, p)[i] \in Kept
        /\ \A i \in DOMAIN Append(s, p) : Append(s, p)[i] = Os => i = Len(Append(s, p))
    <3>1. \A i \in 1..Len(s) : s[i] \in Kept /\ s[i] # Os
      BY <1>i, <2>2, FrontOf DEF DescentOf, Last
    <3> HIDE DEF s, p
    <3> QED
      BY <2>2, <2>4, <3>1
  <2>6. DescentOf(c)' /\ LayersOf(c)'
    BY <1>i, <1>f, <2>1, <2>2, <2>5 DEF DescentOf, LayersOf, Opening, Kept
  <2>7. FilesTypeOK'
    BY <1>f, <2>1, <2>2, <2>5 DEF FilesTypeOK
  <2> QED
    BY <1>i, <1>f, <2>1, <2>2, <2>6, <2>7, OtherConnections DEF FilesInv
<1>3. CASE OsOpens(c)
  <2>1. TypeOK' /\ Registry' /\ DefaultExists' /\ registered' = registered /\ using' = using
    BY <1>v, <1>3 DEF OsOpens
  <2> DEFINE s == frames[c]
  <2>2. /\ s \in Seq(Vfs \cup {Os}) /\ s # <<>> /\ UNCHANGED <<file, uri>>
        /\ frames' = [frames EXCEPT ![c] = Front(s)]
        /\ found' = [found EXCEPT ![c] = Front(s) # <<>>]
    BY <1>f, <1>3 DEF OsOpens, Opening
  <2>3. Front(s) \in Seq(Vfs \cup {Os})
        /\ \A i \in DOMAIN Front(s) : Front(s)[i] \in Kept /\ Front(s)[i] # Os
    BY <1>i, <2>2, FrontOf DEF DescentOf
  <2>4. using[c] # Null
    BY <1>i, <2>2 DEF DescentOf
  <2>5. DescentOf(c)' /\ LayersOf(c)'
    BY <1>i, <1>f, <2>1, <2>2, <2>3, <2>4 DEF DescentOf, LayersOf, Kept, Opening
  <2>6. FilesTypeOK'
    BY <1>f, <2>1, <2>2, <2>3 DEF FilesTypeOK
  <2> QED
    BY <1>i, <1>f, <2>1, <2>2, <2>5, <2>6, OtherConnections DEF FilesInv
<1>4. CASE OsRefuses(c) \/ WrapThrows(c) \/ CloseFile(c)
  <2>1. CloseConnection(c) /\ UNCHANGED uri
    BY <1>4 DEF OsRefuses, WrapThrows, CloseFile, OpenFails
  <2>2. TypeOK' /\ Registry' /\ DefaultExists' /\ registered' = registered
    BY <1>i, <2>1, ConnectionStep
  <2>3. /\ frames' = [frames EXCEPT ![c] = <<>>] /\ found' = [found EXCEPT ![c] = FALSE]
        /\ file' = [file EXCEPT ![c] = <<>>]
    BY <1>i, <1>f, <1>4 DEF OsRefuses, WrapThrows, CloseFile, OpenFails, Opened,
       Opening, DescentOf
  <2>4. DescentOf(c)' /\ LayersOf(c)'
    BY <1>f, <2>1, <2>3, GivenUp
  <2>5. FilesTypeOK'
    BY <1>f, <2>1, <2>2, <2>3 DEF FilesTypeOK
  <2> QED
    BY <1>i, <1>f, <2>1, <2>2, <2>3, <2>4, <2>5, OtherConnections
    DEF FilesInv, CloseConnection, TypeOK
<1>5. CASE WrapFile(c)
  <2>1. TypeOK' /\ Registry' /\ DefaultExists' /\ registered' = registered /\ using' = using
    BY <1>v, <1>5 DEF WrapFile
  <2> DEFINE s == frames[c]
             l == <<[cipher |-> uri[c]]>> \o file[c]
  <2>2. /\ s \in Seq(Vfs \cup {Os}) /\ s # <<>> /\ found[c] /\ UNCHANGED uri
        /\ frames' = [frames EXCEPT ![c] = Front(s)]
        /\ found' = [found EXCEPT ![c] = Front(s) # <<>>]
        /\ file' = [file EXCEPT ![c] = l]
    BY <1>f, <1>5 DEF WrapFile, Opening
  <2>3. using[c] # Null
    BY <1>i, <2>2 DEF DescentOf
  <2>4. /\ l \in Seq([cipher : BOOLEAN]) /\ DOMAIN l = 1..Len(file[c]) + 1
        /\ \A i \in DOMAIN l : l[i].cipher = uri[c]
    <3> DEFINE r == [cipher |-> uri[c]]
    <3>1. r \in [cipher : BOOLEAN] /\ r.cipher = uri[c] /\ l = <<r>> \o file[c]
      BY <1>f
    <3>2. \A i \in DOMAIN file[c] : file[c][i].cipher = uri[c]
      BY <1>i, <2>2 DEF LayersOf, Opening
    <3>3. file[c] \in Seq([cipher : BOOLEAN]) /\ Len(file[c]) \in Nat
          /\ DOMAIN file[c] = 1..Len(file[c])
      BY <1>f
    <3> HIDE DEF l, r
    <3>4. /\ l \in Seq([cipher : BOOLEAN]) /\ Len(l) = Len(file[c]) + 1
          /\ \A i \in 1..Len(file[c]) + 1 : l[i] = IF i = 1 THEN r ELSE file[c][i - 1]
      BY <3>1, <3>3
    <3>5. DOMAIN l = 1..Len(file[c]) + 1
      BY <3>4, LenProperties
    <3> QED
      BY <3>1, <3>2, <3>3, <3>4, <3>5
  <2>s. /\ Front(s) \in Seq(Vfs \cup {Os})
        /\ \A i \in DOMAIN Front(s) : Front(s)[i] \in Kept /\ Front(s)[i] # Os
    BY <1>i, <2>2, FrontOf DEF DescentOf
  <2> HIDE DEF l
  <2>5. DescentOf(c)' /\ LayersOf(c)'
    BY <1>i, <1>f, <2>1, <2>2, <2>3, <2>4, <2>s DEF DescentOf, LayersOf, Kept
  <2>6. FilesTypeOK'
    BY <1>f, <2>1, <2>2, <2>4, FrontOf DEF FilesTypeOK
  <2> QED
    BY <1>i, <1>f, <2>1, <2>2, <2>5, <2>6, OtherConnections DEF FilesInv
<1>6. ASSUME NEW on \in BOOLEAN, PragmaCipher(c, on) PROVE FilesInv'
  <2>1. TypeOK' /\ Registry' /\ DefaultExists' /\ registered' = registered /\ using' = using
    BY <1>v, <1>6 DEF PragmaCipher
  <2> DEFINE l == [file[c] EXCEPT ![1].cipher = on]
  <2>2. /\ file[c] # <<>> /\ UNCHANGED <<frames, found, uri>> /\ ~Opening(c)
        /\ file' = [file EXCEPT ![c] = l] /\ using[c] # Null
    BY <1>f, <1>6 DEF PragmaCipher, Opened
  <2>3. /\ l \in Seq([cipher : BOOLEAN]) /\ DOMAIN l = DOMAIN file[c]
        /\ \A i \in DOMAIN l : i > 1 => l[i] = file[c][i]
    <3>0. file[c] \in Seq([cipher : BOOLEAN]) /\ file[c] # <<>>
      BY <1>f, <2>2
    <3>1. /\ file[c] \in Seq([cipher : BOOLEAN]) /\ DOMAIN file[c] = 1..Len(file[c])
          /\ Len(file[c]) \in Nat \ {0} /\ file[c][1] \in [cipher : BOOLEAN]
      <4>1. Len(file[c]) \in Nat \ {0} /\ DOMAIN file[c] = 1..Len(file[c])
        BY <3>0, EmptySeq, LenProperties
      <4>2. 1 \in 1..Len(file[c])
        BY <4>1
      <4> QED
        BY <3>0, <4>1, <4>2, ElementOfSeq
    <3>2. [file[c][1] EXCEPT !.cipher = on] \in [cipher : BOOLEAN]
      BY <3>1
    <3>3. l = [file[c] EXCEPT ![1] = [file[c][1] EXCEPT !.cipher = on]]
      BY <3>1
    <3> HIDE DEF l
    <3>4. l \in Seq([cipher : BOOLEAN]) /\ Len(l) = Len(file[c])
      BY <3>1, <3>2, <3>3, ExceptSeq
    <3> QED
      BY <3>1, <3>3, <3>4
  <2> HIDE DEF l
  <2>4. DescentOf(c)' /\ LayersOf(c)'
    BY <1>i, <1>f, <2>1, <2>2, <2>3 DEF DescentOf, LayersOf, Kept, Opening
  <2>5. FilesTypeOK'
    BY <1>f, <2>1, <2>2, <2>3 DEF FilesTypeOK
  <2> QED
    BY <1>i, <1>f, <2>1, <2>2, <2>4, <2>5, OtherConnections DEF FilesInv
<1> QED
  BY <1>1, <1>2, <1>3, <1>4, <1>5, <1>6

-----------------------------------------------------------------------------
(* The results.                                                             *)

\* At start SQLite lists the platform's VFS only, and nothing is open.
LEMMA InitFiles == FilesInit => FilesInv
<1> SUFFICES ASSUME FilesInit PROVE FilesInv
  OBVIOUS
<1> USE VfsAssumption
<1>1. /\ vfsList = <<Os>> /\ registered = {} /\ held = {}
      /\ parent = [v \in Vfs |-> Null] /\ using = [c \in Connection |-> Null]
  BY DEF FilesInit, Init
<1>2. DOMAIN vfsList = {1} /\ vfsList[1] = Os /\ vfsList \in Seq(Vfs \cup {Os})
  BY <1>1
<1>3. Listed = {Os} /\ IsInjective(vfsList)
  BY <1>2 DEF Listed, Range, IsInjective
<1>4. TypeOK
  BY <1>1, <1>2 DEF TypeOK
<1>5. FilesTypeOK
  BY <1>4 DEF FilesTypeOK, FilesInit
<1>6. Registry /\ DefaultExists
  BY <1>1, <1>3 DEF Registry, DefaultExists, Kept
<1>7. Descent /\ Layers
  BY DEF FilesInit, Descent, Layers
<1> QED
  BY <1>5, <1>6, <1>7 DEF FilesInv

\* Every step, of applications and extensions as of connections, keeps the
\* invariant.
LEMMA FilesStep == FilesInv /\ [FilesNext]_<<vars, fileVars>> => FilesInv'
<1> SUFFICES ASSUME FilesInv, [FilesNext]_<<vars, fileVars>> PROVE FilesInv'
  OBVIOUS
<1>1. CASE RegistryStep /\ UNCHANGED fileVars
  <2>1. /\ TypeOK' /\ Registry' /\ DefaultExists'
        /\ registered \subseteq registered' /\ using' = using
    BY <1>1, RegistryStepInv DEF FilesInv, FilesTypeOK
  <2>2. UNCHANGED <<frames, found, file, uri>> /\ Kept \subseteq Kept'
    BY <1>1, <2>1 DEF fileVars, Kept
  <2>3. FilesTypeOK'
    BY <2>1, <2>2 DEF FilesInv, FilesTypeOK
  <2>4. Descent' /\ Layers'
    BY <2>1, <2>2 DEF FilesInv, Descent, Layers, Opening
  <2> QED
    BY <2>1, <2>3, <2>4 DEF FilesInv
<1>2. ASSUME NEW c \in Connection,
             \/ BeginOpen(c) \/ OpenParent(c) \/ OsOpens(c) \/ OsRefuses(c)
             \/ WrapFile(c) \/ WrapThrows(c)
             \/ \E on \in BOOLEAN : PragmaCipher(c, on)
             \/ CloseFile(c)
      PROVE  FilesInv'
  BY <1>2, FileStep
<1>3. CASE UNCHANGED <<vars, fileVars>>
  BY <1>3 DEF vars, fileVars, FilesInv, FilesTypeOK, TypeOK, Registry, DefaultExists,
     Listed, Kept, Descent, Layers, Opening
<1> QED
  BY <1>1, <1>2, <1>3 DEF FilesNext

\* The invariant holds in every state that the specification reaches.
LEMMA FilesInvariant == FilesSpec => []FilesInv
<1> QED
  BY InitFiles, FilesStep, PTL DEF FilesSpec

\* SQLite's list, the reference counts, the nested xOpen calls and the stacks of
\* Crypt_files keep their types, however high VFSs are stacked.
THEOREM FilesTypeCorrect == FilesSpec => []FilesTypeOK
<1>1. FilesInv => FilesTypeOK
  BY DEF FilesInv
<1> QED
  BY <1>1, FilesInvariant, PTL

\* No raw sqlite3_vfs pointer of SQLite's list, of a connection or of a wrapper
\* dangles: what such a pointer can come from is the list, what is listed was
\* registered, and `_registered' is never reset.
THEOREM NeverDangling == FilesSpec => []NoDanglingVfs
<1>1. ASSUME FilesInv PROVE NoDanglingVfs
  <2>1. TypeOK /\ Registry
    BY <1>1 DEF FilesInv, FilesTypeOK
  <2>2. Kept \subseteq Alive /\ Alive \ {Os} \subseteq Vfs
    BY <2>1 DEF TypeOK, Registry, Kept, Alive
  <2>3. ASSUME NEW v \in Alive \ {Os} PROVE parent[v] \in Kept
    BY <2>1, <2>2, <2>3 DEF Registry, Alive
  <2> QED
    BY <2>1, <2>2, <2>3 DEF Registry, NoDanglingVfs
<1> QED
  BY <1>1, FilesInvariant, PTL

\* The platform's VFS is listed for ever, so that sqlite3_vfs_find(nullptr) never
\* answers with nullptr, and no VFS is linked twice.
THEOREM DefaultAlwaysExists == FilesSpec => []DefaultExists
<1>1. FilesInv => DefaultExists
  BY DEF FilesInv
<1> QED
  BY <1>1, FilesInvariant, PTL

\* At most the outermost Crypt_file of a stack encodes pages unless the URI has
\* given key and cipher to several layers: what is written is read back.
THEOREM PagesAlwaysReadBack == FilesSpec => []PagesReadBack
<1>1. ASSUME FilesInv PROVE PagesReadBack
  <2> SUFFICES ASSUME NEW c \in Connection, uri[c] => Len(file[c]) <= 1,
                      NEW i \in Encoding(file[c]), NEW j \in Encoding(file[c])
               PROVE  i = j
    BY DEF PagesReadBack, ReadsBack
  <2>1. file[c] \in Seq([cipher : BOOLEAN]) /\ uri[c] \in BOOLEAN
    BY <1>1 DEF FilesInv, FilesTypeOK
  <2>2. Len(file[c]) \in Nat /\ DOMAIN file[c] = 1..Len(file[c])
    BY <2>1, LenProperties
  <2>3. ASSUME NEW k \in Encoding(file[c]) PROVE k = 1
    <3>1. k \in 1..Len(file[c]) /\ file[c][k].cipher
      BY <2>2, <2>3 DEF Encoding
    <3>2. CASE uri[c]
      BY <2>2, <3>1, <3>2
    <3>3. CASE ~uri[c]
      <4>1. ~(k > 1)
        BY <1>1, <2>2, <3>1, <3>3 DEF FilesInv, Layers
      <4> QED
        BY <2>2, <3>1, <4>1
    <3> QED
      BY <3>2, <3>3
  <2> QED
    BY <2>3
<1> QED
  BY <1>1, FilesInvariant, PTL
=============================================================================
