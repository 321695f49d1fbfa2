----------------------- MODULE PackageTraversalProofs -----------------------
(***************************************************************************)
(* What the search for packages finds, for any packages and definitions.   *)
(***************************************************************************)
EXTENDS PackageTraversal, FiniteSetTheorems, TLAPS

(* What a list lists.                                                      *)
Listed(s) == {s[i] : i \in 1 .. Len(s)}

(* Packages that have been inspected or will be.                           *)
Known == inspected \cup Listed(queue)

(* The fields that the script does not pass over.                          *)
Seen == {f \in fields : ~Hidden(f)}

(* What the traversal has found so far: the root, all that a field seen in *)
(* an inspected package refers to, and nothing outside any set around the  *)
(* root that is closed under such fields.                                  *)
Explored ==
    /\ Root \in Known
    /\ \A f \in Seen : packageOf[f.owner] \in inspected => packageOf[f.type] \in Known
    /\ \A S \in SUBSET Packages : (Root \in S /\ ClosedUnder(Seen, S)) => Known \subseteq S

(* How it has ended.                                                       *)
Ended ==
    /\ stage = "failed" =>
            queue # <<>> /\ Head(queue) \notin installed
    /\ stage = "printed" =>
            /\ queue = <<>>
            /\ output = [dependencies |-> DependencyList,
                         files |-> FileDependencies]

TraversalInv == TraversalTypeOK /\ fields \in Contents /\ Explored /\ Ended

(* The entries of a package are finitely many fields, of types that have a *)
(* package.                                                                *)
LEMMA EntriesType ==
    ASSUME TraversalInv, NEW p
    PROVE  /\ IsFiniteSet(fields)
           /\ IsFiniteSet(Entries(p)) /\ Cardinality(Entries(p)) \in Nat
           /\ \A f \in Entries(p) : packageOf[f.type] \in Packages
<1>1. fields \in Contents /\ fields \subseteq Fields
  BY DEF TraversalInv, TraversalTypeOK
<1>2. IsFiniteSet(fields)
  BY <1>1, TraversalAssumption DEF TraversalAssumption
<1>3. Entries(p) \subseteq fields
  BY DEF Entries
<1>4. IsFiniteSet(Entries(p))
  BY <1>2, <1>3, FS_Subset
<1>5. Cardinality(Entries(p)) \in Nat
  BY <1>4, FS_CardinalityType
<1>6. \A f \in Entries(p) : packageOf[f.type] \in Packages
  BY <1>1, <1>3, TraversalAssumption DEF TraversalAssumption, Fields, Definitions
<1> QED
  BY <1>2, <1>4, <1>5, <1>6

(* Initially only the root is known.                                       *)
LEMMA TraversalStarts == TraversalInit => TraversalInv
<1> SUFFICES ASSUME TraversalInit PROVE TraversalInv
  OBVIOUS
<1>1. /\ queue = <<Root>> /\ Len(queue) = 1 /\ queue[1] = Root
      /\ inspected = {} /\ stage = "traversing"
      /\ fields \in Contents /\ fields \subseteq Fields
  BY TraversalAssumption DEF TraversalInit, TraversalAssumption
<1>2. Known = {Root}
  BY <1>1 DEF Known, Listed
<1>3. TraversalTypeOK
  BY <1>1, TraversalAssumption DEF TraversalInit, TraversalTypeOK, TraversalAssumption
<1>4. Explored
  BY <1>1, <1>2 DEF Explored
<1>5. Ended
  BY <1>1 DEF Ended
<1> QED
  BY <1>1, <1>3, <1>4, <1>5 DEF TraversalInv

(* The rest of a list and its head are the list.                           *)
LEMMA HeadAndTail ==
    ASSUME NEW S, NEW s \in Seq(S), s # <<>>
    PROVE  /\ Head(s) \in S
           /\ Tail(s) \in Seq(S)
           /\ Listed(s) = {Head(s)} \cup Listed(Tail(s))
<1>1. /\ Head(s) = s[1] /\ Len(s) \in Nat \ {0} /\ Len(Tail(s)) = Len(s) - 1
      /\ Head(s) \in S /\ Tail(s) \in Seq(S)
  OBVIOUS
<1>2. \A i \in 1 .. Len(Tail(s)) : Tail(s)[i] = s[i + 1]
  OBVIOUS
<1>3. \A i \in 2 .. Len(s) : i - 1 \in 1 .. Len(Tail(s)) /\ s[i] = Tail(s)[i - 1]
  BY <1>1, <1>2
<1>4. Listed(s) \subseteq {Head(s)} \cup Listed(Tail(s))
  <2> SUFFICES ASSUME NEW i \in 1 .. Len(s), s[i] # Head(s)
               PROVE  \E j \in 1 .. Len(Tail(s)) : s[i] = Tail(s)[j]
    BY DEF Listed
  <2>1. i \in 2 .. Len(s)
    BY <1>1
  <2> QED
    BY <1>3, <2>1
<1>5. {Head(s)} \cup Listed(Tail(s)) \subseteq Listed(s)
  <2>1. \A i \in 1 .. Len(Tail(s)) : i + 1 \in 1 .. Len(s)
    BY <1>1
  <2>2. 1 \in 1 .. Len(s)
    BY <1>1
  <2> QED
    BY <1>1, <1>2, <2>1, <2>2 DEF Listed
<1> QED
  BY <1>1, <1>4, <1>5

(* What two lists put together list.                                       *)
LEMMA ListedTogether ==
    ASSUME NEW s \in Seq(Packages), NEW t \in Seq(Packages)
    PROVE  /\ s \o t \in Seq(Packages)
           /\ Listed(s \o t) = Listed(s) \cup Listed(t)
<1>1. /\ s \o t \in Seq(Packages) /\ Len(s) \in Nat /\ Len(t) \in Nat
      /\ Len(s \o t) = Len(s) + Len(t)
  OBVIOUS
<1>2. \A i \in 1 .. Len(s) : (s \o t)[i] = s[i] /\ i \in 1 .. Len(s \o t)
  BY <1>1
<1>3. \A i \in 1 .. Len(t) : /\ (s \o t)[Len(s) + i] = t[i]
                             /\ Len(s) + i \in 1 .. Len(s \o t)
  BY <1>1
<1>4. ASSUME NEW i \in 1 .. Len(s \o t)
      PROVE  \/ i \in 1 .. Len(s) /\ (s \o t)[i] = s[i]
             \/ i - Len(s) \in 1 .. Len(t) /\ (s \o t)[i] = t[i - Len(s)]
  <2>1. CASE i <= Len(s)
    BY <1>1, <1>2, <2>1
  <2>2. CASE i > Len(s)
    <3>1. i - Len(s) \in 1 .. Len(t) /\ Len(s) + (i - Len(s)) = i
      BY <1>1, <2>2
    <3> QED
      BY <1>3, <3>1
  <2> QED
    BY <1>1, <2>1, <2>2
<1>5. Listed(s \o t) \subseteq Listed(s) \cup Listed(t)
  BY <1>4 DEF Listed
<1>6. Listed(s) \subseteq Listed(s \o t)
  BY <1>2 DEF Listed
<1>7. Listed(t) \subseteq Listed(s \o t)
  BY <1>3 DEF Listed
<1> QED
  BY <1>1, <1>5, <1>6, <1>7

(* The empty list lists nothing.                                           *)
LEMMA NothingListed == Listed(<<>>) = {}
BY DEF Listed

(* A listing of a package's entries is a list of packages, of all those    *)
(* that the entries refer to, and as long as there are entries.            *)
LEMMA ListingsList ==
    ASSUME TraversalInv, NEW p, NEW s \in Listings(Entries(p))
    PROVE  /\ s \in Seq(Packages)
           /\ Len(s) = Cardinality(Entries(p))
           /\ Listed(s) = {packageOf[f.type] : f \in Entries(p)}
<1> DEFINE E == Entries(p)
           n == Cardinality(E)
<1>1. n \in Nat /\ \A f \in E : packageOf[f.type] \in Packages
  BY EntriesType
<1>2. PICK o \in [1 .. n -> E] :
        /\ \A f \in E : \E i \in DOMAIN o : o[i] = f
        /\ s = [i \in DOMAIN o |-> packageOf[o[i].type]]
  BY DEF Listings
<1> HIDE DEF E, n
<1>3. /\ DOMAIN o = 1 .. n /\ \A i \in 1 .. n : o[i] \in E
      /\ s = [i \in 1 .. n |-> packageOf[o[i].type]]
  BY <1>2
<1>4. s \in [1 .. n -> Packages]
  BY <1>1, <1>3
<1>5. s \in Seq(Packages) /\ Len(s) = n
  BY <1>1, <1>4
<1>6. Listed(s) = {packageOf[f.type] : f \in E}
  <2>1. ASSUME NEW i \in 1 .. n
        PROVE  s[i] \in {packageOf[f.type] : f \in E}
    BY <1>3
  <2>2. ASSUME NEW f \in E PROVE \E i \in 1 .. n : packageOf[f.type] = s[i]
    BY <1>2, <1>3
  <2> QED
    BY <1>5, <2>1, <2>2 DEF Listed
<1> QED
  BY <1>5, <1>6 DEF E, n

(* Skipping a package that has been inspected loses nothing.               *)
LEMMA SkipKeeps ==
    ASSUME TraversalInv, SkipInspected
    PROVE  TraversalInv'
<1> USE DEF TraversalInv
<1>1. Head(queue) \in inspected /\ queue # <<>> /\ queue \in Seq(Packages)
  BY DEF SkipInspected, TraversalTypeOK
<1>2. Listed(queue)' = Listed(Tail(queue))
  BY DEF Listed, SkipInspected
<1>3. Listed(queue) = {Head(queue)} \cup Listed(Tail(queue))
  BY <1>1, HeadAndTail
<1>4. Known' = Known
  BY <1>1, <1>2, <1>3 DEF Known, SkipInspected
<1>5. TraversalTypeOK'
  BY <1>1 DEF TraversalTypeOK, SkipInspected
<1>6. Explored'
  BY <1>4 DEF Explored, SkipInspected, ClosedUnder, Seen, Hidden
<1>7. Ended'
  BY DEF Ended, SkipInspected
<1> QED
  BY <1>5, <1>6, <1>7 DEF SkipInspected

(* Inspecting a package makes those known that its fields refer to.        *)
LEMMA InspectKeeps ==
    ASSUME TraversalInv, Inspect
    PROVE  TraversalInv'
<1> DEFINE next == Head(queue)
           D == {packageOf[f.type] : f \in Entries(next)}
<1>1. /\ next \in installed /\ queue # <<>> /\ queue \in Seq(Packages)
      /\ inspected' = inspected \cup {next}
      /\ stage = "traversing"
      /\ UNCHANGED <<fields, installed, stage, output>>
  BY DEF Inspect, TraversalInv, TraversalTypeOK
<1>2. PICK pushed \in Listings(Entries(next)) : queue' = pushed \o Tail(queue)
  BY DEF Inspect
<1>3. pushed \in Seq(Packages) /\ Listed(pushed) = D
  BY <1>2, ListingsList
<1>4. /\ next \in Packages
      /\ Tail(queue) \in Seq(Packages)
      /\ Listed(queue) = {next} \cup Listed(Tail(queue))
  BY <1>1, HeadAndTail
<1>5. queue' \in Seq(Packages) /\ Listed(queue') = D \cup Listed(Tail(queue))
  <2>1. /\ pushed \o Tail(queue) \in Seq(Packages)
        /\ Listed(pushed \o Tail(queue)) = Listed(pushed) \cup Listed(Tail(queue))
    BY <1>3, <1>4, ListedTogether
  <2> QED
    BY <1>2, <1>3, <2>1
<1>6. Known' = Known \cup D /\ next \in Known
  BY <1>1, <1>4, <1>5 DEF Known, Listed
<1>7. Seen' = Seen
  BY <1>1 DEF Seen, Hidden
<1>8. Entries(next) = {f \in Seen : packageOf[f.owner] = next}
  BY DEF Entries, Seen
<1>9. TraversalTypeOK'
  BY <1>1, <1>5 DEF TraversalInv, TraversalTypeOK
<1>10. Explored'
  <2>1. Root \in Known'
    BY <1>6 DEF TraversalInv, Explored
  <2>2. ASSUME NEW f \in Seen, packageOf[f.owner] \in inspected'
        PROVE  packageOf[f.type] \in Known'
    <3>1. CASE packageOf[f.owner] \in inspected
      BY <1>6, <3>1 DEF TraversalInv, Explored
    <3>2. CASE packageOf[f.owner] = next
      BY <1>6, <1>8, <3>2
    <3> QED
      BY <1>1, <2>2, <3>1, <3>2
  <2>3. ASSUME NEW S \in SUBSET Packages, Root \in S, ClosedUnder(Seen, S)
        PROVE  Known' \subseteq S
    <3>1. Known \subseteq S
      BY <2>3 DEF TraversalInv, Explored
    <3>2. next \in S
      BY <1>6, <3>1
    <3>3. D \subseteq S
      BY <1>8, <2>3, <3>2 DEF ClosedUnder
    <3> QED
      BY <1>6, <3>1, <3>3
  <2>4. \A S : ClosedUnder(Seen, S)' <=> ClosedUnder(Seen, S')
    BY <1>7 DEF ClosedUnder
  <2> QED
    BY <1>7, <2>1, <2>2, <2>3, <2>4 DEF Explored, ClosedUnder
<1>11. Ended'
  BY <1>1 DEF Ended
<1> QED
  BY <1>1, <1>9, <1>10, <1>11 DEF TraversalInv

(* The ends of the script change nothing that has been found.              *)
LEMMA EndKeeps ==
    ASSUME TraversalInv, PackageNotFound \/ PrintPackageInfo
    PROVE  TraversalInv'
<1>1. /\ UNCHANGED <<fields, installed, queue, inspected>>
      /\ TraversalTypeOK /\ Explored /\ Ended
      /\ fields \in Contents
  BY DEF TraversalInv, PackageNotFound, PrintPackageInfo
<1>2. Known' = Known /\ Explored'
  BY <1>1 DEF Known, Listed, Explored, ClosedUnder, Seen, Hidden
<1>3. CASE PackageNotFound
  BY <1>1, <1>2, <1>3 DEF TraversalInv, PackageNotFound, TraversalTypeOK, Ended
<1>4. CASE PrintPackageInfo
  <2>1. /\ DependencyList \in SUBSET (Packages \ {Root})
        /\ FileDependencies \in SUBSET Definitions
    BY <1>1 DEF DependencyList, FileDependencies, Definitions, TraversalTypeOK
  <2>2. TraversalTypeOK'
    BY <1>1, <1>4, <2>1 DEF PrintPackageInfo, TraversalTypeOK
  <2>3. Ended'
    BY <1>1, <1>4 DEF PrintPackageInfo, Ended, DependencyList, FileDependencies
  <2> QED
    BY <1>1, <1>2, <2>2, <2>3 DEF TraversalInv
<1> QED
  BY <1>3, <1>4

(* The inductive invariant of the traversal.                               *)
THEOREM TraversalInvariant == TraversalSpec => []TraversalInv
<1>1. TraversalInv /\ [TraversalNext]_traversalVars => TraversalInv'
  <2> SUFFICES ASSUME TraversalInv, [TraversalNext]_traversalVars
               PROVE  TraversalInv'
    OBVIOUS
  <2>1. CASE UNCHANGED traversalVars
    BY <2>1 DEF traversalVars, TraversalInv, TraversalTypeOK, Explored, Ended,
                Known, Listed, ClosedUnder, Seen, Hidden, DependencyList,
                FileDependencies
  <2>2. CASE TraversalNext
    BY <2>2, SkipKeeps, InspectKeeps, EndKeeps DEF TraversalNext
  <2> QED
    BY <2>1, <2>2
<1> QED
  BY TraversalStarts, <1>1, PTL DEF TraversalSpec

(* Everything known is reached by the search, and once the list is empty   *)
(* everything that the search reaches has been inspected.                  *)
LEMMA KnownIsReached ==
    ASSUME TraversalInv
    PROVE  /\ Known \subseteq Reached
           /\ queue = <<>> => Reached = inspected
<1>1. Known \subseteq Packages
  BY DEF TraversalInv, TraversalTypeOK, Known, Listed
<1>2. Reached = Closure(Seen)
  BY DEF Reached, Seen
<1>3. Known \subseteq Reached
  BY <1>1, <1>2 DEF TraversalInv, Explored, Closure
<1>4. ASSUME queue = <<>> PROVE Reached \subseteq inspected
  <2>1. Known = inspected
    BY <1>4, NothingListed DEF Known
  <2>2. /\ Root \in inspected /\ ClosedUnder(Seen, inspected)
        /\ inspected \in SUBSET Packages
    BY <1>1, <2>1 DEF TraversalInv, Explored, ClosedUnder
  <2> QED
    BY <1>2, <2>2 DEF Closure
<1> QED
  BY <1>3, <1>4 DEF Known

(* What is reached by fewer fields is reached by more.                     *)
LEMMA ReachedIsNeeded == Reached \subseteq Needed
<1>1. \A S : ClosedUnder(fields, S) => ClosedUnder({f \in fields : ~Hidden(f)}, S)
  BY DEF ClosedUnder
<1> QED
  BY <1>1 DEF Reached, Needed, Closure

(* What has been printed: the packages that the search reached.            *)
LEMMA PrintedIsReached ==
    ASSUME TraversalInv, stage = "printed"
    PROVE  /\ Found = Reached /\ Found = inspected
           /\ output.dependencies = Reached \ {Root}
           /\ output.files = FileDependencies
           /\ \A f \in Seen :
                packageOf[f.owner] \in inspected => packageOf[f.type] \in inspected
<1>1. queue = <<>> /\ output = [dependencies |-> DependencyList, files |-> FileDependencies]
  BY DEF TraversalInv, Ended
<1>2. Known = inspected
  BY <1>1, NothingListed DEF Known
<1>3. Reached = inspected
  BY <1>1, KnownIsReached
<1>4. Root \in inspected
  BY <1>2 DEF TraversalInv, Explored
<1>5. \A f \in Seen : packageOf[f.owner] \in inspected => packageOf[f.type] \in inspected
  BY <1>2 DEF TraversalInv, Explored
<1> QED
  BY <1>1, <1>3, <1>4, <1>5 DEF Found, DependencyList

(* Type correctness of the traversal.                                      *)
THEOREM TraversalTypesHold == TraversalSpec => []TraversalTypeOK
BY TraversalInvariant, PTL DEF TraversalInv

(* No package is printed that the given one does not need, and one that it *)
(* needs is left out only behind a sequence or array of an .idl file.      *)
THEOREM TraversalFindsNeeded == TraversalSpec => []FindsNeeded
<1>1. ASSUME TraversalInv, stage = "printed"
      PROVE  /\ Found \subseteq Needed
             /\ \A f \in fields :
                packageOf[f.owner] \in Found /\ packageOf[f.type] \notin Found
                    => Hidden(f)
  BY <1>1, PrintedIsReached, ReachedIsNeeded DEF Seen
<1>2. TraversalInv => FindsNeeded
  BY <1>1 DEF FindsNeeded
<1> QED
  BY TraversalInvariant, <1>2, PTL

(* Where no .idl file has a sequence or array of a message, the script     *)
(* finds all the packages that are needed, and none besides.               *)
THEOREM TraversalIsExact ==
    TraversalSpec =>
        [](stage = "printed" /\ (\A f \in fields : ~Hidden(f))
            => output.dependencies = Needed \ {Root})
<1>1. ASSUME TraversalInv, stage = "printed", \A f \in fields : ~Hidden(f)
      PROVE  output.dependencies = Needed \ {Root}
  <2>1. {f \in fields : ~Hidden(f)} = fields
    BY <1>1
  <2>2. Reached = Needed
    BY <2>1 DEF Reached, Needed
  <2> QED
    BY <1>1, <2>2, PrintedIsReached
<1>2. TraversalInv => (stage = "printed" /\ (\A f \in fields : ~Hidden(f))
                        => output.dependencies = Needed \ {Root})
  BY <1>1
<1> QED
  BY TraversalInvariant, <1>2, PTL

(* The script fails exactly if a package that its search reaches is        *)
(* missing.                                                                *)
THEOREM TraversalFailsForMissing == TraversalSpec => []FailsForMissing
<1>1. ASSUME TraversalInv PROVE FailsForMissing
  <2>1. stage = "printed" => Reached \subseteq installed
    BY <1>1, PrintedIsReached DEF TraversalInv, TraversalTypeOK
  <2>2. ASSUME stage = "failed" PROVE ~(Reached \subseteq installed)
    <3>1. queue # <<>> /\ Head(queue) \notin installed /\ queue \in Seq(Packages)
      BY <1>1, <2>2 DEF TraversalInv, Ended, TraversalTypeOK
    <3>2. Head(queue) \in Known
      BY <3>1, HeadAndTail DEF Known
    <3> QED
      BY <1>1, <3>1, <3>2, KnownIsReached
  <2> QED
    BY <2>1, <2>2 DEF FailsForMissing
<1> QED
  BY TraversalInvariant, <1>1, PTL

(* The files that CMake watches hold the package's own, and with a file    *)
(* that of every type its fields have, but for sequences and arrays of     *)
(* .idl files.                                                             *)
THEOREM TraversalFilesCover == TraversalSpec => []FilesCoverTypes
<1>1. ASSUME TraversalInv, stage = "printed"
      PROVE  /\ {d \in Definitions : packageOf[d] = Root} \subseteq output.files
             /\ \A f \in fields :
                f.owner \in output.files /\ f.type \notin output.files => Hidden(f)
  <2>1. output.files = FileDependencies /\ Found = inspected /\ Root \in inspected
    BY <1>1, PrintedIsReached DEF Found
  <2>2. {d \in Definitions : packageOf[d] = Root} \subseteq output.files
    BY <2>1 DEF FileDependencies, Definitions
  <2>3. ASSUME NEW f \in fields, f.owner \in output.files, ~Hidden(f)
        PROVE  f.type \in output.files
    <3>1. packageOf[f.owner] \in inspected
      BY <2>1, <2>3 DEF FileDependencies
    <3>2. packageOf[f.type] \in inspected
      BY <1>1, <2>3, <3>1, PrintedIsReached DEF Seen
    <3>3. f.type \in Messages
      BY <1>1 DEF TraversalInv, TraversalTypeOK, Fields
    <3> QED
      BY <2>1, <3>2, <3>3 DEF FileDependencies
  <2> QED
    BY <2>2, <2>3
<1>2. TraversalInv => FilesCoverTypes
  BY <1>1 DEF FilesCoverTypes
<1> QED
  BY TraversalInvariant, <1>2, PTL

(* The fields of packages that have not been inspected.                    *)
Unread == {f \in fields : packageOf[f.owner] \notin inspected}

(* The number of steps that are left is a number.                          *)
LEMMA StepsLeftType ==
    ASSUME TraversalInv
    PROVE  /\ IsFiniteSet(Unread) /\ Cardinality(Unread) \in Nat
           /\ Len(queue) \in Nat
           /\ StepsLeft = IF stage # "traversing" THEN 0
                          ELSE Cardinality(Unread) + Len(queue) + 1
           /\ StepsLeft \in Nat
<1>1. IsFiniteSet(fields)
  BY EntriesType
<1>2. Unread \subseteq fields
  BY DEF Unread
<1>3. IsFiniteSet(Unread)
  BY <1>1, <1>2, FS_Subset
<1>4. Cardinality(Unread) \in Nat
  BY <1>3, FS_CardinalityType
<1>5. queue \in Seq(Packages)
  BY DEF TraversalInv, TraversalTypeOK
<1>6. StepsLeft = IF stage # "traversing" THEN 0 ELSE Cardinality(Unread) + Len(queue) + 1
  BY DEF StepsLeft, Unread
<1> QED
  BY <1>3, <1>4, <1>5, <1>6

(* Inspecting a package reads all its fields.                              *)
LEMMA InspectReads ==
    ASSUME TraversalInv, Inspect
    PROVE  /\ Cardinality(Unread') \in Nat
           /\ Cardinality(Unread) - Cardinality(Unread') >= Cardinality(Entries(Head(queue)))
<1> DEFINE E == Entries(Head(queue))
<1>1. /\ Head(queue) \notin inspected /\ fields' = fields
      /\ inspected' = inspected \cup {Head(queue)}
  BY DEF Inspect
<1>2. /\ IsFiniteSet(Unread) /\ Cardinality(Unread) \in Nat
      /\ IsFiniteSet(E) /\ Cardinality(E) \in Nat
  BY StepsLeftType, EntriesType
<1>3. Unread' \subseteq Unread \ E
  BY <1>1 DEF Unread, Entries
<1>4. E \subseteq Unread
  BY <1>1 DEF Unread, Entries
<1>5. IsFiniteSet(Unread \ E)
  BY <1>2, FS_Difference
<1>6. Cardinality(Unread \ E) = Cardinality(Unread) - Cardinality(E)
  <2>1. Cardinality(Unread \ E) = Cardinality(Unread) - Cardinality(Unread \cap E)
    BY <1>2, FS_Difference
  <2>2. Unread \cap E = E
    BY <1>4
  <2> QED
    BY <2>1, <2>2
<1>7. Cardinality(Unread') <= Cardinality(Unread \ E) /\ IsFiniteSet(Unread')
  BY <1>3, <1>5, FS_Subset
<1>8. Cardinality(Unread') \in Nat
  BY <1>7, FS_CardinalityType
<1> HIDE DEF E
<1>9. Cardinality(Unread) - Cardinality(Unread') >= Cardinality(E)
  BY <1>2, <1>6, <1>7, <1>8
<1> QED
  BY <1>8, <1>9 DEF E

(* The traversal cannot go on for ever: each of its steps uses up some of  *)
(* the steps that are left, of which there are finitely many.              *)
THEOREM TraversalStepsRunOut ==
    TraversalSpec => StepsRunOut /\ [](StepsLeft \in Nat)
<1> DEFINE U == Cardinality(Unread)
<1>1. ASSUME TraversalInv, SkipInspected PROVE StepsLeft' < StepsLeft
  <2>1. /\ queue # <<>> /\ queue \in Seq(Packages)
        /\ stage = "traversing" /\ stage' = stage
        /\ queue' = Tail(queue)
    BY <1>1 DEF SkipInspected, TraversalInv, TraversalTypeOK
  <2>2. Len(queue') = Len(queue) - 1 /\ Len(queue) \in Nat
    BY <2>1
  <2>3. Unread' = Unread
    BY <1>1 DEF SkipInspected, Unread
  <2>4. U \in Nat /\ StepsLeft = U + Len(queue) + 1
    BY <1>1, <2>1, StepsLeftType
  <2>5. StepsLeft' = U + Len(queue') + 1
    BY <1>1, <2>1, <2>3 DEF StepsLeft, Unread
  <2> HIDE DEF U
  <2> QED
    BY <2>2, <2>4, <2>5
<1>2. ASSUME TraversalInv, Inspect PROVE StepsLeft' < StepsLeft
  <2> DEFINE n == Cardinality(Entries(Head(queue)))
  <2>1. /\ queue # <<>> /\ queue \in Seq(Packages)
        /\ stage = "traversing" /\ stage' = stage
    BY <1>2 DEF Inspect, TraversalInv, TraversalTypeOK
  <2>2. PICK pushed \in Listings(Entries(Head(queue))) : queue' = pushed \o Tail(queue)
    BY <1>2 DEF Inspect
  <2>3. pushed \in Seq(Packages) /\ Len(pushed) = n
    BY <1>2, <2>2, ListingsList
  <2>4. /\ Tail(queue) \in Seq(Packages) /\ Len(Tail(queue)) = Len(queue) - 1
        /\ Len(queue) \in Nat
    BY <2>1
  <2>5. Len(queue') = Len(pushed) + Len(Tail(queue))
    BY <2>2, <2>3, <2>4
  <2>6. Cardinality(Unread') \in Nat /\ U - Cardinality(Unread') >= n
    BY <1>2, InspectReads
  <2>7. U \in Nat /\ StepsLeft = U + Len(queue) + 1
    BY <1>2, <2>1, StepsLeftType
  <2>8. StepsLeft' = Cardinality(Unread') + Len(queue') + 1
    BY <2>1 DEF StepsLeft, Unread
  <2>9. n \in Nat
    BY <1>2, EntriesType
  <2> HIDE DEF U, n
  <2> QED
    BY <2>3, <2>4, <2>5, <2>6, <2>7, <2>8, <2>9
<1>3. ASSUME TraversalInv, PackageNotFound \/ PrintPackageInfo
      PROVE  StepsLeft' < StepsLeft
  <2>1. stage = "traversing" /\ stage' # "traversing"
    BY <1>3 DEF PackageNotFound, PrintPackageInfo
  <2>2. U \in Nat /\ Len(queue) \in Nat /\ StepsLeft = U + Len(queue) + 1
    BY <1>3, <2>1, StepsLeftType
  <2>3. StepsLeft' = 0
    BY <2>1 DEF StepsLeft
  <2> HIDE DEF U
  <2> QED
    BY <2>2, <2>3
<1>4. TraversalInv /\ [TraversalNext]_traversalVars
        => [StepsLeft' < StepsLeft]_traversalVars
  BY <1>1, <1>2, <1>3 DEF TraversalNext
<1>5. TraversalInv => StepsLeft \in Nat
  BY StepsLeftType
<1> QED
  BY <1>4, <1>5, TraversalInvariant, PTL DEF TraversalSpec, StepsRunOut
=============================================================================
