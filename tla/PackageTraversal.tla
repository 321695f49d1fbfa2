-------------------------- MODULE PackageTraversal --------------------------
(***************************************************************************)
(* The search for the packages that a generated conversion library needs   *)
(* (scripts/is_ros2_rosidl_find_package_info.py): a stack of package names *)
(* is worked off, each package's definitions are read once, and what they  *)
(* refer to is pushed.  The result is printed for CMake, or the script     *)
(* ends with an exception and prints nothing.                              *)
(*                                                                         *)
(* A definition is a message or a service.  Those of IdlOnly come as .idl  *)
(* file alone, the others as .msg or .srv file, which is then preferred to *)
(* the .idl file of the same name.  Fields of primitive types are left out.*)
(***************************************************************************)
EXTENDS Integers, Sequences, FiniteSets

CONSTANTS
    Packages,
    Root,         \* the package given on the command line
    Messages,     \* message definitions, in any package
    Services,     \* service definitions
    packageOf,    \* the package of a definition
    IdlOnly,      \* definitions without a .msg or .srv file
    Copies,       \* tells the fields of a definition apart that are alike
    Contents      \* what the definitions may look like: sets of fields

Definitions == Messages \cup Services

(* A field of a definition that has a message type, or is a sequence or    *)
(* array of it (nested).                                                   *)
Fields == [owner : Definitions, type : Messages, nested : BOOLEAN, copy : Copies]

ASSUME TraversalAssumption ==
    /\ IsFiniteSet(Packages) /\ Root \in Packages
    /\ packageOf \in [Definitions -> Packages]
    /\ Contents \subseteq SUBSET Fields
    /\ \A C \in Contents : IsFiniteSet(C)

VARIABLES
    fields,      \* the fields of all definitions; constant
    installed,   \* the packages that have a share directory; constant
    queue,       \* package_queue, its end first
    inspected,   \* the keys of inspected_packages
    stage,       \* traverse_packages runs, has failed, or all is printed
    output       \* what print_package_info has printed

traversalVars == <<fields, installed, queue, inspected, stage, output>>

TraversalInit ==
    /\ fields    \in Contents
    /\ installed \in SUBSET Packages
    /\ queue     = <<Root>>
    /\ inspected = {}
    /\ stage     = "traversing"
    /\ output    = [dependencies |-> {}, files |-> {}]

(* In an .idl file the script passes over a field whose type is not a      *)
(* message by itself (NamespacedType).                                     *)
Hidden(f) == f.owner \in IdlOnly /\ f.nested

(* The fields of package p that add an entry to info.dependencies, one     *)
(* each, also when they have the same type.                                *)
Entries(p) == {f \in fields : packageOf[f.owner] = p /\ ~Hidden(f)}

(* The lists of packages that the fields E may be entered as.  The order   *)
(* of files in a directory is arbitrary; that the fields of one file stay  *)
(* together, in its order, is left out, which only adds behaviours.        *)
Listings(E) ==
    {[i \in DOMAIN o |-> packageOf[o[i].type]] :
        o \in {g \in [1 .. Cardinality(E) -> E] : \A f \in E : \E i \in DOMAIN g : g[i] = f}}

(* Deviation: the loop looks at the end of the list and leaves it there. *)
KeepInspected ==
    /\ stage = "traversing"
    /\ queue # <<>>
    /\ Head(queue) \in inspected
    /\ UNCHANGED traversalVars

(* next_pkg has been inspected before: continue. *)
SkipInspected ==
    /\ stage = "traversing"
    /\ queue # <<>>
    /\ Head(queue) \in inspected
    /\ queue' = Tail(queue)
    /\ UNCHANGED <<fields, installed, inspected, stage, output>>

(* Deviation: the dependencies take the place of the list. *)
InspectAndForget ==
    /\ stage = "traversing"
    /\ queue # <<>>
    /\ Head(queue) \in installed \ inspected
    /\ inspected' = inspected \cup {Head(queue)}
    /\ queue' \in Listings(Entries(Head(queue)))
    /\ UNCHANGED <<fields, installed, stage, output>>

(* Deviation: the package that has been read is not remembered. *)
InspectUnmarked ==
    /\ stage = "traversing"
    /\ queue # <<>>
    /\ Head(queue) \in installed \ inspected
    /\ \E pushed \in Listings(Entries(Head(queue))) :
           queue' = pushed \o Tail(queue)
    /\ UNCHANGED <<fields, installed, inspected, stage, output>>

(* next_pkg is inspected and its dependencies are pushed. *)
Inspect ==
    /\ stage = "traversing"
    /\ queue # <<>>
    /\ Head(queue) \in installed \ inspected
    /\ inspected' = inspected \cup {Head(queue)}
    /\ \E pushed \in Listings(Entries(Head(queue))) :
           queue' = pushed \o Tail(queue)
    /\ UNCHANGED <<fields, installed, stage, output>>

(* Deviation: a package without share directory is passed over. *)
PassOverMissing ==
    /\ stage = "traversing"
    /\ queue # <<>>
    /\ Head(queue) \notin installed \cup inspected
    /\ queue' = Tail(queue)
    /\ UNCHANGED <<fields, installed, inspected, stage, output>>

(* get_package_share_directory raises PackageNotFoundError. *)
PackageNotFound ==
    /\ stage = "traversing"
    /\ queue # <<>>
    /\ Head(queue) \notin installed \cup inspected
    /\ stage' = "failed"
    /\ UNCHANGED <<fields, installed, queue, inspected, output>>

(* Deviation: only the definitions of the package itself. *)
OwnFiles == {d \in Definitions : packageOf[d] = Root}

(* file_dependencies: the messages of all packages found and the services  *)
(* of the package itself.                                                  *)
FileDependencies ==
    {m \in Messages : packageOf[m] \in inspected}
        \cup {s \in Services : packageOf[s] = Root}

(* Deviation: the list of dependencies keeps the package itself. *)
DependencyListWithRoot == inspected

DependencyList == inspected \ {Root}

PrintPackageInfo ==
    /\ stage = "traversing"
    /\ queue = <<>>
    /\ stage'  = "printed"
    /\ output' = [dependencies |-> DependencyList, files |-> FileDependencies]
    /\ UNCHANGED <<fields, installed, queue, inspected>>

TraversalNext ==
    SkipInspected \/ Inspect \/ PackageNotFound \/ PrintPackageInfo

TraversalSpec == TraversalInit /\ [][TraversalNext]_traversalVars

(* The script runs by itself. *)
FairTraversalSpec == TraversalSpec /\ WF_traversalVars(TraversalNext)
-----------------------------------------------------------------------------
(* Every variable has its type, and a package is not its own dependency.   *)
TraversalTypeOK ==
    /\ fields    \subseteq Fields
    /\ installed \subseteq Packages
    /\ queue     \in Seq(Packages)
    /\ inspected \subseteq installed
    /\ stage     \in {"traversing", "failed", "printed"}
    /\ output    \in [dependencies : SUBSET (Packages \ {Root}),
                      files : SUBSET Definitions]

(* The packages around Root that the fields F lead to, directly or through *)
(* others: the smallest set with Root and, with the package of a field's   *)
(* owner, that of its type.                                                *)
ClosedUnder(F, S) == \A f \in F : packageOf[f.owner] \in S => packageOf[f.type] \in S

Closure(F) ==
    {p \in Packages :
        \A S \in SUBSET Packages : (Root \in S /\ ClosedUnder(F, S)) => p \in S}

Needed  == Closure(fields)
Reached == Closure({f \in fields : ~Hidden(f)})

(* The package itself and the dependencies printed for it. *)
Found == output.dependencies \cup {Root}

(* All that is printed is needed, by a field of whatever form; and where   *)
(* the packages printed need another one, which the CMake function of this *)
(* script promises to find, every field that leads there is a sequence or  *)
(* array in an .idl file (traverse_packages, find_package_info, lines 57   *)
(* and 85).                                                                *)
FindsNeeded ==
    stage = "printed" =>
        /\ Found \subseteq Needed
        /\ \A f \in fields :
            packageOf[f.owner] \in Found /\ packageOf[f.type] \notin Found => Hidden(f)

(* The script fails if and only if some package that its search reaches is *)
(* missing: not for one that it need not read, nor for one that only       *)
(* fields it passes over lead to (find_package_info).                      *)
FailsForMissing ==
    /\ stage = "printed" => Reached \subseteq installed
    /\ stage = "failed"  => ~(Reached \subseteq installed)

(* The files whose change lets CMake generate the library anew are all     *)
(* those of the package, and with a file that of the type of each of its   *)
(* fields, unless the script passes over the field (file_dependencies).    *)
FilesCoverTypes ==
    stage = "printed" =>
        /\ {d \in Definitions : packageOf[d] = Root} \subseteq output.files
        /\ \A f \in fields :
            f.owner \in output.files /\ f.type \notin output.files => Hidden(f)

(* How many steps the traversal still takes at most: one for every entry   *)
(* of the list, or that a package not yet inspected may still add, and one *)
(* for the end.                                                            *)
StepsLeft ==
    IF stage # "traversing" THEN 0
    ELSE Cardinality({f \in fields : packageOf[f.owner] \notin inspected})
            + Len(queue) + 1

(* Every step brings the end nearer, although the list of packages grows   *)
(* by an entry for every field, and packages may depend on each other      *)
(* (traverse_packages).                                                    *)
StepsRunOut == [][StepsLeft' < StepsLeft]_traversalVars

(* The traversal ends, also for packages that depend on each other or on   *)
(* themselves.                                                             *)
TraversalEnds == <>(stage \in {"failed", "printed"})
=============================================================================
