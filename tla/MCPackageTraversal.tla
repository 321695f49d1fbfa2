------------------------- MODULE MCPackageTraversal -------------------------
(***************************************************************************)
(* Three packages: a message and a service in the one that is asked for,   *)
(* the same as .idl files in another, a message in the third.  They have    *)
(* MaxFields fields in all or none, of which several may be alike, and     *)
(* sequences only where it matters.                                        *)
(***************************************************************************)
EXTENDS PackageTraversal, TLC

CONSTANTS p, q, r, pm, ps, qm, qs, rm, MaxFields

MCPackageOf == (pm :> p) @@ (ps :> p) @@ (qm :> q) @@ (qs :> q) @@ (rm :> r)

MCCopies == 1 .. MaxFields

MCContents ==
    LET Copy(f, i) ==
            [f[i] EXCEPT !.copy = Cardinality({j \in 1 .. i : f[j] = f[i]})]
        F == {f \in Fields : f.copy = 1 /\ (f.nested => f.owner \in IdlOnly)}
    IN  {{}} \cup {{Copy(f, i) : i \in 1 .. MaxFields} : f \in [1 .. MaxFields -> F]}
=============================================================================
