------------------------- MODULE ComponentMoveProofs -------------------------
(***************************************************************************)
(* For any builds, sound, broken or refused, any number of requests and    *)
(* any faults: a build other than the one on record is rendered over an    *)
(* app's data only once the data was exported for it, and that export is   *)
(* pruned only after moveExportsKept later requests.                       *)
(*                                                                         *)
(* ExportFirst is not inductive: that the export of a move is Ready when   *)
(* the build rolls out is decided in the phase before; and that no export  *)
(* is pruned sooner rests on the order in which all exports were made,     *)
(* lost records and exports made again among them.                         *)
(***************************************************************************)
EXTENDS ComponentMove, FiniteSetTheorems, TLAPS

MovePhases == {"", "Exporting", "Rolling", "Done", "RolledBack", "Failed"}
MaybeBuilds == Builds \cup {NoBuild}
ExportNames == [build : MaybeBuilds, at : Nat]
ExportRecords ==
    [name : ExportNames, phase : {"pending", "ready", "failed"}, born : Nat]
Rollouts ==
    [digest : MaybeBuilds, previous : MaybeBuilds, target : MaybeBuilds,
     phase : MovePhases, export : ExportNames, at : Nat]
MoveTypes ==
    /\ pin \in [build : Builds, at : Nat] /\ ro \in Rollouts
    /\ exports \subseteq ExportRecords
    /\ \A e \in exports : e.name.build # NoBuild
    /\ \E n \in Nat : \A e \in exports : e.born <= n
    /\ rendered \in MaybeBuilds
    /\ before \in ExportNames /\ deleted \in ExportNames

\* The record: its export is the one of its target and request, and the export
\* before the build that is rendered is of no later request.
RecordInv ==
    /\ ~Recorded => ro = NoRollout
    /\ Recorded => ro.target \in Builds /\ rendered \in Builds
    /\ ro.at <= pin.at /\ (Recorded /\ ro.at = pin.at => ro.target = pin.build)
    /\ \/ ro.export = moveExportName(ro.target, ro.at)
       \/ ro.export = NoExport /\ ro.phase \in {"", "Done"}
    /\ before.at <= ro.at /\ (ro.phase = "Exporting" => before.at < ro.at)

\* The exports: one per request, made in the order of requests but for those
\* that were made again.
Distinct == \A e, f \in exports : e.name.at = f.name.at => e = f
Known == \A e \in exports : /\ e.name.at <= pin.at
                            /\ e.name.at = pin.at => e.name.build = pin.build
After(E, x) == \A e, f \in E : e.name = x /\ f.born > e.born => f.name.at > x.at
Latest == \A e, f \in exports : e.name.at = pin.at => f.born <= e.born
Made == \A e \in exports : e.name.at = pin.at => Asked \/ ro.at = pin.at
Own == \A e \in exports :
           ro.export # NoExport /\ e.name.at = ro.at => e.name = ro.export
ListInv ==
    /\ Distinct /\ Known /\ Latest /\ Made /\ Own
    /\ After(exports, ro.export) /\ After(exports, before)

\* What is to be shown, and that a build in its roll-out has its export.
Pruned == before # ro.export /\ pin.at >= before.at + moveExportsKept
CopyInv ==
    /\ Recorded /\ rendered # ro.digest =>
           before.build = rendered /\ (Copied(before) \/ Pruned)
    /\ ro.phase \in {"Rolling", "RolledBack"} => Copied(ro.export)

MoveInv == MoveTypes /\ RecordInv /\ ListInv /\ CopyInv

----------------------------------------------------------------------------
(* Exports that are made, and exports that go. *)

\* A bounded set of numbers has a greatest one.
LEMMA MaxIs ==
    ASSUME NEW S \in SUBSET Nat, NEW s \in S, NEW n \in Nat, \A x \in S : x <= n
    PROVE  Max(S) \in S /\ \A x \in S : x <= Max(S)
  <1> DEFINE B == {m \in Nat : \A x \in S : x <= m}
             R == OpToRel(<, Nat)
  <1>1. \E m \in B : \A k \in B : ~(<<k, m>> \in R)
    <2>1. IsWellFoundedOn(R, Nat)
      BY NatLessThanWellFounded
    <2>2. B \subseteq Nat /\ B # {}
      OBVIOUS
    <2> HIDE DEF B, R
    <2> QED
      BY <2>1, <2>2, WFMin
  <1>2. PICK m \in B : \A k \in B : ~(<<k, m>> \in R)
    BY <1>1
  <1>3. \A k \in B : ~(k < m)
    BY <1>2 DEF OpToRel
  <1>4. m \in S
    <2> SUFFICES ASSUME m \notin S PROVE FALSE
      OBVIOUS
    <2>1. \A x \in S : x < m
      OBVIOUS
    <2>2. m - 1 \in Nat /\ \A x \in S : x <= m - 1
      BY <2>1
    <2> QED
      BY <1>3, <2>2
  <1>5. \E x \in S : \A y \in S : x >= y
    BY <1>4
  <1> QED
    BY <1>5 DEF Max

\* An export that is made is the newest.
LEMMA EnsureAdds ==
    ASSUME MoveTypes, NEW E \in SUBSET exports, NEW name \in ExportNames,
           \A e \in E : e.name # name
    PROVE  \E n \in ExportRecords :
               /\ ensureMoveExport(E, name) = E \cup {n}
               /\ n.name = name /\ n.phase = "pending"
               /\ \A e \in E : e.born < n.born
  <1> DEFINE S == {0} \cup {e.born : e \in E}
             n == [name |-> name, phase |-> "pending", born |-> 1 + Max(S)]
  <1>1. \A e \in E : e.born \in Nat
    BY DEF MoveTypes, ExportRecords
  <1>2. PICK b \in Nat : \A e \in E : e.born <= b
    BY DEF MoveTypes
  <1>3. S \in SUBSET Nat /\ 0 \in S /\ \A x \in S : x <= b
    BY <1>1, <1>2
  <1>4. Max(S) \in S /\ \A x \in S : x <= Max(S)
    <2> HIDE DEF S
    <2> QED
      BY <1>3, MaxIs
  <1>5. Max(S) \in Nat /\ \A e \in E : e.born <= Max(S)
    BY <1>3, <1>4
  <1>6. ensureMoveExport(E, name) = E \cup {n}
    BY DEF ensureMoveExport
  <1> HIDE DEF S
  <1>7. n \in ExportRecords
    BY <1>5 DEF ExportRecords
  <1>8. \A e \in E : e.born < n.born
    BY <1>1, <1>5
  <1> QED
    BY <1>6, <1>7, <1>8

\* One that is there already is left alone.
LEMMA EnsureLeaves ==
    ASSUME NEW E, NEW name, \E e \in E : e.name = name
    PROVE  ensureMoveExport(E, name) = E
  BY DEF ensureMoveExport

\* The export before the rendered build goes only if the requests since then
\* are as many as there are exports kept.
LEMMA PruneBound ==
    ASSUME MoveTypes, RecordInv, ListInv, NEW e \in exports, e.name = before,
           e \notin pruneMoveExports
    PROVE  Pruned
  <1> DEFINE finished == {f \in exports : IsTerminal(f)}
             newer == {f \in finished : f.born > e.born}
             T == (before.at + 1)..pin.at
             at == [f \in newer |-> f.name.at]
  <1>1. e.name # ro.export /\ Cardinality(newer) >= moveExportsKept
    BY DEF pruneMoveExports
  <1>a. before.at \in Nat /\ pin.at \in Nat /\ ro.at \in Nat
    BY DEF MoveTypes, ExportNames, Rollouts
  <1>b. before.at <= ro.at /\ ro.at <= pin.at
    BY DEF RecordInv
  <1>2. before.at \in Nat /\ pin.at \in Nat /\ before.at <= pin.at
    BY <1>a, <1>b
  <1>3. ASSUME NEW f \in newer PROVE f.name.at \in T
    <2>1. f \in exports /\ f.born > e.born /\ f.name.at \in Nat
      BY DEF MoveTypes, ExportRecords, ExportNames
    <2>2. f.name.at > before.at /\ f.name.at <= pin.at
      BY <2>1 DEF ListInv, After, Known
    <2> QED
      BY <1>2, <2>1, <2>2
  <1>4. \A f, g \in newer : f.name.at = g.name.at => f = g
    BY DEF ListInv, Distinct
  <1>5. at \in Injection(newer, T)
    <2> HIDE DEF newer, T
    <2> QED
      BY <1>3, <1>4 DEF Injection, IsInjective
  <1>6. IsFiniteSet(T) /\ Cardinality(T) = pin.at - before.at
    <2>1. before.at + 1 \in Int /\ pin.at \in Int
      BY <1>2
    <2>2. /\ IsFiniteSet(T)
          /\ Cardinality(T) = IF before.at + 1 > pin.at THEN 0
                              ELSE pin.at - (before.at + 1) + 1
      BY <2>1, FS_Interval
    <2> QED
      BY <1>2, <2>2
  <1>7. Cardinality(newer) <= Cardinality(T) /\ IsFiniteSet(newer)
    <2> HIDE DEF newer, T, at
    <2> QED
      BY <1>5, <1>6, FS_Injection
  <1>8. Cardinality(newer) \in Nat
    <2> HIDE DEF newer
    <2> QED
      BY <1>7, FS_CardinalityType
  <1> HIDE DEF newer, T
  <1> QED
    BY <1>1, <1>2, <1>6, <1>7, <1>8, MoveConfig DEF Pruned

LEMMA PruneLess == pruneMoveExports \subseteq exports
  BY DEF pruneMoveExports

\* A pruning keeps the export of the move on record.
LEMMA PruneKeeps ==
    ASSUME NEW e \in exports, e.name = ro.export
    PROVE  e \in pruneMoveExports
  BY DEF pruneMoveExports

\* What is kept of the exports by a step that makes none.
Listed ==
    /\ exports' \subseteq ExportRecords /\ \A e \in exports' : e.name.build # NoBuild
    /\ \E n \in Nat : \A e \in exports' : e.born <= n
    /\ Distinct' /\ Known' /\ Latest'
LEMMA Fewer ==
    ASSUME MoveTypes, ListInv, pin' = pin, exports' \subseteq ExportRecords,
           \A g \in exports' : \E e \in exports : g.name = e.name /\ g.born = e.born,
           \A g, h \in exports' : g.name.at = h.name.at => g = h
    PROVE  Listed /\ \A x : After(exports, x) => After(exports', x)
  <1>1. \A e \in exports' : e.name.build # NoBuild
    BY DEF MoveTypes
  <1>2. \E n \in Nat : \A e \in exports' : e.born <= n
    BY DEF MoveTypes
  <1>3. Distinct' /\ Known' /\ Latest'
    BY DEF ListInv, Distinct, Known, Latest
  <1>4. ASSUME NEW x, After(exports, x) PROVE After(exports', x)
    BY <1>4 DEF After
  <1> QED
    BY <1>1, <1>2, <1>3, <1>4 DEF Listed

\* And by one that makes an export, of the request in the pin or of an earlier
\* one while there is none of the request in the pin.
LEMMA OneMore ==
    ASSUME MoveTypes, ListInv, pin' = pin, NEW E \in SUBSET exports,
           NEW n \in ExportRecords, exports' = E \cup {n}, n.name.build # NoBuild,
           \A e \in E : e.born < n.born /\ e.name.at # n.name.at,
           n.name.at <= pin.at, n.name.at = pin.at => n.name.build = pin.build,
           n.name.at = pin.at \/ \A e \in E : e.name.at # pin.at
    PROVE  /\ Listed
           /\ \A x : After(exports, x) /\ x.at < n.name.at => After(exports', x)
           /\ After(exports', n.name)
  <1>0. E \subseteq ExportRecords /\ n.born \in Nat /\ \A e \in E : e.born \in Nat
    BY DEF MoveTypes, ExportRecords
  <1>1. exports' \subseteq ExportRecords /\ \A e \in exports' : e.name.build # NoBuild
    BY <1>0 DEF MoveTypes
  <1>2. \A e \in exports' : e.born <= n.born
    BY <1>0
  <1>3. Distinct' /\ Known' /\ Latest'
    <2>1. Distinct'
      BY DEF ListInv, Distinct
    <2>2. Known'
      BY DEF ListInv, Known
    <2>3. Latest'
      <3> SUFFICES ASSUME NEW e \in exports', NEW f \in exports', e.name.at = pin.at
                   PROVE  f.born <= e.born
        BY DEF Latest
      <3>1. CASE n.name.at = pin.at
        BY <1>2, <3>1
      <3>2. CASE \A g \in E : g.name.at # pin.at
        BY <1>2, <3>2
      <3> QED
        BY <3>1, <3>2
    <2> QED
      BY <2>1, <2>2, <2>3
  <1>4. ASSUME NEW x, After(exports, x), x.at < n.name.at PROVE After(exports', x)
    <2> SUFFICES ASSUME NEW e \in exports', NEW f \in exports', e.name = x,
                        f.born > e.born
                 PROVE  f.name.at > x.at
      BY DEF After
    <2>1. e \in E
      BY <1>4, <1>0
    <2>2. CASE f = n
      BY <1>4, <2>2 DEF MoveTypes, ExportRecords, ExportNames
    <2>3. CASE f \in E
      BY <1>4, <2>1, <2>3 DEF After
    <2> QED
      BY <2>2, <2>3
  <1>5. After(exports', n.name)
    <2> SUFFICES ASSUME NEW e \in exports', NEW f \in exports', e.name = n.name
                 PROVE  ~(f.born > e.born)
      BY DEF After
    <2>1. e = n
      OBVIOUS
    <2> QED
      BY <1>0, <1>2, <2>1
  <1> QED
    BY <1>0, <1>1, <1>2, <1>3, <1>4, <1>5 DEF Listed

----------------------------------------------------------------------------
(* The invariant. *)

LEMMA MoveInit == Init => MoveInv
  <1> SUFFICES ASSUME Init PROVE MoveInv
    OBVIOUS
  <1>1. MoveTypes
    BY MoveConfig DEF Init, MoveTypes, Rollouts, NoRollout, NoExport, moveExportName,
       MovePhases, MaybeBuilds, ExportNames, ExportRecords
  <1>2. RecordInv
    <2>1. /\ ro = NoRollout /\ ro.digest = NoBuild /\ ro.phase = "" /\ ro.at = 0
          /\ ro.export = NoExport /\ before.at = 0 /\ pin.at = 0
      BY DEF Init, NoRollout, NoExport, moveExportName
    <2>2. ro.at <= pin.at /\ before.at <= ro.at
      <3>1. ro.at = pin.at /\ before.at = ro.at /\ ro.at \in Nat
        BY <1>1 DEF Init, NoRollout, NoExport, moveExportName, MoveTypes, Rollouts
      <3> QED
        BY <3>1
    <2>3. ro.phase # "Exporting" /\ ro.phase \in {"", "Done"}
      BY <2>1
    <2>4. ~Recorded
      BY <2>1 DEF Recorded
    <2> QED
      BY <2>1, <2>2, <2>3, <2>4, Zenon DEF RecordInv
  <1>3. ListInv
    BY DEF Init, ListInv, Distinct, Known, Latest, Made, Own, After
  <1>4. CopyInv
    BY DEF Init, CopyInv, Recorded, NoRollout
  <1> QED
    BY <1>1, <1>2, <1>3, <1>4 DEF MoveInv

\* Facts about the record and the pin that every step below uses.
LEMMA Basics ==
    ASSUME MoveTypes, RecordInv
    PROVE  /\ pin.build \in Builds /\ pin.build # NoBuild /\ pin.at \in Nat
           /\ ro.at \in Nat /\ before.at \in Nat /\ ro.export.at \in Nat
           /\ ro.at <= pin.at /\ before.at <= ro.at /\ ro.export.at <= ro.at
           /\ ro.export \in ExportNames /\ before \in ExportNames
  <1>1. pin.build \in Builds /\ pin.at \in Nat
    BY DEF MoveTypes
  <1>2. ro.at \in Nat /\ ro.export \in ExportNames
    BY DEF MoveTypes, Rollouts
  <1>3. before \in ExportNames
    BY DEF MoveTypes
  <1>4. ro.export.at \in Nat /\ before.at \in Nat
    BY <1>2, <1>3 DEF ExportNames
  <1>5. ro.export.at = ro.at \/ ro.export.at = 0
    <2>1. ro.export = moveExportName(ro.target, ro.at) \/ ro.export = NoExport
      BY DEF RecordInv
    <2>2. \A b : moveExportName(b, ro.at).at = ro.at /\ NoExport.at = 0
      BY DEF moveExportName, NoExport
    <2> QED
      BY <2>1, <2>2
  <1>6. ro.at <= pin.at /\ before.at <= ro.at
    BY DEF RecordInv
  <1> QED
    BY <1>1, <1>2, <1>3, <1>4, <1>5, <1>6, MoveConfig

\* A move is begun for a request later than the one on record.
LEMMA AskedLater ==
    ASSUME MoveTypes, RecordInv, Asked
    PROVE  Recorded /\ ro.at < pin.at
  <1>1. Recorded /\ ro.at # pin.at
    BY DEF Asked, Moving, newTarget, retried, RecordInv
  <1> QED
    BY <1>1, Basics

LEMMA StartKeeps ==
    ASSUME MoveInv, NEW ok \in BOOLEAN, StartMove(ok)
    PROVE  MoveInv'
  <1> DEFINE m == moveExportName(pin.build, pin.at)
             r == [ro EXCEPT !.target = pin.build, !.phase = "Exporting",
                             !.export = m, !.at = pin.at]
  <1> USE DEF MoveInv
  <1>1. /\ Asked /\ exports' = ensureMoveExport(pruneMoveExports, m) /\ remade(m)
        /\ ro' = IF ok THEN r ELSE ro
        /\ pin' = pin /\ rendered' = rendered /\ before' = before
    BY DEF StartMove, persist, world
  <1>2. Recorded /\ ro.at < pin.at
    BY <1>1, AskedLater
  <1>3. m \in ExportNames /\ m.at = pin.at /\ m.build = pin.build /\ m # NoExport
    BY Basics, MoveConfig DEF moveExportName, ExportNames, MaybeBuilds, NoExport
  <1>4. /\ r \in Rollouts /\ r.digest = ro.digest /\ r.target = pin.build
        /\ r.phase = "Exporting" /\ r.export = m /\ r.at = pin.at
    BY <1>3, Basics DEF MoveTypes, Rollouts, MovePhases, MaybeBuilds
  <1> HIDE DEF m, r
  <1>5. before # m /\ ro.export # m
    BY <1>2, <1>3, Basics
  <1>6. /\ Listed /\ After(exports', m)
        /\ \A x : After(exports, x) /\ x.at < pin.at => After(exports', x)
        /\ pruneMoveExports \subseteq exports'
        /\ \A e \in exports' : e.name.at # pin.at => e \in exports
    <2>1. CASE \E e \in pruneMoveExports : e.name = m
      <3>1. exports' = pruneMoveExports /\ exports' \subseteq exports
        BY <1>1, <2>1, EnsureLeaves, PruneLess
      <3>2. Listed /\ \A x : After(exports, x) => After(exports', x)
        <4>1. exports' \subseteq ExportRecords
          BY <3>1 DEF MoveTypes
        <4>2. \A g \in exports' : \E e \in exports : g.name = e.name /\ g.born = e.born
          BY <3>1
        <4>3. \A g, h \in exports' : g.name.at = h.name.at => g = h
          BY <3>1 DEF ListInv, Distinct
        <4> QED
          BY <1>1, <4>1, <4>2, <4>3, Fewer
      <3>3. After(exports', m)
        <4>1. \A e, f \in exports' : e.name.at = pin.at => f.born <= e.born
          BY <1>1, <3>2 DEF Listed, Latest
        <4>2. \A e \in exports' : e.born \in Nat
          BY <3>2 DEF Listed, ExportRecords
        <4> QED
          BY <1>3, <4>1, <4>2 DEF After
      <3> QED
        BY <3>1, <3>2, <3>3
    <2>2. CASE \A e \in pruneMoveExports : e.name # m
      <3>1. PICK n \in ExportRecords :
                /\ exports' = pruneMoveExports \cup {n} /\ n.name = m
                /\ \A e \in pruneMoveExports : e.born < n.born
        BY <1>1, <1>3, <2>2, PruneLess, EnsureAdds
      <3>2. \A e \in pruneMoveExports : e.name.at # pin.at
        <4> SUFFICES ASSUME NEW e \in pruneMoveExports, e.name.at = pin.at PROVE FALSE
          OBVIOUS
        <4>1. e.name.build = pin.build /\ e.name \in ExportNames
          BY PruneLess DEF ListInv, Known, MoveTypes, ExportRecords
        <4>2. e.name = m
          BY <4>1 DEF m, moveExportName, ExportNames
        <4> QED
          BY <2>2, <4>2
      <3>3. /\ n.name.build # NoBuild /\ n.name.at = pin.at /\ n.name.at <= pin.at
            /\ n.name.build = pin.build
        BY <1>3, <3>1, Basics
      <3>4. /\ Listed
            /\ \A x : After(exports, x) /\ x.at < n.name.at => After(exports', x)
            /\ After(exports', n.name)
        BY <1>1, <3>1, <3>2, <3>3, PruneLess, OneMore
      <3> QED
        BY <3>1, <3>2, <3>3, <3>4, PruneLess
    <2> QED
      BY <2>1, <2>2
  <1>7. MoveTypes'
    <2>1. ro' \in Rollouts
      BY <1>1, <1>4 DEF MoveTypes
    <2>2. deleted' \in ExportNames
      BY <1>1 DEF remade, Remade, moveExportName, MoveTypes, ExportNames, MaybeBuilds
    <2> QED
      BY <1>1, <1>6, <2>1, <2>2 DEF MoveTypes, Listed
  <1>8. RecordInv'
    <2>1. CASE ok
      <3>1. ro' = r
        BY <1>1, <2>1
      <3>2. r.export = moveExportName(r.target, r.at) /\ before.at < r.at /\ r.at <= pin.at
        BY <1>2, <1>4, Basics DEF m
      <3>3. rendered \in Builds /\ r.digest # NoBuild
        BY <1>2, <1>4 DEF RecordInv, Recorded
      <3> QED
        <4>1. r.target \in Builds /\ (r.phase = "Exporting" => before.at < r.at)
          BY <1>4, <3>2, Basics
        <4>2. before.at <= r.at
          BY <1>4, <3>2, Basics
        <4> QED
          BY <1>1, <1>4, <3>1, <3>2, <3>3, <4>1, <4>2 DEF RecordInv, Recorded
    <2>2. CASE ~ok
      BY <1>1, <2>2 DEF RecordInv, Recorded
    <2> QED
      BY <2>1, <2>2
  <1>9. ListInv'
    <2>1. Distinct' /\ Known' /\ Latest'
      BY <1>6 DEF Listed
    <2>2. After(exports, before) /\ After(exports, ro.export)
      BY DEF ListInv
    <2>3. After(exports', before) /\ After(exports', ro.export)
      BY <1>2, <1>6, <2>2, Basics
    <2>4. CASE ok
      <3>1. ro' = r
        BY <1>1, <2>4
      <3>2. Made'
        BY <1>1, <1>4, <3>1 DEF Made
      <3>3. Own'
        <4> SUFFICES ASSUME NEW e \in exports', e.name.at = pin.at PROVE e.name = m
          BY <1>1, <1>4, <3>1 DEF Own
        <4>1. e.name.build = pin.build /\ e.name \in ExportNames
          BY <1>1, <1>6 DEF Listed, Known, ExportRecords
        <4> QED
          BY <4>1 DEF m, moveExportName, ExportNames
      <3> QED
        BY <1>1, <1>4, <1>6, <2>1, <2>3, <3>1, <3>2, <3>3 DEF ListInv
    <2>5. CASE ~ok
      <3>1. ro' = ro
        BY <1>1, <2>5
      <3>2. Asked'
        BY <1>1, <3>1 DEF Asked, Moving, newTarget, retried, Recorded
      <3>3. Made'
        BY <3>2 DEF Made
      <3>4. Own'
        BY <1>2, <1>6, <3>1, Basics DEF ListInv, Own
      <3> QED
        BY <1>1, <2>1, <2>3, <3>1, <3>3, <3>4 DEF ListInv
    <2> QED
      BY <2>4, <2>5
  <1>10. CopyInv'
    <2>1. ASSUME NEW x, x # m, deleted = x PROVE deleted' = x
      BY <1>1, <2>1 DEF remade
    <2>2. Copied(before) => Copied(before)' \/ Pruned
      <3>1. ASSUME NEW e \in exports, e.name = before, e.phase = "ready", ~Pruned
            PROVE  e \in exports'
        BY <1>6, <3>1, PruneBound
      <3> QED
        BY <1>1, <1>5, <2>1, <3>1 DEF Copied, Named
    <2>3. Copied(ro.export) =>
              deleted' = ro.export \/ \E e \in exports' : e.name = ro.export /\ e.phase = "ready"
      BY <1>5, <1>6, <2>1, PruneKeeps DEF Copied, Named
    <2>4. Pruned => Pruned'
      BY <1>1, <1>4, <1>5 DEF Pruned
    <2>5. ro'.digest = ro.digest /\ (ro'.phase = "Exporting" \/ ro' = ro)
      BY <1>1, <1>4
    <2>6. (Recorded /\ rendered # ro.digest =>
              before.build = rendered /\ (Copied(before) \/ Pruned))'
      BY <1>1, <1>2, <2>2, <2>4, <2>5 DEF CopyInv
    <2>7. (ro.phase \in {"Rolling", "RolledBack"} => Copied(ro.export))'
      BY <2>3, <2>5 DEF CopyInv, Copied, Named
    <2> QED
      BY <2>6, <2>7 DEF CopyInv
  <1> QED
    BY <1>7, <1>8, <1>9, <1>10

\* The list in a step that makes no export and leaves the record's own alone.
LEMMA ListKeeps ==
    ASSUME MoveInv, ~Asked \/ ro' = ro, pin' = pin, Listed,
           ro'.export = ro.export, ro'.at = ro.at, before' \in {before, ro.export},
           \A g \in exports' : \E e \in exports : g.name = e.name,
           \A x : After(exports, x) => After(exports', x)
    PROVE  ListInv'
  <1> USE DEF MoveInv
  <1>1. Distinct' /\ Known' /\ Latest'
    BY DEF Listed
  <1>2. Made'
    <2>1. ro' = ro /\ Asked => Asked'
      BY DEF Asked, Moving, newTarget, retried, Recorded
    <2> QED
      BY <2>1 DEF ListInv, Made
  <1>3. Own'
    BY DEF ListInv, Own
  <1>4. After(exports', ro'.export) /\ After(exports', before')
    BY DEF ListInv
  <1> QED
    BY <1>1, <1>2, <1>3, <1>4 DEF ListInv

\* The same exports, or a pruning of them.
LEMMA Subset ==
    ASSUME MoveInv, pin' = pin, exports' \subseteq exports
    PROVE  Listed /\ \A x : After(exports, x) => After(exports', x)
  <1>1. exports' \subseteq ExportRecords
    BY DEF MoveInv, MoveTypes
  <1>2. \A g \in exports' : \E e \in exports : g.name = e.name /\ g.born = e.born
    OBVIOUS
  <1>3. \A g, h \in exports' : g.name.at = h.name.at => g = h
    BY DEF MoveInv, ListInv, Distinct
  <1> QED
    BY <1>1, <1>2, <1>3, Fewer DEF MoveInv

\* An export that went missing is made again, under the same name.
LEMMA AwaitMakes ==
    ASSUME MoveInv, ~Asked, Moving, ro.phase = "Exporting", Named(ro.export) = {},
           exports' = ensureMoveExport(exports, ro.export), remade(ro.export),
           ro' = ro, pin' = pin, rendered' = rendered, before' = before
    PROVE  MoveInv'
  <1> USE DEF MoveInv
  <1>1. /\ ro.export = moveExportName(ro.target, ro.at) /\ ro.target \in Builds
        /\ ro.target = pin.build /\ before.at < ro.at
    BY DEF RecordInv, Moving, Asked, newTarget
  <1>2. /\ ro.export.at = ro.at /\ ro.export.build = ro.target
        /\ ro.export.build # NoBuild /\ ro.export # NoExport
    BY <1>1, MoveConfig DEF moveExportName, NoExport
  <1>3. \A e \in exports : e.name # ro.export
    BY DEF Named
  <1>4. PICK n \in ExportRecords :
            /\ exports' = exports \cup {n} /\ n.name = ro.export
            /\ \A e \in exports : e.born < n.born
    BY <1>3, Basics, EnsureAdds
  <1>5. \A e \in exports : e.name.at # ro.at
    BY <1>2, <1>3 DEF ListInv, Own
  <1>6. ro.at = pin.at \/ \A e \in exports : e.name.at # pin.at
    BY DEF ListInv, Made
  <1>7. /\ Listed /\ After(exports', n.name)
        /\ \A x : After(exports, x) /\ x.at < n.name.at => After(exports', x)
    <2>1. \A e \in exports : e.born < n.born /\ e.name.at # n.name.at
      BY <1>2, <1>4, <1>5
    <2>2. /\ n.name.at <= pin.at /\ n.name.build = pin.build /\ n.name.build # NoBuild
          /\ (n.name.at = pin.at \/ \A e \in exports : e.name.at # pin.at)
      BY <1>1, <1>2, <1>4, <1>6, Basics
    <2> QED
      BY <1>4, <2>1, <2>2, OneMore
  <1>8. MoveTypes'
    <2>1. deleted' \in ExportNames
      BY DEF remade, Remade, moveExportName, MoveTypes, ExportNames, MaybeBuilds
    <2> QED
      BY <1>7, <2>1 DEF MoveTypes, Listed
  <1>9. RecordInv'
    BY DEF RecordInv, Recorded
  <1>10. ListInv'
    <2>1. Distinct' /\ Known' /\ Latest'
      BY <1>7 DEF Listed
    <2>2. Made' /\ Own'
      BY <1>2, <1>4 DEF ListInv, Made, Own
    <2>3. After(exports', before)
      BY <1>1, <1>2, <1>4, <1>7 DEF ListInv
    <2> QED
      BY <1>4, <1>7, <2>1, <2>2, <2>3 DEF ListInv
  <1>11. CopyInv'
    <2>1. before # ro.export
      BY <1>1, <1>2, Basics
    <2>2. Copied(before) => Copied(before)'
      BY <1>4, <2>1 DEF Copied, Named, remade
    <2>3. Pruned => Pruned'
      BY DEF Pruned
    <2> QED
      BY <2>2, <2>3 DEF CopyInv, Recorded
  <1> QED
    BY <1>8, <1>9, <1>10, <1>11

LEMMA AwaitKeeps ==
    ASSUME MoveInv, NEW ok \in BOOLEAN, AwaitExport(ok)
    PROVE  MoveInv'
  <1> USE DEF MoveInv
  <1>1. /\ Moving /\ ~Asked /\ ro.phase = "Exporting"
        /\ pin' = pin /\ rendered' = rendered /\ before' = before
    BY DEF AwaitExport, world
  <1>2. CASE Named(ro.export) = {} /\ exports' = ensureMoveExport(exports, ro.export)
             /\ remade(ro.export) /\ UNCHANGED <<ro, late>>
    BY <1>1, <1>2, AwaitMakes
  <1>3. ASSUME NEW e \in Named(ro.export), UNCHANGED <<exports, deleted>>,
               NEW p \in {"Rolling", "Failed"}, persist([ro EXCEPT !.phase = p], ok),
               p = "Rolling" => e.phase = "ready"
        PROVE  MoveInv'
    <2> DEFINE r == [ro EXCEPT !.phase = p]
    <2>1. /\ r \in Rollouts /\ r.digest = ro.digest /\ r.target = ro.target
          /\ r.phase = p /\ r.export = ro.export /\ r.at = ro.at
      BY DEF MoveTypes, Rollouts, MovePhases
    <2>2. ro' = r \/ ro' = ro
      BY <1>3 DEF persist
    <2> HIDE DEF r
    <2>3. /\ ro' \in Rollouts /\ ro'.digest = ro.digest /\ ro'.target = ro.target
          /\ ro'.phase \in {p, "Exporting"} /\ ro'.export = ro.export /\ ro'.at = ro.at
      BY <1>1, <2>1, <2>2 DEF MoveTypes
    <2>4. MoveTypes'
      BY <1>1, <1>3, <2>3 DEF MoveTypes
    <2>5. RecordInv'
      <3>1. Recorded /\ Recorded' /\ ro.export = moveExportName(ro.target, ro.at)
        BY <1>1, <2>3 DEF RecordInv, Moving, Recorded
      <3> QED
        BY <1>1, <2>3, <3>1 DEF RecordInv
    <2>6. ListInv'
      <3>1. Listed /\ \A x : After(exports, x) => After(exports', x)
        BY <1>1, <1>3, Subset
      <3> QED
        BY <1>1, <1>3, <2>3, <3>1, ListKeeps
    <2>7. CopyInv'
      <3>1. Copied(ro.export)' \/ p = "Failed"
        BY <1>3, <2>3 DEF Copied, Named
      <3>2. (Copied(before) => Copied(before)') /\ (Pruned => Pruned')
        BY <1>1, <1>3, <2>3 DEF Copied, Named, Pruned
      <3> QED
        BY <1>1, <1>3, <2>3, <3>1, <3>2 DEF CopyInv, Recorded
    <2> QED
      BY <2>4, <2>5, <2>6, <2>7
  <1>4. \/ Named(ro.export) = {} /\ exports' = ensureMoveExport(exports, ro.export)
           /\ remade(ro.export) /\ UNCHANGED <<ro, late>>
        \/ \E e \in Named(ro.export) :
              /\ UNCHANGED <<exports, deleted>>
              /\ \/ e.phase = "ready" /\ persist([ro EXCEPT !.phase = "Rolling"], ok)
                 \/ persist([ro EXCEPT !.phase = "Failed"], ok)
    BY DEF AwaitExport
  <1>5. CASE \E e \in Named(ro.export) :
              /\ UNCHANGED <<exports, deleted>>
              /\ \/ e.phase = "ready" /\ persist([ro EXCEPT !.phase = "Rolling"], ok)
                 \/ persist([ro EXCEPT !.phase = "Failed"], ok)
    BY <1>3, <1>5
  <1> QED
    BY <1>2, <1>4, <1>5

LEMMA EmptyRecord == NoRollout.phase = "" /\ NoRollout.export = NoExport
  BY DEF NoRollout

\* What a pass renders that is not on record was exported for, and the exports
\* it prunes are not those it still needs.
CopiedThen(x) == deleted' = x \/ \E e \in exports' : e.name = x /\ e.phase = "ready"
LEMMA RenderNeeds ==
    ASSUME MoveInv, Renders, NEW b \in {rendered, effective}, Render(b),
           exports' = pruneMoveExports, deleted' = deleted
    PROVE  /\ rendered' \in MaybeBuilds /\ (Recorded => rendered' \in Builds)
           /\ before' \in {before, ro.export}
           /\ ro.phase = "Exporting" => before' = before
           /\ ro.phase \in {"Rolling", "RolledBack"} => CopiedThen(ro.export)
           /\ Recorded /\ rendered' # ro.digest =>
                 /\ before'.build = rendered'
                 /\ \/ CopiedThen(before')
                    \/ before' # ro.export /\ pin.at >= before'.at + moveExportsKept
  <1> USE DEF MoveInv
  <1>1. /\ rendered' = b
        /\ before' = IF b # rendered /\ b # ro.digest THEN ro.export ELSE before
    BY DEF Render
  <1>2. ASSUME Recorded, b = effective, b # ro.digest
        PROVE  ro.phase = "Rolling" /\ b = pin.build /\ ro.target = pin.build
    BY <1>2 DEF effective, Renders, Asked, newTarget, Moving
  <1>3. b \in MaybeBuilds /\ (Recorded => b \in Builds)
    <2>1. ro.digest \in MaybeBuilds /\ rendered \in MaybeBuilds
      BY DEF MoveTypes, Rollouts
    <2>2. effective \in {pin.build, ro.digest}
      BY DEF effective
    <2>3. Recorded => ro.digest \in Builds
      BY <2>1 DEF Recorded, MaybeBuilds
    <2> QED
      BY <2>1, <2>2, <2>3, Basics DEF RecordInv, MaybeBuilds
  <1>4. ro.phase = "Exporting" => before' = before
    <2>1. ro.phase = "Exporting" => Recorded
      BY EmptyRecord DEF RecordInv
    <2> QED
      BY <1>1, <1>2, <2>1
  <1>5. ro.phase \in {"Rolling", "RolledBack"} => CopiedThen(ro.export)
    BY PruneKeeps DEF CopyInv, Copied, CopiedThen, Named
  <1>6. ASSUME Recorded, b # ro.digest
        PROVE  /\ before'.build = b
               /\ \/ CopiedThen(before')
                  \/ before' # ro.export /\ pin.at >= before'.at + moveExportsKept
    <2>1. CASE b = rendered
      <3>1. before' = before /\ before.build = rendered /\ (Copied(before) \/ Pruned)
        BY <1>1, <1>6, <2>1 DEF CopyInv
      <3>2. Copied(before) => CopiedThen(before) \/ Pruned
        BY PruneBound DEF Copied, CopiedThen, Named
      <3> QED
        BY <2>1, <3>1, <3>2 DEF Pruned
    <2>2. CASE b # rendered
      <3>1. /\ before' = ro.export /\ ro.phase = "Rolling" /\ b = ro.target
        BY <1>1, <1>2, <1>6, <2>2
      <3>2. ro.export = moveExportName(ro.target, ro.at)
        BY <3>1 DEF RecordInv
      <3>3. ro.export.build = ro.target
        BY <3>2 DEF moveExportName
      <3> QED
        BY <1>5, <3>1, <3>3
    <2> QED
      BY <2>1, <2>2
  <1> QED
    BY <1>1, <1>3, <1>4, <1>5, <1>6

\* A pass that leaves the record, or ends a roll-out.
LEMMA RecordKeeps ==
    ASSUME MoveInv, Renders, NEW b \in {rendered, effective}, Render(b),
           exports' = pruneMoveExports, deleted' = deleted, pin' = pin,
           ro' \in Rollouts, ro'.target = ro.target, ro'.export = ro.export,
           ro'.at = ro.at,
           \/ ro' = ro
           \/ Recorded /\ ro.phase = "Rolling" /\ ro'.digest = ro.digest
              /\ ro'.phase = "RolledBack"
           \/ Recorded /\ ro.phase = "Rolling" /\ ro'.digest = rendered'
              /\ ro'.phase = "Done"
    PROVE  MoveInv'
  <1>1. /\ rendered' \in MaybeBuilds /\ (Recorded => rendered' \in Builds)
        /\ before' \in {before, ro.export}
        /\ ro.phase = "Exporting" => before' = before
        /\ ro.phase \in {"Rolling", "RolledBack"} => CopiedThen(ro.export)
        /\ Recorded /\ rendered' # ro.digest =>
              /\ before'.build = rendered'
              /\ \/ CopiedThen(before')
                 \/ before' # ro.export /\ pin.at >= before'.at + moveExportsKept
    BY RenderNeeds
  <1> USE DEF MoveInv
  <1>2. Listed /\ \A x : After(exports, x) => After(exports', x)
    BY PruneLess, Subset
  <1>3. MoveTypes'
    BY <1>1, <1>2, Basics DEF MoveTypes, Listed
  <1>4. RecordInv'
    <2>1. before'.at <= ro.at
      BY <1>1, Basics
    <2>2. ro'.phase = "Exporting" => before'.at < ro.at
      BY <1>1 DEF RecordInv
    <2>3. Recorded' => Recorded
      BY DEF Recorded, RecordInv
    <2>4. ~Recorded' => ro' = NoRollout
      BY <1>1, MoveConfig DEF Recorded, RecordInv
    <2>5. \/ ro'.export = moveExportName(ro'.target, ro'.at)
          \/ ro'.export = NoExport /\ ro'.phase \in {"", "Done"}
      BY DEF RecordInv
    <2> QED
      BY <1>1, <2>1, <2>2, <2>3, <2>4, <2>5 DEF RecordInv
  <1>5. ListInv'
    <2>1. ~Asked
      BY DEF Renders
    <2> QED
      BY <1>1, <1>2, <2>1, PruneLess, ListKeeps
  <1>6. CopyInv'
    <2>1. (Recorded /\ rendered # ro.digest =>
              before.build = rendered /\ (Copied(before) \/ Pruned))'
      BY <1>1 DEF CopiedThen, Copied, Named, Pruned, Recorded
    <2>2. (ro.phase \in {"Rolling", "RolledBack"} => Copied(ro.export))'
      BY <1>1 DEF CopiedThen, Copied, Named
    <2> QED
      BY <2>1, <2>2 DEF CopyInv
  <1> QED
    BY <1>3, <1>4, <1>5, <1>6

\* The first build of an app is recorded once it is up.
LEMMA FirstKeeps ==
    ASSUME MoveInv, Renders, ~Recorded, Render(effective), ro' = recordFirst,
           exports' = pruneMoveExports, deleted' = deleted, pin' = pin
    PROVE  MoveInv'
  <1>1. rendered' = pin.build /\ before' \in {before, ro.export}
    BY DEF Render, effective, Moving
  <1> USE DEF MoveInv
  <1>2. /\ ro'.digest = pin.build /\ ro'.target = pin.build /\ ro'.phase = "Done"
        /\ ro'.export = NoExport /\ ro'.at = pin.at
    BY DEF recordFirst, NoRollout
  <1>3. ro' \in Rollouts
    BY Basics DEF recordFirst, NoRollout, NoExport, moveExportName, Rollouts,
       MaybeBuilds, MovePhases, ExportNames
  <1>4. Listed
    BY PruneLess, Subset
  <1>5. MoveTypes'
    BY <1>1, <1>3, <1>4, Basics DEF MoveTypes, Listed, MaybeBuilds
  <1>6. RecordInv'
    <2>1. before'.at <= pin.at /\ pin.at <= pin.at
      BY <1>1, Basics
    <2> QED
      BY <1>1, <1>2, <2>1, Basics DEF RecordInv, Recorded
  <1>7. ListInv'
    <2>1. Made' /\ Own'
      BY <1>2 DEF Made, Own
    <2>2. After(exports', ro'.export)
      BY <1>2, PruneLess DEF After, MoveTypes, NoExport, moveExportName
    <2>3. After(exports', before')
      <3>1. ro.export = NoExport
        BY EmptyRecord DEF RecordInv
      <3>2. After(exports, before) /\ \A x : After(exports, x) => After(exports', x)
        BY PruneLess, Subset DEF ListInv
      <3> QED
        BY <1>1, <1>2, <2>2, <3>1, <3>2
    <2> QED
      BY <1>4, <2>1, <2>2, <2>3 DEF ListInv, Listed
  <1>8. CopyInv'
    BY <1>1, <1>2 DEF CopyInv
  <1> QED
    BY <1>5, <1>6, <1>7, <1>8

LEMMA PassKeeps ==
    ASSUME MoveInv, NEW ok \in BOOLEAN, Pass(ok)
    PROVE  MoveInv'
  <1>1. /\ Renders /\ Render(effective) /\ exports' = pruneMoveExports
        /\ pin' = pin /\ deleted' = deleted
    BY DEF Pass, world
  <1>2. PICK n \in finishMove : ro' = IF ok THEN n ELSE ro
    BY DEF Pass, persist
  <1>3. \/ n = ro
        \/ n = recordFirst /\ ~Recorded
        \/ /\ Recorded /\ ro.phase = "Rolling" /\ effective = pin.build
           /\ n \in {done, rollBack}
    <2>1. CASE ~Recorded
      BY <1>2, <2>1 DEF finishMove
    <2>2. CASE Recorded /\ ro.phase = "Rolling" /\ effective = pin.build
      <3>1. finishMove = IF releaseUp
                         THEN {done} \cup (IF "verify" \in Faults THEN {rollBack} ELSE {})
                         ELSE {IF late THEN rollBack ELSE ro}
        BY <2>2 DEF finishMove
      <3> QED
        BY <1>2, <2>2, <3>1
    <2>3. CASE Recorded /\ ~(ro.phase = "Rolling" /\ effective = pin.build)
      <3>1. finishMove = {ro}
        BY <2>3 DEF finishMove
      <3> QED
        BY <1>2, <3>1
    <2> QED
      BY <2>1, <2>2, <2>3
  <1>4. ro \in Rollouts
    BY DEF MoveInv, MoveTypes
  <1>5. CASE ro' = ro
    BY <1>1, <1>4, <1>5, RecordKeeps
  <1>6. CASE ro' = recordFirst /\ ~Recorded
    BY <1>1, <1>6, FirstKeeps
  <1>7. CASE Recorded /\ ro.phase = "Rolling" /\ effective = pin.build /\ ro' \in {done, rollBack}
    <2>1. pin.build \in MaybeBuilds
      BY Basics DEF MoveInv, MaybeBuilds
    <2>2. CASE ro' = done
      <3>1. /\ done \in Rollouts /\ done.target = ro.target /\ done.export = ro.export
            /\ done.at = ro.at /\ done.digest = pin.build /\ done.phase = "Done"
        BY <1>4, <2>1 DEF done, Rollouts, MovePhases
      <3>2. rendered' = pin.build
        BY <1>1, <1>7 DEF Render
      <3> QED
        BY <1>1, <1>7, <2>2, <3>1, <3>2, RecordKeeps
    <2>3. CASE ro' = rollBack
      <3>1. /\ rollBack \in Rollouts /\ rollBack.target = ro.target
            /\ rollBack.export = ro.export /\ rollBack.at = ro.at
            /\ rollBack.digest = ro.digest /\ rollBack.phase = "RolledBack"
        BY <1>4 DEF rollBack, Rollouts, MovePhases
      <3> QED
        BY <1>1, <1>7, <2>3, <3>1, RecordKeeps
    <2> QED
      BY <1>7, <2>2, <2>3
  <1> QED
    BY <1>2, <1>3, <1>5, <1>6, <1>7

LEMMA HeldKeeps ==
    ASSUME MoveInv, HeldPass
    PROVE  MoveInv'
  <1>1. /\ Renders /\ exports' = pruneMoveExports
        /\ pin' = pin /\ deleted' = deleted /\ ro' = ro
    BY DEF HeldPass, world
  <1>2. PICK b \in {rendered, effective} : Render(b)
    BY DEF HeldPass
  <1>3. ro \in Rollouts
    BY DEF MoveInv, MoveTypes
  <1> QED
    BY <1>1, <1>2, <1>3, RecordKeeps

LEMMA PinKeeps ==
    ASSUME MoveInv, NEW b \in Builds, Pin(b)
    PROVE  MoveInv'
  <1> USE DEF MoveInv
  <1>1. /\ pin' = [build |-> b, at |-> pin.at + 1]
        /\ UNCHANGED <<ro, exports, rendered, before, deleted>>
    BY DEF Pin
  <1>2. pin' \in [build : Builds, at : Nat] /\ pin'.at = pin.at + 1 /\ pin'.at > pin.at
    BY <1>1, Basics
  <1>3. MoveTypes'
    BY <1>1, <1>2 DEF MoveTypes
  <1>4. ro.at < pin'.at
    BY <1>2, Basics
  <1>5. RecordInv'
    <2>1. ro.at <= pin'.at /\ ro.at # pin'.at
      BY <1>2, <1>4, Basics
    <2> QED
      BY <1>1, <2>1 DEF RecordInv, Recorded
  <1>6. ListInv'
    <2>1. \A e \in exports : e.name.at \in Nat /\ e.name.at <= pin.at
      BY DEF MoveTypes, ExportRecords, ExportNames, ListInv, Known
    <2>2. \A e \in exports : e.name.at <= pin'.at /\ e.name.at # pin'.at
      BY <1>2, <2>1, Basics
    <2>3. Known' /\ Latest' /\ Made'
      BY <1>1, <2>2 DEF Known, Latest, Made
    <2> QED
      BY <1>1, <2>3 DEF ListInv, Distinct, Own, After
  <1>7. CopyInv'
    <2>1. Pruned => Pruned'
      <3>1. pin.at >= before.at + moveExportsKept => pin'.at >= before.at + moveExportsKept
        BY <1>2, Basics, MoveConfig
      <3> QED
        BY <1>1, <3>1 DEF Pruned
    <2> QED
      BY <1>1, <2>1 DEF CopyInv, Copied, Named, Recorded
  <1> QED
    BY <1>3, <1>5, <1>6, <1>7

LEMMA EndKeeps ==
    ASSUME MoveInv, NEW e \in exports, ExportEnds(e)
    PROVE  MoveInv'
  <1> USE DEF MoveInv
  <1>1. /\ e.phase = "pending"
        /\ UNCHANGED <<pin, ro, rendered, before, deleted>>
    BY DEF ExportEnds, world
  <1>2. PICK p \in {"ready", "failed"} :
            exports' = (exports \ {e}) \cup {[e EXCEPT !.phase = p]}
    BY DEF ExportEnds
  <1> DEFINE g == [e EXCEPT !.phase = p]
  <1>3. g \in ExportRecords /\ g.name = e.name /\ g.born = e.born
    BY DEF MoveTypes, ExportRecords
  <1>4. exports' = (exports \ {e}) \cup {g}
    BY <1>2
  <1> HIDE DEF g
  <1>5. Listed /\ \A x : After(exports, x) => After(exports', x)
    <2>1. exports' \subseteq ExportRecords
      BY <1>3, <1>4 DEF MoveTypes
    <2>2. \A h \in exports' : \E f \in exports : h.name = f.name /\ h.born = f.born
      BY <1>3, <1>4
    <2>3. \A h, k \in exports' : h.name.at = k.name.at => h = k
      BY <1>3, <1>4 DEF ListInv, Distinct
    <2> QED
      BY <1>1, <2>1, <2>2, <2>3, Fewer
  <1>6. MoveTypes'
    BY <1>1, <1>5 DEF MoveTypes, Listed
  <1>7. RecordInv'
    BY <1>1 DEF RecordInv, Recorded
  <1>8. ListInv'
    <2>1. \A h \in exports' : \E f \in exports : h.name = f.name
      BY <1>3, <1>4
    <2> QED
      BY <1>1, <1>5, <2>1, ListKeeps
  <1>9. CopyInv'
    <2>1. \A f \in exports : f.phase = "ready" => f \in exports'
      BY <1>1, <1>4
    <2>2. (Copied(before) => Copied(before)') /\ (Copied(ro.export) => Copied(ro.export)')
      BY <1>1, <2>1 DEF Copied, Named
    <2> QED
      BY <1>1, <2>2 DEF CopyInv, Pruned, Recorded
  <1> QED
    BY <1>6, <1>7, <1>8, <1>9

LEMMA DeleteKeeps ==
    ASSUME MoveInv, NEW e \in exports, DeleteExport(e)
    PROVE  MoveInv'
  <1> USE DEF MoveInv
  <1>1. /\ deleted = NoExport /\ deleted' = e.name /\ exports' = exports \ {e}
        /\ UNCHANGED <<pin, ro, rendered, before>>
    BY DEF DeleteExport, world
  <1>2. Listed /\ \A x : After(exports, x) => After(exports', x)
    BY <1>1, Subset
  <1>3. MoveTypes'
    BY <1>1, <1>2 DEF MoveTypes, Listed, ExportRecords
  <1>4. RecordInv'
    BY <1>1 DEF RecordInv, Recorded
  <1>5. ListInv'
    BY <1>1, <1>2, ListKeeps
  <1>6. CopyInv'
    <2>1. ASSUME NEW x, x # NoExport, Copied(x)
          PROVE  deleted' = x \/ \E f \in exports' : f.name = x /\ f.phase = "ready"
      BY <1>1, <2>1 DEF Copied, Named
    <2>2. Recorded /\ rendered # ro.digest => before # NoExport
      <3>1. Recorded /\ rendered # ro.digest => before.build \in Builds
        BY DEF CopyInv, RecordInv
      <3>2. NoExport.build = NoBuild
        BY DEF NoExport, moveExportName
      <3> QED
        BY <3>1, <3>2, MoveConfig
    <2>3. ro.phase \in {"Rolling", "RolledBack"} => ro.export # NoExport
      <3>1. ro.phase \in {"Rolling", "RolledBack"} =>
                ro.export = moveExportName(ro.target, ro.at) /\ ro.target \in Builds
        BY EmptyRecord DEF RecordInv
      <3> QED
        BY <3>1, MoveConfig DEF NoExport, moveExportName
    <2>4. (Recorded /\ rendered # ro.digest =>
              before.build = rendered /\ (Copied(before) \/ Pruned))'
      BY <1>1, <2>1, <2>2 DEF CopyInv, Copied, Named, Pruned, Recorded
    <2>5. (ro.phase \in {"Rolling", "RolledBack"} => Copied(ro.export))'
      BY <1>1, <2>1, <2>3 DEF CopyInv, Copied, Named
    <2> QED
      BY <2>4, <2>5 DEF CopyInv
  <1> QED
    BY <1>3, <1>4, <1>5, <1>6

\* A step of none of these variables.
LEMMA StillKeeps ==
    ASSUME MoveInv, UNCHANGED <<pin, ro, exports, rendered, before, deleted>>
    PROVE  MoveInv'
  <1> USE DEF MoveInv
  <1>1. MoveTypes' /\ RecordInv'
    BY DEF MoveTypes, RecordInv, Recorded
  <1>2. Listed /\ \A x : After(exports, x) => After(exports', x)
    BY Subset
  <1>3. ListInv'
    BY <1>2, ListKeeps
  <1>4. CopyInv'
    BY DEF CopyInv, Copied, Named, Pruned, Recorded
  <1> QED
    BY <1>1, <1>3, <1>4

\* A build other than the one on record is rendered over an app's data only
\* from a Ready export taken for it, whatever is asked for afterwards: an
\* overtaken build keeps its export until moveExportsKept later requests have
\* pruned it or somebody deletes it, and the export of the move on record is
\* of its target and is not pruned (beginMove, awaitMoveExport, applyRendered,
\* finishMove and pruneMoveExports).
THEOREM Exported == Spec => []ExportFirst
  <1>1. Init => MoveInv
    BY MoveInit
  <1>2. MoveInv /\ [Next]_vars => MoveInv'
    <2> SUFFICES ASSUME MoveInv, [Next]_vars PROVE MoveInv'
      OBVIOUS
    <2>1. ASSUME NEW ok \in Writes, Reconcile(ok) PROVE MoveInv'
      <3>1. ok \in BOOLEAN
        BY DEF Writes
      <3> QED
        BY <2>1, <3>1, StartKeeps, AwaitKeeps, PassKeeps DEF Reconcile
    <2>2. CASE HeldPass
      BY <2>2, HeldKeeps
    <2>3. ASSUME NEW b \in Builds, Pin(b) PROVE MoveInv'
      BY <2>3, PinKeeps
    <2>4. ASSUME NEW e \in exports, ExportEnds(e) \/ DeleteExport(e) PROVE MoveInv'
      BY <2>4, EndKeeps, DeleteKeeps
    <2>5. CASE Deploy \/ RollOut \/ DeadlinePasses
      BY <2>5, StillKeeps DEF Deploy, RollOut, DeadlinePasses, world
    <2>6. CASE UNCHANGED vars
      BY <2>6, StillKeeps DEF vars
    <2> QED
      BY <2>1, <2>2, <2>3, <2>4, <2>5, <2>6 DEF Next
  <1>3. MoveInv => ExportFirst
    <2> SUFFICES ASSUME MoveInv, Recorded, rendered # ro.digest
                 PROVE  /\ before.build = rendered /\ (Copied(before) \/ Pruned)
                        /\ ro.phase \in {"Rolling", "RolledBack"} =>
                               Copied(ro.export) /\ ro.export.build = ro.target
      BY DEF ExportFirst, Pruned
    <2>1. ro.phase \in {"Rolling", "RolledBack"} =>
              ro.export = moveExportName(ro.target, ro.at)
      BY DEF MoveInv, RecordInv
    <2> QED
      BY <2>1 DEF MoveInv, CopyInv, moveExportName
  <1> QED
    BY <1>1, <1>2, <1>3, PTL DEF Spec

=============================================================================
