----------------------------- MODULE VaultProofs -----------------------------
(***************************************************************************)
(* Proofs about Vault, for every set of writers, bundles and objects and   *)
(* every bound.                                                            *)
(*                                                                         *)
(* The first part assumes nothing of the environment: writers may overlap  *)
(* because an ingestion outlives its lock.  The second part assumes what   *)
(* the lock relies on: no ingestion lasts stale_lock_timeout, and at most  *)
(* one process recovers stale locks.  The third part holds the lemmas on   *)
(* packs and staged catalogs that VaultLedgerProofs uses.                  *)
(***************************************************************************)
EXTENDS Vault, WellFoundedInduction, TLAPS

USE DEF PackIds, Gens, NoPack

(* A nonempty set of generations has a highest one. *)
LEMMA HighestExists ==
  ASSUME NEW n \in Nat, NEW T \in SUBSET (1 .. n), T # {}
  PROVE  \E x \in T : \A y \in T : y <= x
<1> DEFINE D == {n - t : t \in T}
<1>1. \A t \in T : n - t \in Nat
  OBVIOUS
<1>2. D \subseteq Nat /\ D # {}
  BY <1>1
<1>3. \E d \in D : \A e \in D : ~ (<<e, d>> \in OpToRel(<, Nat))
  <2> HIDE DEF D
  <2> QED BY <1>2, NatLessThanWellFounded, WFMin
<1>4. \A d, e \in Nat : <<e, d>> \in OpToRel(<, Nat) <=> e < d
  BY Zenon DEF OpToRel
<1>5. PICK d \in D : \A e \in D : ~ (e < d)
  BY <1>2, <1>3, <1>4
<1>6. PICK x \in T : d = n - x
  BY <1>5
<1>7. \A y \in T : n - y \in D
  OBVIOUS
<1>8. \A y \in T : y <= x
  BY <1>1, <1>5, <1>6, <1>7
<1>9. QED
  BY <1>8

(* load_latest_valid_catalog returns the highest valid generation, if any. *)
LEMMA LatestGenHighest ==
  /\ LatestGen \in {0} \cup Gens
  /\ LatestGen # 0 => Valid(LatestGen)
  /\ \A h \in Gens : Valid(h) => h <= LatestGen
<1>1. CASE \E g \in Gens : Valid(g)
  <2> DEFINE T == {g \in Gens : Valid(g)}
  <2>1. PICK x \in T : \A y \in T : y <= x
    BY <1>1, HighestExists, ConstantsAssumption
  <2>2. \E g \in Gens : Valid(g) /\ \A h \in Gens : Valid(h) => h <= g
    BY <2>1
  <2>3. QED
    BY <1>1, <2>2 DEF LatestGen
<1>2. CASE ~ \E g \in Gens : Valid(g)
  BY <1>2 DEF LatestGen
<1>3. QED
  BY <1>1, <1>2

Publishing == {"publishing", "copying", "copied", "replaced", "receipt"}

(* TypeOK is inductive once it is known that a writer sealing a pack has   *)
(* one open, that a writer publishing writes one of the generations, that  *)
(* what it copies is a catalog, and that the file of the catalog it        *)
(* started from exists.                                                    *)
TypeInv ==
  /\ TypeOK
  /\ \A w \in Writers : phase[w] = "sealing" => cur[w] \in PackIds
  /\ \A w \in Writers : phase[w] \in Publishing => NextGeneration(w) \in Gens
  /\ \A w \in Writers : phase[w] \in {"publishing", "copying"} => staged[w] \in Catalog
  /\ \A w \in Writers : base[w] # 0 => cat[base[w]] # NoCatalog

LEMMA TypeInvInit == Init => TypeInv
<1> SUFFICES ASSUME Init PROVE TypeInv
  OBVIOUS
<1> USE ConstantsAssumption DEF Init
<1>1. Nowhere \in [Objects -> PackIds \cup {NoPack}]
  BY DEF Nowhere
<1>2. /\ partial \in [Gens -> Artifact]
      /\ cat \in [Gens -> Artifact]
      /\ seal \in [Gens -> Artifact]
      /\ staged \in [Writers -> Artifact]
  BY DEF Artifact
<1>3. /\ meta \in BOOLEAN
      /\ lock \in Lock \cup {NoLock}
      /\ packStage \in [PackIds -> {"absent", "incomplete", "placed", "sealed"}]
      /\ packHolds \in [PackIds -> SUBSET Objects]
      /\ receipts \subseteq [gen : Nat, bundles : SUBSET Bundles]
      /\ phase \in [Writers -> Phases]
  BY DEF Phases
<1>4. /\ plan \in [Writers -> SUBSET Bundles]
      /\ base \in [Writers -> {0} \cup Gens]
      /\ where \in [Writers -> [Objects -> PackIds \cup {NoPack}]]
      /\ seals \in [Writers -> SUBSET PackIds]
      /\ todo \in [Writers -> SUBSET Objects]
      /\ cur \in [Writers -> PackIds \cup {NoPack}]
      /\ fill \in [Writers -> Nat]
  BY <1>1
<1>5. /\ recovering \in [Recoverers -> BOOLEAN] /\ faults \in 0 .. MaxFaults
      /\ file \in [Writers -> {"closed", "partial", "published", "unlinked"}]
      /\ mixed \in [Writers -> BOOLEAN]
  OBVIOUS
<1>6. QED
  BY <1>2, <1>3, <1>4, <1>5 DEF TypeInv, TypeOK, Publishing

LEMMA BaseCatalogType ==
  ASSUME TypeInv, NEW w \in Writers, BaseReadable(w)
  PROVE  BaseCatalog(w) \in Catalog
<1>1. CASE base[w] = 0
  BY <1>1 DEF BaseCatalog, Catalog, Nowhere
<1>2. CASE base[w] # 0
  <2>1. base[w] \in Gens /\ base[w] \notin TornGens
    BY <1>2 DEF BaseReadable, TypeInv, TypeOK
  <2>2. cat[base[w]] \in Artifact /\ cat[base[w]] # NoCatalog /\ cat[base[w]] \notin Tears
    BY <1>2, <2>1 DEF TypeInv, TypeOK, TornGens
  <2>3. QED
    BY <1>2, <2>2 DEF BaseCatalog, Artifact
<1>3. QED
  BY <1>1, <1>2

LEMMA StagedCatalogType ==
  ASSUME TypeInv, NEW w \in Writers, BaseReadable(w)
  PROVE  StagedCatalog(w) \in Catalog
<1>1. BaseCatalog(w) \in Catalog
  BY BaseCatalogType
<1>2. Recorded(w) \subseteq PackIds
  BY DEF Recorded, TypeInv, TypeOK
<1>3. plan[w] \subseteq Bundles
  BY DEF TypeInv, TypeOK
<1>4. StagedCatalog(w).where \in [Objects -> PackIds \cup {NoPack}]
  BY <1>1, <1>2 DEF StagedCatalog, Catalog
<1>5. QED
  BY <1>1, <1>2, <1>3, <1>4 DEF StagedCatalog, Catalog

(* What LoadIndex, Stage and ReplaceCatalog leave alone. *)
LEMMA LoadIndexFrame ==
  ASSUME NEW w \in Writers, LoadIndex(w)
  PROVE  /\ meta' = meta /\ packStage' = packStage /\ packHolds' = packHolds /\ partial' = partial
         /\ cat' = cat /\ seal' = seal /\ receipts' = receipts /\ lock' = lock
         /\ plan' = plan /\ base' = base /\ cur' = cur /\ fill' = fill
         /\ staged' = staged /\ file' = file /\ mixed' = mixed
         /\ recovering' = recovering /\ faults' = faults
BY DEF LoadIndex, disk

LEMMA StageFrame ==
  ASSUME NEW w \in Writers, Stage(w)
  PROVE  /\ meta' = meta /\ packStage' = packStage /\ packHolds' = packHolds /\ partial' = partial
         /\ cat' = cat /\ seal' = seal /\ receipts' = receipts /\ lock' = lock
         /\ plan' = plan /\ base' = base /\ where' = where /\ seals' = seals
         /\ todo' = todo /\ cur' = cur /\ fill' = fill /\ file' = file /\ mixed' = mixed
         /\ recovering' = recovering /\ faults' = faults
BY DEF Stage, disk

LEMMA ReplaceCatalogFrame ==
  ASSUME NEW w \in Writers, ReplaceCatalog(w)
  PROVE  /\ meta' = meta /\ packStage' = packStage /\ packHolds' = packHolds /\ seal' = seal
         /\ receipts' = receipts /\ lock' = lock /\ plan' = plan /\ base' = base
         /\ where' = where /\ seals' = seals /\ todo' = todo /\ cur' = cur
         /\ fill' = fill /\ staged' = staged /\ mixed' = mixed
         /\ recovering' = recovering /\ faults' = faults
         /\ phase[w] = "copied"
         /\ \/ phase' = [phase EXCEPT ![w] = "releasing"]
            \/ phase' = [phase EXCEPT ![w] = "replaced"]
BY DEF ReplaceCatalog, Goto

LEMMA OpenCopyFrame ==
  ASSUME NEW w \in Writers, OpenCopy(w)
  PROVE  /\ meta' = meta /\ packStage' = packStage /\ packHolds' = packHolds /\ cat' = cat
         /\ seal' = seal /\ receipts' = receipts /\ lock' = lock /\ plan' = plan
         /\ base' = base /\ where' = where /\ seals' = seals /\ todo' = todo /\ cur' = cur
         /\ fill' = fill /\ staged' = staged /\ recovering' = recovering /\ faults' = faults
         /\ phase[w] = "publishing" /\ phase' = [phase EXCEPT ![w] = "copying"]
BY DEF OpenCopy, Goto

LEMMA CopyCatalogFrame ==
  ASSUME NEW w \in Writers, CopyCatalog(w)
  PROVE  /\ meta' = meta /\ packStage' = packStage /\ packHolds' = packHolds /\ seal' = seal
         /\ receipts' = receipts /\ lock' = lock /\ plan' = plan /\ base' = base
         /\ where' = where /\ seals' = seals /\ todo' = todo /\ cur' = cur
         /\ fill' = fill /\ staged' = staged /\ file' = file /\ mixed' = mixed
         /\ recovering' = recovering /\ faults' = faults
         /\ phase[w] = "copying"
         /\ \/ phase' = [phase EXCEPT ![w] = "releasing"]
            \/ phase' = [phase EXCEPT ![w] = "copied"]
BY DEF CopyCatalog, Goto, locals

(* What a finished copy leaves, and where.                                 *)
LEMMA CopyCatalogWrites ==
  ASSUME TypeInv, NEW w \in Writers, CopyCatalog(w)
  PROVE  /\ NextGeneration(w) \in Gens
         /\ \E c \in Catalog \cup Tears :
              /\ c = staged[w] \/ c \in Tears
              /\ partial' = partial \/ partial' = [partial EXCEPT ![NextGeneration(w)] = c]
              /\ cat' = cat \/ cat' = [cat EXCEPT ![NextGeneration(w)] = c]
<1>1. phase[w] = "copying"
  BY CopyCatalogFrame
<1>2. NextGeneration(w) \in Gens /\ staged[w] \in Catalog
  BY <1>1 DEF TypeInv, Publishing
<1>3. PICK c \in {staged[w]} \cup (IF mixed[w] THEN Tears ELSE {}) :
        /\ partial' = IF file[w] = "partial"
                        THEN [partial EXCEPT ![NextGeneration(w)] = c] ELSE partial
        /\ cat' = IF file[w] = "published" THEN [cat EXCEPT ![NextGeneration(w)] = c] ELSE cat
  BY Zenon DEF CopyCatalog
<1>4. c \in Catalog \cup Tears /\ (c = staged[w] \/ c \in Tears)
  BY <1>2
<1>5. QED
  BY <1>2, <1>3, <1>4

LEMMA CopyCatalogType ==
  ASSUME TypeInv, NEW w \in Writers, CopyCatalog(w)
  PROVE  /\ partial' \in [Gens -> Artifact] /\ cat' \in [Gens -> Artifact]
         /\ phase' \in [Writers -> Phases]
         /\ \A g \in Gens : cat[g] # NoCatalog => cat'[g] # NoCatalog
         /\ \A v \in Writers : v # w => phase'[v] = phase[v]
         /\ phase'[w] \in {"releasing", "copied"} /\ NextGeneration(w) \in Gens
<1>1. /\ partial \in [Gens -> Artifact] /\ cat \in [Gens -> Artifact]
      /\ phase \in [Writers -> Phases]
  BY DEF TypeInv, TypeOK
<1>2. PICK c \in Catalog \cup Tears :
        /\ partial' = partial \/ partial' = [partial EXCEPT ![NextGeneration(w)] = c]
        /\ cat' = cat \/ cat' = [cat EXCEPT ![NextGeneration(w)] = c]
  BY CopyCatalogWrites
<1>3. NextGeneration(w) \in Gens /\ c \in Artifact /\ c # NoCatalog
  BY CopyCatalogWrites, ConstantsAssumption DEF Artifact
<1>4. \A g \in Gens : cat[g] # NoCatalog => cat'[g] # NoCatalog
  BY <1>1, <1>2, <1>3
<1>5. partial' \in [Gens -> Artifact] /\ cat' \in [Gens -> Artifact]
  BY <1>1, <1>2, <1>3
<1>6. phase' \in [Writers -> Phases] /\ \A v \in Writers : v # w => phase'[v] = phase[v]
  BY <1>1, CopyCatalogFrame DEF Phases
<1>7. QED
  BY <1>1, <1>3, <1>4, <1>5, <1>6, CopyCatalogFrame

LEMMA OpenCopyType ==
  ASSUME TypeInv, NEW w \in Writers, OpenCopy(w)
  PROVE  /\ partial' \in [Gens -> Artifact] /\ phase' \in [Writers -> Phases]
         /\ file' \in [Writers -> {"closed", "partial", "published", "unlinked"}]
         /\ mixed' \in [Writers -> BOOLEAN]
         /\ NextGeneration(w) \in Gens
<1>1. /\ partial \in [Gens -> Artifact] /\ phase \in [Writers -> Phases]
      /\ file \in [Writers -> {"closed", "partial", "published", "unlinked"}]
      /\ mixed \in [Writers -> BOOLEAN]
  BY DEF TypeInv, TypeOK
<1>2. NextGeneration(w) \in Gens
  BY OpenCopyFrame DEF TypeInv, Publishing
<1>3. PICK t \in Tears : partial' = [partial EXCEPT ![NextGeneration(w)] = t]
  BY DEF OpenCopy
<1>4. partial' \in [Gens -> Artifact]
  BY <1>1, <1>2, <1>3 DEF Artifact
<1>5. phase' \in [Writers -> Phases]
  BY <1>1, OpenCopyFrame DEF Phases
<1>6. file' \in [Writers -> {"closed", "partial", "published", "unlinked"}]
  BY <1>1 DEF OpenCopy
<1>7. mixed' \in [Writers -> BOOLEAN]
  BY <1>1 DEF OpenCopy
<1>8. QED
  BY <1>2, <1>4, <1>5, <1>6, <1>7

LEMMA ReplaceCatalogType ==
  ASSUME TypeInv, NEW w \in Writers, ReplaceCatalog(w)
  PROVE  /\ partial' \in [Gens -> Artifact] /\ cat' \in [Gens -> Artifact]
         /\ phase' \in [Writers -> Phases]
         /\ file' \in [Writers -> {"closed", "partial", "published", "unlinked"}]
         /\ \A g \in Gens : cat[g] # NoCatalog => cat'[g] # NoCatalog
         /\ \A v \in Writers : v # w => phase'[v] = phase[v]
         /\ phase'[w] \in {"releasing", "replaced"} /\ NextGeneration(w) \in Gens
<1> DEFINE g == NextGeneration(w)
<1>1. /\ partial \in [Gens -> Artifact] /\ cat \in [Gens -> Artifact]
      /\ phase \in [Writers -> Phases]
      /\ file \in [Writers -> {"closed", "partial", "published", "unlinked"}]
  BY DEF TypeInv, TypeOK
<1>2. g \in Gens /\ NoCatalog \in Artifact
  BY ReplaceCatalogFrame DEF TypeInv, Publishing, Artifact
<1>3. \/ cat' = cat /\ partial' = partial /\ file' = file
      \/ /\ partial[g] # NoCatalog
         /\ cat' = [cat EXCEPT ![g] = partial[g]]
         /\ partial' = [partial EXCEPT ![g] = NoCatalog]
         /\ file' = [v \in Writers |->
                       IF phase[v] = "copying" /\ NextGeneration(v) = g
                         THEN IF file[v] = "partial" THEN "published" ELSE "unlinked"
                         ELSE file[v]]
  BY Zenon DEF ReplaceCatalog
<1>4. file' \in [Writers -> {"closed", "partial", "published", "unlinked"}]
  BY <1>1, <1>3
<1>5. phase' \in [Writers -> Phases] /\ \A v \in Writers : v # w => phase'[v] = phase[v]
  BY <1>1, ReplaceCatalogFrame DEF Phases
<1>6. phase'[w] \in {"releasing", "replaced"}
  BY <1>1, ReplaceCatalogFrame
<1> HIDE DEF g
<1>7. partial' \in [Gens -> Artifact] /\ cat' \in [Gens -> Artifact]
  BY <1>1, <1>2, <1>3
<1>8. \A h \in Gens : cat[h] # NoCatalog => cat'[h] # NoCatalog
  BY <1>1, <1>2, <1>3
<1>9. QED
  BY <1>2, <1>4, <1>5, <1>6, <1>7, <1>8 DEF g

(* The generation whose catalog an ingestion starts from. *)
Loaded == IF meta THEN LatestGen ELSE 0

LEMMA LoadCatalogFrame ==
  ASSUME NEW w \in Writers, NEW S \in SUBSET Bundles, LoadCatalog(w, S)
  PROVE  /\ UNCHANGED <<packStage, packHolds, partial, cat, seal, receipts, lock, seals,
                        todo, cur, fill, staged, file, mixed, recovering, faults>>
         /\ meta' = TRUE /\ phase[w] = "loading"
         /\ \/ /\ Loaded \in TornGens /\ UNCHANGED <<base, where, plan>>
               /\ phase' = [phase EXCEPT ![w] = "releasing"]
            \/ /\ Loaded \notin TornGens
               /\ base' = [base EXCEPT ![w] = Loaded]
               /\ where' = [where EXCEPT ![w] =
                              IF Loaded = 0 THEN Nowhere ELSE cat[Loaded].where]
               /\ plan' = [plan EXCEPT ![w] =
                             {b \in S : \A k \in (IF Loaded = 0 THEN {} ELSE cat[Loaded].bundles) :
                                          Identity[k] # Identity[b]}]
               /\ phase' = [phase EXCEPT ![w] = "planning"]
BY DEF LoadCatalog, Goto, Loaded

LEMMA LoadCatalogType ==
  ASSUME TypeInv, NEW w \in Writers, NEW S \in SUBSET Bundles, LoadCatalog(w, S)
  PROVE  /\ phase' \in [Writers -> Phases] /\ base' \in [Writers -> {0} \cup Gens]
         /\ where' \in [Writers -> [Objects -> PackIds \cup {NoPack}]]
         /\ plan' \in [Writers -> SUBSET Bundles]
         /\ \A v \in Writers : base'[v] # 0 => cat'[base'[v]] # NoCatalog
         /\ \A v \in Writers : v # w => phase'[v] = phase[v] /\ base'[v] = base[v]
         /\ phase'[w] \in {"releasing", "planning"}
<1>1. /\ phase \in [Writers -> Phases] /\ base \in [Writers -> {0} \cup Gens]
      /\ where \in [Writers -> [Objects -> PackIds \cup {NoPack}]]
      /\ plan \in [Writers -> SUBSET Bundles] /\ cat \in [Gens -> Artifact]
      /\ \A v \in Writers : base[v] # 0 => cat[base[v]] # NoCatalog
  BY DEF TypeInv, TypeOK
<1>2. Loaded \in {0} \cup Gens /\ (Loaded # 0 => cat[Loaded] # NoCatalog)
  BY LatestGenHighest DEF Valid, Loaded
<1>3. CASE Loaded \in TornGens
  BY <1>1, <1>3, LoadCatalogFrame DEF Phases
<1>4. CASE Loaded \notin TornGens
  <2>1. Loaded # 0 => cat[Loaded] \in Catalog
    BY <1>1, <1>2, <1>4 DEF TornGens, Artifact
  <2>2. (IF Loaded = 0 THEN Nowhere ELSE cat[Loaded].where) \in [Objects -> PackIds \cup {NoPack}]
    BY <2>1 DEF Nowhere, Catalog
  <2>3. /\ base' = [base EXCEPT ![w] = Loaded]
        /\ where' = [where EXCEPT ![w] = IF Loaded = 0 THEN Nowhere ELSE cat[Loaded].where]
        /\ phase' = [phase EXCEPT ![w] = "planning"] /\ cat' = cat
    BY <1>4, LoadCatalogFrame
  <2>4. plan' \in [Writers -> SUBSET Bundles]
    <3> DEFINE new == {b \in S : \A k \in (IF Loaded = 0 THEN {} ELSE cat[Loaded].bundles) :
                                    Identity[k] # Identity[b]}
    <3>1. plan' = [plan EXCEPT ![w] = new]
      BY <1>4, LoadCatalogFrame
    <3>2. new \in SUBSET Bundles
      OBVIOUS
    <3> HIDE DEF new
    <3>3. QED
      BY <1>1, <3>1, <3>2
  <2>5. where' \in [Writers -> [Objects -> PackIds \cup {NoPack}]]
    BY <1>1, <2>2, <2>3
  <2>6. phase' \in [Writers -> Phases] /\ base' \in [Writers -> {0} \cup Gens]
    BY <1>1, <1>2, <2>3 DEF Phases
  <2>7. \A v \in Writers : base'[v] # 0 => cat'[base'[v]] # NoCatalog
    BY <1>1, <1>2, <2>3
  <2>8. \A v \in Writers : v # w => phase'[v] = phase[v] /\ base'[v] = base[v]
    BY <1>1, <2>3
  <2>9. QED
    BY <1>1, <2>3, <2>4, <2>5, <2>6, <2>7, <2>8
<1>5. QED
  BY <1>3, <1>4

LEMMA AddObjectFrame ==
  ASSUME NEW w \in Writers, NEW o \in Objects, AddObject(w, o)
  PROVE  /\ UNCHANGED <<meta, partial, cat, seal, receipts, lock, phase, plan, base, seals,
                        staged, file, mixed, recovering, faults>>
         /\ phase[w] = "packing" /\ o \in todo[w]
         /\ \E p \in PackIds :
              /\ packStage' = [packStage EXCEPT ![p] = "incomplete"]
              /\ packHolds' = [packHolds EXCEPT ![p] = @ \cup {o}]
              /\ cur' = [cur EXCEPT ![w] = p]
              /\ fill' = [fill EXCEPT ![w] = @ + Size[o]]
              /\ where' = [where EXCEPT ![w][o] = p]
         /\ todo' = [todo EXCEPT ![w] = @ \ {o}]
BY DEF AddObject

LEMMA AddObjectType ==
  ASSUME TypeInv, NEW w \in Writers, NEW o \in Objects, AddObject(w, o)
  PROVE  /\ packStage' \in [PackIds -> {"absent", "incomplete", "placed", "sealed"}]
         /\ packHolds' \in [PackIds -> SUBSET Objects]
         /\ cur' \in [Writers -> PackIds \cup {NoPack}] /\ cur'[w] \in PackIds
         /\ fill' \in [Writers -> Nat]
         /\ where' \in [Writers -> [Objects -> PackIds \cup {NoPack}]]
         /\ todo' \in [Writers -> SUBSET Objects]
         /\ \A v \in Writers : v # w => cur'[v] = cur[v]
<1>1. /\ packStage \in [PackIds -> {"absent", "incomplete", "placed", "sealed"}]
      /\ packHolds \in [PackIds -> SUBSET Objects]
      /\ cur \in [Writers -> PackIds \cup {NoPack}]
      /\ fill \in [Writers -> Nat]
      /\ where \in [Writers -> [Objects -> PackIds \cup {NoPack}]]
      /\ todo \in [Writers -> SUBSET Objects]
  BY DEF TypeInv, TypeOK
<1>2. PICK p \in PackIds :
        /\ packStage' = [packStage EXCEPT ![p] = "incomplete"]
        /\ packHolds' = [packHolds EXCEPT ![p] = @ \cup {o}]
        /\ cur' = [cur EXCEPT ![w] = p]
        /\ fill' = [fill EXCEPT ![w] = @ + Size[o]]
        /\ where' = [where EXCEPT ![w][o] = p]
  BY AddObjectFrame
<1>3. todo' \in [Writers -> SUBSET Objects]
  <2>1. todo' = [todo EXCEPT ![w] = @ \ {o}]
    BY AddObjectFrame
  <2>2. QED
    BY <1>1, <2>1
<1>4. fill' \in [Writers -> Nat]
  BY <1>1, <1>2, ConstantsAssumption
<1>5. where' \in [Writers -> [Objects -> PackIds \cup {NoPack}]]
  BY <1>1, <1>2
<1>6. /\ cur' \in [Writers -> PackIds \cup {NoPack}] /\ cur'[w] \in PackIds
      /\ \A v \in Writers : v # w => cur'[v] = cur[v]
  BY <1>1, <1>2
<1>7. /\ packStage' \in [PackIds -> {"absent", "incomplete", "placed", "sealed"}]
      /\ packHolds' \in [PackIds -> SUBSET Objects]
  BY <1>1, <1>2
<1>8. QED
  BY <1>3, <1>4, <1>5, <1>6, <1>7

LEMMA TypeInvStep == TypeInv /\ [Next]_vars => TypeInv'
<1> SUFFICES ASSUME TypeInv, [Next]_vars PROVE TypeInv'
  OBVIOUS
<1> USE ConstantsAssumption
    DEF TypeInv, TypeOK, Goto, disk, locals, Artifact, Publishing, NextGeneration
<1>1. ASSUME NEW w \in Writers, Acquire(w) PROVE TypeInv'
  BY <1>1 DEF Acquire, Lock, Phases
<1>2. ASSUME NEW w \in Writers, WriteLockInfo(w) PROVE TypeInv'
  BY <1>2 DEF WriteLockInfo, Lock, Phases
<1>3. ASSUME NEW w \in Writers, NEW S \in SUBSET Bundles, LoadCatalog(w, S)
      PROVE  TypeInv'
  <2> HIDE DEF TypeInv, TypeOK, Artifact, disk, locals, Goto, NextGeneration
  <2>0. TypeOK
    BY DEF TypeInv
  <2>1. TypeOK'
    <3>1. /\ UNCHANGED <<packStage, packHolds, partial, cat, seal, receipts, lock, seals,
                         todo, cur, fill, staged, file, mixed, recovering, faults>>
          /\ meta' = TRUE
      BY <1>3, LoadCatalogFrame
    <3>2. /\ phase' \in [Writers -> Phases] /\ base' \in [Writers -> {0} \cup Gens]
          /\ where' \in [Writers -> [Objects -> PackIds \cup {NoPack}]]
          /\ plan' \in [Writers -> SUBSET Bundles]
      BY <1>3, LoadCatalogType
    <3>3. QED
      BY <2>0, <3>1, <3>2 DEF TypeOK
  <2>2. \A v \in Writers : phase'[v] = "sealing" => cur'[v] \in PackIds
    BY <1>3, LoadCatalogFrame, LoadCatalogType DEF TypeInv
  <2>3. \A v \in Writers : phase'[v] \in Publishing => base'[v] + 1 \in Gens
    BY <1>3, LoadCatalogType DEF TypeInv, NextGeneration
  <2>4. \A v \in Writers : phase'[v] \in {"publishing", "copying"} => staged'[v] \in Catalog
    BY <1>3, LoadCatalogFrame, LoadCatalogType DEF TypeInv
  <2>5. QED
    BY <1>3, <2>1, <2>2, <2>3, <2>4, LoadCatalogType DEF TypeInv, NextGeneration
<1>4. ASSUME NEW w \in Writers, LoadIndex(w) PROVE TypeInv'
  <2>1. Reusable(w) \in [Objects -> PackIds \cup {NoPack}]
    BY DEF Reusable, SealedPacks
  <2>2. SealedPacks \subseteq PackIds
    BY DEF SealedPacks
  <2>3. FilesOf(plan[w]) \subseteq Objects
    BY DEF FilesOf
  <2>4. CASE plan[w] = {}
    <3>1. /\ phase' = [phase EXCEPT ![w] = "releasing"]
          /\ meta' = meta /\ packStage' = packStage /\ packHolds' = packHolds /\ partial' = partial
          /\ cat' = cat /\ seal' = seal /\ receipts' = receipts /\ lock' = lock
          /\ plan' = plan /\ base' = base /\ where' = where /\ seals' = seals
          /\ todo' = todo /\ cur' = cur /\ fill' = fill /\ staged' = staged
          /\ file' = file /\ mixed' = mixed /\ recovering' = recovering /\ faults' = faults
      BY <1>4, <2>4 DEF LoadIndex
    <3>2. QED
      BY <3>1 DEF Phases
  <2>5. CASE plan[w] # {}
    <3>1. /\ where' = [where EXCEPT ![w] = Reusable(w)]
          /\ seals' = [seals EXCEPT ![w] = SealedPacks]
          /\ todo' = [todo EXCEPT ![w] =
                        {o \in FilesOf(plan[w]) : Reusable(w)[o] = NoPack}]
          /\ phase' = [phase EXCEPT ![w] = "packing"]
      BY <1>4, <2>5, Zenon DEF LoadIndex
    <3>2. where' \in [Writers -> [Objects -> PackIds \cup {NoPack}]]
      BY <2>1, <3>1
    <3>3. /\ seals' \in [Writers -> SUBSET PackIds]
          /\ todo' \in [Writers -> SUBSET Objects]
          /\ phase' \in [Writers -> Phases]
      BY <2>2, <2>3, <3>1 DEF Phases
    <3>4. /\ meta' = meta /\ packStage' = packStage /\ packHolds' = packHolds /\ partial' = partial
          /\ cat' = cat /\ seal' = seal /\ receipts' = receipts /\ lock' = lock
          /\ plan' = plan /\ base' = base /\ cur' = cur /\ fill' = fill
          /\ staged' = staged /\ file' = file /\ mixed' = mixed
          /\ recovering' = recovering /\ faults' = faults
      BY <1>4, LoadIndexFrame
    <3>5. TypeOK'
      BY <3>1, <3>2, <3>3, <3>4
    <3>6. QED
      BY <3>1, <3>4, <3>5
  <2>6. QED
    BY <2>4, <2>5
<1>5. ASSUME NEW w \in Writers, NEW o \in Objects, AddObject(w, o)
      PROVE  TypeInv'
  <2> HIDE DEF TypeInv, TypeOK, Artifact, disk, locals, Goto, NextGeneration
  <2>0. TypeOK
    BY DEF TypeInv
  <2>1. TypeOK'
    <3>1. UNCHANGED <<meta, partial, cat, seal, receipts, lock, phase, plan, base, seals,
                      staged, file, mixed, recovering, faults>>
      BY <1>5, AddObjectFrame
    <3>2. /\ packStage' \in [PackIds -> {"absent", "incomplete", "placed", "sealed"}]
          /\ packHolds' \in [PackIds -> SUBSET Objects]
          /\ cur' \in [Writers -> PackIds \cup {NoPack}] /\ fill' \in [Writers -> Nat]
          /\ where' \in [Writers -> [Objects -> PackIds \cup {NoPack}]]
          /\ todo' \in [Writers -> SUBSET Objects]
      BY <1>5, AddObjectType
    <3>3. QED
      BY <2>0, <3>1, <3>2 DEF TypeOK
  <2>2. \A v \in Writers : phase'[v] = "sealing" => cur'[v] \in PackIds
    BY <1>5, AddObjectFrame, AddObjectType DEF TypeInv
  <2>3. QED
    BY <1>5, <2>1, <2>2, AddObjectFrame DEF TypeInv, NextGeneration
<1>6. ASSUME NEW w \in Writers, PlacePack(w) PROVE TypeInv'
  BY <1>6 DEF PlacePack, Phases
<1>7. ASSUME NEW w \in Writers, SealPack(w) PROVE TypeInv'
  BY <1>7 DEF SealPack, Phases
<1>8. ASSUME NEW w \in Writers, Stage(w) PROVE TypeInv'
  <2>0. /\ meta' = meta /\ packStage' = packStage /\ packHolds' = packHolds /\ partial' = partial
        /\ cat' = cat /\ seal' = seal /\ receipts' = receipts /\ lock' = lock
        /\ plan' = plan /\ base' = base /\ where' = where /\ seals' = seals
        /\ todo' = todo /\ cur' = cur /\ fill' = fill /\ file' = file /\ mixed' = mixed
        /\ recovering' = recovering /\ faults' = faults
    BY <1>8, StageFrame
  <2>1. StagedCatalog(w) \in Catalog
    <3>1. BaseReadable(w)
      BY <1>8, Zenon DEF Stage, Accepted
    <3>2. QED
      BY <3>1, StagedCatalogType
  <2>2. staged' \in [Writers -> Artifact] /\ phase' \in [Writers -> Phases]
    BY <1>8, <2>1 DEF Stage, Phases
  <2>3. base[w] + 1 \in Gens
    <3>1. base[w] + 1 <= MaxGen
      BY <1>8, Zenon DEF Stage
    <3>2. base[w] \in 0 .. MaxGen
      OBVIOUS
    <3>3. QED
      BY <3>1, <3>2
  <2>4. \A v \in Writers : phase'[v] \in Publishing => base'[v] + 1 \in Gens
    BY <1>8, <2>0, <2>3 DEF Stage
  <2>5. \A v \in Writers : phase'[v] = "sealing" => cur'[v] \in PackIds
    BY <1>8 DEF Stage
  <2>6. \A v \in Writers : phase'[v] \in {"publishing", "copying"} => staged'[v] \in Catalog
    BY <1>8, <2>1 DEF Stage
  <2>7. TypeOK'
    BY <2>2, <2>0
  <2>8. \A v \in Writers : base'[v] # 0 => cat'[base'[v]] # NoCatalog
    BY <2>0
  <2>9. QED
    BY <2>4, <2>5, <2>6, <2>7, <2>8
<1>9. ASSUME NEW w \in Writers, StageRejected(w) PROVE TypeInv'
  BY <1>9 DEF StageRejected, Phases
<1>10. ASSUME NEW w \in Writers, OpenCopy(w) PROVE TypeInv'
  <2> HIDE DEF TypeInv, TypeOK, Artifact, disk, locals, Goto, NextGeneration
  <2>0. TypeOK
    BY DEF TypeInv
  <2>1. TypeOK'
    BY <1>10, <2>0, OpenCopyFrame, OpenCopyType DEF TypeOK
  <2>2. QED
    BY <1>10, <2>1, OpenCopyFrame, OpenCopyType DEF TypeInv, TypeOK, NextGeneration
<1>10a. ASSUME NEW w \in Writers, CopyCatalog(w) PROVE TypeInv'
  <2> HIDE DEF TypeInv, TypeOK, Artifact, disk, locals, Goto, NextGeneration
  <2>0. TypeOK
    BY DEF TypeInv
  <2>1. TypeOK'
    BY <1>10a, <2>0, CopyCatalogFrame, CopyCatalogType DEF TypeOK
  <2>2. \A v \in Writers : base'[v] # 0 => cat'[base'[v]] # NoCatalog
    <3>1. /\ \A v \in Writers : base[v] \in {0} \cup Gens /\ (base[v] # 0 => cat[base[v]] # NoCatalog)
          /\ base' = base
      BY <1>10a, CopyCatalogFrame DEF TypeInv, TypeOK
    <3>2. \A g \in Gens : cat[g] # NoCatalog => cat'[g] # NoCatalog
      BY <1>10a, CopyCatalogType
    <3>3. QED
      BY <3>1, <3>2
  <2>3. QED
    BY <1>10a, <2>1, <2>2, CopyCatalogFrame, CopyCatalogType DEF TypeInv, NextGeneration
<1>11. ASSUME NEW w \in Writers, ReplaceCatalog(w) PROVE TypeInv'
  <2> HIDE DEF TypeInv, TypeOK, Artifact, disk, locals, Goto, NextGeneration
  <2>0. TypeOK
    BY DEF TypeInv
  <2>1. TypeOK'
    BY <1>11, <2>0, ReplaceCatalogFrame, ReplaceCatalogType DEF TypeOK
  <2>2. \A v \in Writers : base'[v] # 0 => cat'[base'[v]] # NoCatalog
    <3>1. /\ \A v \in Writers : base[v] \in {0} \cup Gens /\ (base[v] # 0 => cat[base[v]] # NoCatalog)
          /\ base' = base
      BY <1>11, ReplaceCatalogFrame DEF TypeInv, TypeOK
    <3>2. \A g \in Gens : cat[g] # NoCatalog => cat'[g] # NoCatalog
      BY <1>11, ReplaceCatalogType
    <3>3. QED
      BY <3>1, <3>2
  <2>3. QED
    BY <1>11, <2>1, <2>2, ReplaceCatalogFrame, ReplaceCatalogType DEF TypeInv, NextGeneration
<1>12. ASSUME NEW w \in Writers, SealCatalog(w) PROVE TypeInv'
  BY <1>12 DEF SealCatalog, Phases
<1>13. ASSUME NEW w \in Writers, WriteReceipt(w) PROVE TypeInv'
  BY <1>13 DEF WriteReceipt, Phases
<1>14. ASSUME NEW w \in Writers, Release(w) PROVE TypeInv'
  BY <1>14 DEF Release, ForgetLocals, Nowhere, Phases
<1>15. ASSUME NEW w \in Writers, Fail(w) PROVE TypeInv'
  BY <1>15 DEF Fail, Phases
<1>16. ASSUME NEW w \in Writers, Crash(w) PROVE TypeInv'
  BY <1>16 DEF Crash, ForgetLocals, Nowhere, Phases
<1>17. ASSUME LockGrowsStale PROVE TypeInv'
  BY <1>17 DEF LockGrowsStale, Lock
<1>18. ASSUME NEW r \in Recoverers, Recover(r) PROVE TypeInv'
  <2>1. CASE RecoverRead(r)
    BY <2>1 DEF RecoverRead
  <2>2. CASE RecoverUnlink(r)
    BY <2>2 DEF RecoverUnlink
  <2>3. QED
    BY <1>18, <2>1, <2>2 DEF Recover
<1>19. CASE UNCHANGED vars
  BY <1>19 DEF vars
<1>20. QED
  BY <1>1, <1>2, <1>3, <1>4, <1>5, <1>6, <1>7, <1>8, <1>9, <1>10, <1>10a,
     <1>11, <1>12, <1>13, <1>14, <1>15, <1>16, <1>17, <1>18, <1>19 DEF Next, Work

(* The type invariant holds: every step keeps the files of the vault and   *)
(* the locals of ingest in their domains.                                  *)
THEOREM TypeCorrect == Spec => []TypeOK
<1>1. TypeInv => TypeOK
  BY DEF TypeInv
<1>2. QED
  BY <1>1, TypeInvInit, TypeInvStep, PTL DEF Spec
-----------------------------------------------------------------------------
(* The writer lock excludes, as long as no ingestion outlives the stale    *)
(* timeout and at most one process recovers stale locks.  Without either   *)
(* assumption it does not: MCVault_overwrite shows an ingestion outliving  *)
(* its lock, and of two recoveries the slower may unlink a fresh lock.     *)

(* A writer at work owns the lock file, a process about to unlink a lock   *)
(* still faces the stale one it read, and only a killed writer's lock is   *)
(* stale: so neither the unlink of a recovery nor that of Release can hit  *)
(* another writer's lock.                                                  *)
LockInv ==
  /\ \A w \in Writers : phase[w] # "idle" => lock # NoLock /\ lock.owner = w
  /\ \A r \in Recoverers : recovering[r] => lock # NoLock /\ lock.stale
  /\ lock # NoLock /\ lock.stale => phase[lock.owner] = "idle"

LEMMA LockInvInit == Init => LockInv
BY DEF Init, LockInv

(* The steps of a writer inside the lock's scope. *)
Inside(w) ==
  /\ phase[w] # "idle"
  /\ phase' \in [Writers -> Phases]
  /\ \A v \in Writers : v # w => phase'[v] = phase[v]
  /\ recovering' = recovering
  /\ \/ lock' = lock
     \/ lock # NoLock /\ lock.owner = w /\ lock' = [lock EXCEPT !.written = TRUE]

LEMMA InsideSteps ==
  ASSUME TypeInv, TypeInv', NEW w \in Writers, Work(w) \/ Fail(w) \/ Crash(w)
  PROVE  Inside(w) \/ Release(w)
<1>0. phase \in [Writers -> Phases] /\ phase' \in [Writers -> Phases]
  BY DEF TypeInv, TypeOK
<1> USE <1>0 DEF Inside, Goto
<1>1. CASE WriteLockInfo(w)
  BY <1>1 DEF WriteLockInfo
<1>2. ASSUME NEW S \in SUBSET Bundles, LoadCatalog(w, S) PROVE Inside(w)
  BY <1>2 DEF LoadCatalog
<1>3. CASE LoadIndex(w)
  BY <1>3 DEF LoadIndex
<1>4. ASSUME NEW o \in Objects, AddObject(w, o) PROVE Inside(w)
  BY <1>4 DEF AddObject
<1>5. CASE PlacePack(w)
  BY <1>5 DEF PlacePack
<1>6. CASE SealPack(w)
  BY <1>6 DEF SealPack
<1>7. CASE Stage(w)
  BY <1>7 DEF Stage, ReadyToStage
<1>8. CASE StageRejected(w)
  BY <1>8 DEF StageRejected, ReadyToStage
<1>9. CASE OpenCopy(w) \/ CopyCatalog(w)
  BY <1>9, OpenCopyFrame, CopyCatalogFrame
<1>10. CASE ReplaceCatalog(w)
  BY <1>10, ReplaceCatalogFrame
<1>11. CASE SealCatalog(w)
  BY <1>11 DEF SealCatalog
<1>12. CASE WriteReceipt(w)
  BY <1>12 DEF WriteReceipt
<1>13. CASE Fail(w)
  BY <1>13 DEF Fail
<1>14. CASE Crash(w)
  BY <1>14, ConstantsAssumption DEF Crash
<1>15. QED
  BY <1>1, <1>2, <1>3, <1>4, <1>5, <1>6, <1>7, <1>8, <1>9, <1>10, <1>11, <1>12,
     <1>13, <1>14 DEF Work

LEMMA LockInvStep ==
  ASSUME ~LongIngests, \A r, s \in Recoverers : r = s,
         TypeInv, TypeInv', LockInv, [Next]_vars
  PROVE  LockInv'
<1>0. /\ phase \in [Writers -> Phases] /\ phase' \in [Writers -> Phases]
      /\ recovering \in [Recoverers -> BOOLEAN]
      /\ lock \in Lock \cup {NoLock} /\ lock' \in Lock \cup {NoLock}
  BY DEF TypeInv, TypeOK
<1>1. ASSUME NEW w \in Writers, Acquire(w) PROVE LockInv'
  <2>1. /\ lock = NoLock
        /\ lock' = [owner |-> w, written |-> FALSE, stale |-> FALSE]
        /\ phase' = [phase EXCEPT ![w] = "locking"]
        /\ recovering' = recovering
    BY <1>1 DEF Acquire, Goto
  <2>2. lock' \in Lock /\ lock' # NoLock
    <3>1. lock' \in Lock
      BY <2>1 DEF Lock
    <3>2. QED
      BY <3>1, ConstantsAssumption
  <2>3. QED
    BY <1>0, <2>1, <2>2 DEF LockInv
<1>2. ASSUME NEW w \in Writers, Inside(w) PROVE LockInv'
  <2>1. lock # NoLock /\ lock.owner = w /\ ~lock.stale
    BY <1>2 DEF LockInv, Inside
  <2>2. lock' # NoLock /\ lock'.owner = w /\ lock'.stale = lock.stale
    <3>1. lock \in Lock
      BY <1>0, <2>1
    <3>2. CASE lock' = lock
      BY <2>1, <3>2
    <3>3. CASE lock' = [lock EXCEPT !.written = TRUE]
      <4>1. lock' \in Lock /\ lock'.owner = w /\ lock'.stale = lock.stale
        BY <2>1, <3>1, <3>3 DEF Lock
      <4>2. QED
        BY <4>1, ConstantsAssumption
    <3>4. QED
      BY <1>2, <3>2, <3>3 DEF Inside
  <2>3. \A v \in Writers : v # w => phase'[v] = "idle"
    BY <1>2, <2>1 DEF LockInv, Inside
  <2>4. \A r \in Recoverers : ~recovering'[r]
    BY <1>0, <1>2, <2>1 DEF LockInv, Inside
  <2>5. QED
    BY <2>1, <2>2, <2>3, <2>4 DEF LockInv
<1>3. ASSUME NEW w \in Writers, Release(w) PROVE LockInv'
  <2>1. /\ lock' = NoLock
        /\ phase' = [phase EXCEPT ![w] = "idle"]
        /\ recovering' = recovering
        /\ phase[w] = "releasing"
    BY <1>3 DEF Release, Goto
  <2>2. \A v \in Writers : v # w => phase[v] = "idle"
    BY <2>1 DEF LockInv
  <2>3. \A r \in Recoverers : ~recovering[r]
    BY <1>0, <2>1 DEF LockInv
  <2>4. QED
    BY <1>0, <2>1, <2>2, <2>3 DEF LockInv
<1>4. ASSUME LockGrowsStale PROVE LockInv'
  <2>1. /\ lock # NoLock /\ phase[lock.owner] = "idle"
        /\ lock' = [lock EXCEPT !.stale = TRUE]
        /\ phase' = phase /\ recovering' = recovering
    BY <1>4 DEF LockGrowsStale
  <2>2. lock' # NoLock /\ lock'.owner = lock.owner /\ lock'.stale
    BY <1>0, <2>1, ConstantsAssumption DEF Lock
  <2>3. QED
    BY <2>1, <2>2 DEF LockInv
<1>5. ASSUME NEW r \in Recoverers, RecoverRead(r) PROVE LockInv'
  BY <1>0, <1>5 DEF RecoverRead, LockInv
<1>6. ASSUME NEW r \in Recoverers, RecoverUnlink(r) PROVE LockInv'
  <2>1. \A w \in Writers : phase[w] = "idle"
    BY <1>6 DEF RecoverUnlink, LockInv
  <2>2. \A s \in Recoverers : ~recovering'[s]
    BY <1>0, <1>6 DEF RecoverUnlink
  <2>3. QED
    BY <1>6, <2>1, <2>2 DEF RecoverUnlink, LockInv
<1>7. CASE UNCHANGED vars
  BY <1>7 DEF vars, LockInv
<1>8. QED
  BY <1>1, <1>2, <1>3, <1>4, <1>5, <1>6, <1>7, InsideSteps DEF Next, Recover

(* Ingestions exclude one another (VaultService._writer_lock), provided    *)
(* none lasts stale_lock_timeout and at most one process recovers locks.   *)
THEOREM MutualExclusion ==
  ASSUME ~LongIngests, \A r, s \in Recoverers : r = s
  PROVE  Spec => []WriterExclusion
<1>1. LockInv => WriterExclusion
  BY DEF LockInv, WriterExclusion
<1>2. TypeInv /\ TypeInv' /\ LockInv /\ [Next]_vars => LockInv'
  BY LockInvStep
<1>3. QED
  BY <1>1, <1>2, TypeInvInit, TypeInvStep, LockInvInit, PTL DEF Spec
-----------------------------------------------------------------------------
(* Packs and staged catalogs.  These lemmas need no lock; what is closed   *)
(* is every catalog that is whole, and only VaultLedgerProofs, which       *)
(* assumes that ingestions exclude one another, knows the files to be.     *)

(* The catalogs somebody may read: the generations, their temporary copies *)
(* and the staged databases.                                               *)
Artifacts == {cat[g] : g \in Gens} \cup {partial[g] : g \in Gens}
               \cup {staged[w] : w \in Writers}

(* CatalogsClosed is not inductive: a generation is published from the     *)
(* staged database through a temporary copy, staging trusts the seals that *)
(* planning collected, and a sealed pack stays as it is because the pack a *)
(* writer has open is unsealed and its own.                                *)
ClosedInv ==
  /\ \A c \in Artifacts : c \in Catalog => Closed(c, packStage, packHolds)
  /\ \A w \in Writers : seals[w] \subseteq SealedPacks
  /\ \A w \in Writers : cur[w] # NoPack => packStage[cur[w]] \in {"incomplete", "placed"}
  /\ \A v, w \in Writers : cur[v] # NoPack /\ cur[v] = cur[w] => v = w

(* A catalog stays closed while the packs it records stay sealed and keep  *)
(* their members.                                                          *)
LEMMA ClosedStable ==
  ASSUME NEW c, NEW s1, NEW h1, NEW s2, NEW h2, Closed(c, s1, h1),
         \A p \in c.packs : s1[p] = "sealed" => s2[p] = "sealed" /\ h1[p] \subseteq h2[p]
  PROVE  Closed(c, s2, h2)
BY DEF Closed

LEMMA ClosedInvInit == Init => ClosedInv
<1> SUFFICES ASSUME Init PROVE ClosedInv
  OBVIOUS
<1>1. \A c \in Artifacts : c = NoCatalog
  BY DEF Init, Artifacts
<1>2. \A w \in Writers : seals[w] = {} /\ cur[w] = NoPack
  BY DEF Init
<1>3. QED
  BY <1>1, <1>2, ConstantsAssumption DEF ClosedInv

(* The steps that do not write a pack. *)
PacksUntouched ==
  /\ packStage' = packStage
  /\ packHolds' = packHolds
  /\ \A w \in Writers : cur'[w] \in {cur[w], NoPack}
  /\ \A w \in Writers : seals'[w] \subseteq seals[w] \cup SealedPacks

LEMMA PackSteps ==
  ASSUME TypeInv, [Next]_vars
  PROVE  \/ \E w \in Writers, o \in Objects : AddObject(w, o)
         \/ \E w \in Writers : PlacePack(w)
         \/ \E w \in Writers : SealPack(w)
         \/ PacksUntouched
<1>0. cur \in [Writers -> PackIds \cup {NoPack}] /\ seals \in [Writers -> SUBSET PackIds]
  BY DEF TypeInv, TypeOK
<1> USE <1>0 DEF PacksUntouched, disk, locals
<1>1. ASSUME NEW w \in Writers, Acquire(w) PROVE PacksUntouched
  BY <1>1 DEF Acquire
<1>2. ASSUME NEW w \in Writers, WriteLockInfo(w) PROVE PacksUntouched
  BY <1>2 DEF WriteLockInfo
<1>3. ASSUME NEW w \in Writers, NEW S \in SUBSET Bundles, LoadCatalog(w, S)
      PROVE  PacksUntouched
  BY <1>3 DEF LoadCatalog
<1>4. ASSUME NEW w \in Writers, LoadIndex(w) PROVE PacksUntouched
  BY <1>4 DEF LoadIndex
<1>5. ASSUME NEW w \in Writers, Stage(w) PROVE PacksUntouched
  BY <1>5 DEF Stage
<1>6. ASSUME NEW w \in Writers, StageRejected(w) PROVE PacksUntouched
  BY <1>6 DEF StageRejected
<1>7. ASSUME NEW w \in Writers, OpenCopy(w) \/ CopyCatalog(w) PROVE PacksUntouched
  BY <1>7, OpenCopyFrame, CopyCatalogFrame
<1>8. ASSUME NEW w \in Writers, ReplaceCatalog(w) PROVE PacksUntouched
  BY <1>8, ReplaceCatalogFrame
<1>9. ASSUME NEW w \in Writers, SealCatalog(w) PROVE PacksUntouched
  BY <1>9 DEF SealCatalog
<1>10. ASSUME NEW w \in Writers, WriteReceipt(w) PROVE PacksUntouched
  BY <1>10 DEF WriteReceipt
<1>11. ASSUME NEW w \in Writers, Release(w) PROVE PacksUntouched
  BY <1>11 DEF Release, ForgetLocals
<1>12. ASSUME NEW w \in Writers, Fail(w) PROVE PacksUntouched
  BY <1>12 DEF Fail
<1>13. ASSUME NEW w \in Writers, Crash(w) PROVE PacksUntouched
  BY <1>13 DEF Crash, ForgetLocals
<1>14. ASSUME LockGrowsStale PROVE PacksUntouched
  BY <1>14 DEF LockGrowsStale
<1>15. ASSUME NEW r \in Recoverers, Recover(r) PROVE PacksUntouched
  BY <1>15 DEF Recover, RecoverRead, RecoverUnlink
<1>16. CASE UNCHANGED vars
  BY <1>16 DEF vars
<1>17. QED
  BY <1>1, <1>2, <1>3, <1>4, <1>5, <1>6, <1>7, <1>8, <1>9, <1>10, <1>11,
     <1>12, <1>13, <1>14, <1>15, <1>16 DEF Next, Work

(* No step touches a sealed pack. *)
LEMMA SealedPacksStable ==
  ASSUME TypeInv, ClosedInv, [Next]_vars
  PROVE  \A p \in SealedPacks : p \in SealedPacks' /\ packHolds'[p] = packHolds[p]
<1>0. /\ packStage \in [PackIds -> {"absent", "incomplete", "placed", "sealed"}]
      /\ packHolds \in [PackIds -> SUBSET Objects]
      /\ cur \in [Writers -> PackIds \cup {NoPack}]
  BY DEF TypeInv, TypeOK
<1> USE <1>0 DEF SealedPacks
<1>1. ASSUME NEW w \in Writers, NEW o \in Objects, AddObject(w, o)
      PROVE  \A p \in SealedPacks : p \in SealedPacks' /\ packHolds'[p] = packHolds[p]
  <2>1. PICK p \in PackIds :
          /\ packStage[p] # "sealed"
          /\ packStage' = [packStage EXCEPT ![p] = "incomplete"]
          /\ packHolds' = [packHolds EXCEPT ![p] = @ \cup {o}]
    BY <1>1 DEF AddObject, ClosedInv
  <2>2. QED
    BY <2>1
<1>2. ASSUME NEW w \in Writers, PlacePack(w)
      PROVE  \A p \in SealedPacks : p \in SealedPacks' /\ packHolds'[p] = packHolds[p]
  BY <1>2 DEF PlacePack, ClosedInv
<1>3. ASSUME NEW w \in Writers, SealPack(w)
      PROVE  \A p \in SealedPacks : p \in SealedPacks' /\ packHolds'[p] = packHolds[p]
  BY <1>3 DEF SealPack
<1>4. CASE PacksUntouched
  BY <1>4 DEF PacksUntouched
<1>5. QED
  BY <1>1, <1>2, <1>3, <1>4, PackSteps

(* What planning collected stays sealed, and open packs stay unsealed and  *)
(* each with the one writer that opened it.                                *)
LEMMA OpenPacksStep ==
  ASSUME TypeInv, ClosedInv, [Next]_vars
  PROVE  /\ \A w \in Writers : seals'[w] \subseteq SealedPacks'
         /\ \A w \in Writers : cur'[w] # NoPack => packStage'[cur'[w]] \in {"incomplete", "placed"}
         /\ \A v, w \in Writers : cur'[v] # NoPack /\ cur'[v] = cur'[w] => v = w
<1>0. /\ packStage \in [PackIds -> {"absent", "incomplete", "placed", "sealed"}]
      /\ cur \in [Writers -> PackIds \cup {NoPack}]
      /\ seals \in [Writers -> SUBSET PackIds]
      /\ \A w \in Writers : phase[w] = "sealing" => cur[w] \in PackIds
  BY DEF TypeInv, TypeOK
<1>a. \A p \in SealedPacks : p \in SealedPacks'
  BY SealedPacksStable
<1> DEFINE Goal ==
      /\ \A w \in Writers : seals'[w] \subseteq SealedPacks'
      /\ \A w \in Writers : cur'[w] # NoPack => packStage'[cur'[w]] \in {"incomplete", "placed"}
      /\ \A v, w \in Writers : cur'[v] # NoPack /\ cur'[v] = cur'[w] => v = w
<1>1. ASSUME NEW w \in Writers, NEW o \in Objects, AddObject(w, o) PROVE Goal
  <2>1. PICK p \in PackIds :
          /\ packStage[p] = "absent" \/ p = cur[w]
          /\ packStage' = [packStage EXCEPT ![p] = "incomplete"]
          /\ cur' = [cur EXCEPT ![w] = p]
    BY <1>1 DEF AddObject
  <2>2. seals' = seals
    BY <1>1 DEF AddObject
  <2>3. \A v \in Writers : v # w => cur[v] # p
    BY <1>0, <2>1 DEF ClosedInv, PackIds, NoPack
  <2>4. \A v \in Writers : seals'[v] \subseteq SealedPacks'
    BY <1>a, <2>2 DEF ClosedInv
  <2>5. \A v \in Writers : cur'[v] # NoPack => packStage'[cur'[v]] \in {"incomplete", "placed"}
    BY <1>0, <2>1, <2>3 DEF ClosedInv
  <2>6. \A u, v \in Writers : cur'[u] # NoPack /\ cur'[u] = cur'[v] => u = v
    BY <1>0, <2>1, <2>3 DEF ClosedInv
  <2>7. QED
    BY <2>4, <2>5, <2>6
<1>2. ASSUME NEW w \in Writers, PlacePack(w) PROVE Goal
  <2>1. /\ packStage' = [packStage EXCEPT ![cur[w]] = "placed"]
        /\ cur' = cur /\ seals' = seals
    BY <1>2 DEF PlacePack, locals
  <2>2. QED
    BY <1>0, <1>a, <2>1 DEF ClosedInv
<1>3. ASSUME NEW w \in Writers, SealPack(w) PROVE Goal
  <2>1. /\ packStage' = [packStage EXCEPT ![cur[w]] = "sealed"]
        /\ cur' = [cur EXCEPT ![w] = NoPack]
        /\ seals' = [seals EXCEPT ![w] = @ \cup {cur[w]}]
        /\ cur[w] \in PackIds
    BY <1>0, <1>3 DEF SealPack
  <2>2. cur[w] \in SealedPacks'
    BY <1>0, <2>1 DEF SealedPacks
  <2>3. \A v \in Writers : seals'[v] \subseteq SealedPacks'
    BY <1>0, <1>a, <2>1, <2>2 DEF ClosedInv
  <2>4. QED
    BY <1>0, <2>1, <2>3 DEF ClosedInv
<1>4. CASE PacksUntouched
  <2>1. SealedPacks' = SealedPacks
    BY <1>4 DEF PacksUntouched, SealedPacks
  <2>2. QED
    BY <1>4, <2>1 DEF PacksUntouched, ClosedInv
<1>5. QED
  BY <1>1, <1>2, <1>3, <1>4, PackSteps

(* A catalog that appears was there before, in the staging directory or    *)
(* under its temporary name, or is staged by this step; or it is a tear.   *)
LEMMA ArtifactSteps ==
  ASSUME TypeInv, [Next]_vars, NEW c \in Artifacts'
  PROVE  \/ c \in Tears \cup {NoCatalog}
         \/ c \in Artifacts
         \/ \E w \in Writers : Stage(w) /\ c = StagedCatalog(w)
<1>0. /\ partial \in [Gens -> Artifact] /\ cat \in [Gens -> Artifact]
      /\ staged \in [Writers -> Artifact]
      /\ \A w \in Writers : phase[w] \in Publishing => NextGeneration(w) \in Gens
  BY DEF TypeInv, TypeOK
<1> DEFINE Old == c \in Tears \cup {NoCatalog} \/ c \in Artifacts
           Same == partial' = partial /\ cat' = cat /\ staged' = staged
<1>1. Same => Old
  BY DEF Artifacts
<1>2. ASSUME NEW w \in Writers, Stage(w)
      PROVE  Old \/ c = StagedCatalog(w)
  <2>1. /\ partial' = partial /\ cat' = cat
        /\ staged' = [staged EXCEPT ![w] = StagedCatalog(w)]
    BY <1>2 DEF Stage, disk
  <2>2. QED
    BY <1>0, <2>1 DEF Artifacts
<1>3. ASSUME NEW w \in Writers, OpenCopy(w) \/ CopyCatalog(w) PROVE Old
  <2>1. CASE OpenCopy(w)
    <3>1. cat' = cat /\ staged' = staged /\ NextGeneration(w) \in Gens
      BY <1>0, <2>1, OpenCopyFrame DEF Publishing
    <3>2. PICK t \in Tears : partial' = [partial EXCEPT ![NextGeneration(w)] = t]
      BY <2>1 DEF OpenCopy
    <3>3. \A g \in Gens : partial'[g] = t \/ partial'[g] = partial[g]
      BY <1>0, <3>1, <3>2
    <3>4. QED
      BY <3>1, <3>3 DEF Artifacts
  <2>2. CASE CopyCatalog(w)
    <3>1. PICK d \in Catalog \cup Tears :
            /\ d = staged[w] \/ d \in Tears
            /\ partial' = partial \/ partial' = [partial EXCEPT ![NextGeneration(w)] = d]
            /\ cat' = cat \/ cat' = [cat EXCEPT ![NextGeneration(w)] = d]
      BY <2>2, CopyCatalogWrites
    <3>2. staged' = staged
      BY <2>2, CopyCatalogFrame
    <3>3. \A g \in Gens : partial'[g] \in {partial[g], d} /\ cat'[g] \in {cat[g], d}
      BY <1>0, <3>1
    <3>4. QED
      BY <3>1, <3>2, <3>3 DEF Artifacts
  <2>3. QED
    BY <1>3, <2>1, <2>2
<1>4. ASSUME NEW w \in Writers, ReplaceCatalog(w) PROVE Old
  <2>1. phase[w] = "copied" /\ staged' = staged
    BY <1>4, ReplaceCatalogFrame
  <2>2. NextGeneration(w) \in Gens
    BY <1>0, <2>1 DEF Publishing
  <2>3. \/ cat' = cat /\ partial' = partial
        \/ /\ cat' = [cat EXCEPT ![NextGeneration(w)] = partial[NextGeneration(w)]]
           /\ partial' = [partial EXCEPT ![NextGeneration(w)] = NoCatalog]
    BY <1>4 DEF ReplaceCatalog
  <2>4. QED
    BY <1>0, <2>1, <2>2, <2>3 DEF Artifacts
<1>5. ASSUME NEW w \in Writers, ForgetLocals(w), partial' = partial, cat' = cat PROVE Old
  <2>1. staged' = [staged EXCEPT ![w] = NoCatalog]
    BY <1>5 DEF ForgetLocals
  <2>2. QED
    BY <1>0, <1>5, <2>1 DEF Artifacts
<1>6. ASSUME NEW w \in Writers, Acquire(w) PROVE Same
  BY <1>6 DEF Acquire, disk, locals
<1>7. ASSUME NEW w \in Writers, WriteLockInfo(w) PROVE Same
  BY <1>7 DEF WriteLockInfo, disk, locals
<1>8. ASSUME NEW w \in Writers, NEW S \in SUBSET Bundles, LoadCatalog(w, S) PROVE Same
  BY <1>8 DEF LoadCatalog
<1>9. ASSUME NEW w \in Writers, LoadIndex(w) PROVE Same
  BY <1>9 DEF LoadIndex, disk
<1>10. ASSUME NEW w \in Writers, NEW o \in Objects, AddObject(w, o) PROVE Same
  BY <1>10 DEF AddObject
<1>11. ASSUME NEW w \in Writers, PlacePack(w) PROVE Same
  BY <1>11 DEF PlacePack, locals
<1>12. ASSUME NEW w \in Writers, SealPack(w) PROVE Same
  BY <1>12 DEF SealPack
<1>13. ASSUME NEW w \in Writers, StageRejected(w) PROVE Same
  BY <1>13 DEF StageRejected, disk, locals
<1>14. ASSUME NEW w \in Writers, SealCatalog(w) PROVE Same
  BY <1>14 DEF SealCatalog, locals
<1>15. ASSUME NEW w \in Writers, WriteReceipt(w) PROVE Same
  BY <1>15 DEF WriteReceipt, locals
<1>16. ASSUME NEW w \in Writers, Fail(w) PROVE Same
  BY <1>16 DEF Fail, disk, locals
<1>17. ASSUME LockGrowsStale PROVE Same
  BY <1>17 DEF LockGrowsStale, disk, locals
<1>18. ASSUME NEW r \in Recoverers, Recover(r) PROVE Same
  BY <1>18 DEF Recover, RecoverRead, RecoverUnlink, disk, locals
<1>19. ASSUME NEW w \in Writers, Release(w) PROVE Old
  BY <1>5, <1>19 DEF Release, disk
<1>20. ASSUME NEW w \in Writers, Crash(w) PROVE Old
  BY <1>5, <1>20 DEF Crash, disk
<1>21. CASE UNCHANGED vars
  BY <1>1, <1>21 DEF vars, disk, locals
<1>22. QED
  BY <1>1, <1>2, <1>3, <1>4, <1>6, <1>7, <1>8, <1>9, <1>10, <1>11, <1>12, <1>13,
     <1>14, <1>15, <1>16, <1>17, <1>18, <1>19, <1>20, <1>21 DEF Next, Work

(* The staged database is closed: what it takes over from its base is, and *)
(* what it adds are the objects of the plan, in packs sealed by now.       *)
LEMMA StagedClosed ==
  ASSUME TypeInv, ClosedInv, NEW w \in Writers, Stage(w)
  PROVE  Closed(StagedCatalog(w), packStage, packHolds)
<1> DEFINE b == BaseCatalog(w)
           c == StagedCatalog(w)
<1>0. BaseReadable(w)
  BY Zenon DEF Stage, Accepted
<1>1. Closed(b, packStage, packHolds)
  <2>1. CASE base[w] = 0
    BY <2>1 DEF BaseCatalog, Closed, UniqueIdentities, FilesOf, Nowhere
  <2>2. CASE base[w] # 0
    <3>1. b \in Artifacts
      BY <2>2 DEF BaseCatalog, TypeInv, TypeOK, Artifacts
    <3>2. QED
      BY <1>0, <3>1, BaseCatalogType DEF ClosedInv
  <2>3. QED
    BY <2>1, <2>2
<1>2. UnitsInsertable(w) /\ ObjectsKnown(w)
  BY Zenon DEF Stage, Accepted
<1>3. /\ c.bundles = b.bundles \cup plan[w]
      /\ c.packs = b.packs \cup Recorded(w)
      /\ \A o \in Objects :
           \/ b.where[o] # NoPack /\ c.where[o] = b.where[o]
           \/ b.where[o] = NoPack /\ c.where[o] \in Recorded(w) /\ o \in packHolds[c.where[o]]
           \/ b.where[o] = NoPack /\ c.where[o] = NoPack
  BY DEF StagedCatalog
<1>4. \A p \in Recorded(w) : packStage[p] = "sealed"
  BY DEF Recorded, ClosedInv, SealedPacks
<1>5. b.bundles \subseteq Bundles /\ plan[w] \subseteq Bundles
  BY <1>0, BaseCatalogType DEF Catalog, TypeInv, TypeOK
<1>6. FilesOf(c.bundles) = FilesOf(b.bundles) \cup FilesOf(plan[w])
  BY <1>3 DEF FilesOf
<1>7. FilesOf(c.bundles) \subseteq Objects
  BY <1>3, <1>5, ConstantsAssumption DEF FilesOf
<1> HIDE DEF b, c
<1>8. UniqueIdentities(c.bundles)
  BY <1>1, <1>2, <1>3 DEF Closed, UniqueIdentities, UnitsInsertable, b
<1>9. \A o \in FilesOf(c.bundles) : c.where[o] # NoPack
  BY <1>1, <1>2, <1>3, <1>6, <1>7 DEF Closed, ObjectsKnown, c
<1>10. \A o \in Objects : c.where[o] # NoPack =>
          c.where[o] \in c.packs /\ o \in packHolds[c.where[o]]
  BY <1>1, <1>3 DEF Closed
<1>11. \A p \in c.packs : packStage[p] = "sealed"
  BY <1>1, <1>3, <1>4 DEF Closed
<1>12. Closed(c, packStage, packHolds)
  BY <1>8, <1>9, <1>10, <1>11 DEF Closed
<1>13. QED
  BY <1>12 DEF c

LEMMA ClosedInvStep == TypeInv /\ ClosedInv /\ [Next]_vars => ClosedInv'
<1> SUFFICES ASSUME TypeInv, ClosedInv, [Next]_vars PROVE ClosedInv'
  OBVIOUS
<1>1. ASSUME NEW c \in Artifacts', c \in Catalog
      PROVE  Closed(c, packStage', packHolds')
  <2>1. Closed(c, packStage, packHolds)
    <3>1. CASE c \in Artifacts
      BY <1>1, <3>1 DEF ClosedInv
    <3>2. ASSUME NEW w \in Writers, Stage(w), c = StagedCatalog(w)
          PROVE  Closed(c, packStage, packHolds)
      BY <3>2, StagedClosed
    <3>3. c \notin Tears \cup {NoCatalog}
      BY <1>1, ConstantsAssumption
    <3>4. QED
      BY <1>1, <3>1, <3>2, <3>3, ArtifactSteps
  <2>2. c.packs \subseteq PackIds
    BY <1>1 DEF Catalog
  <2>3. \A p \in c.packs : packStage[p] = "sealed" =>
          packStage'[p] = "sealed" /\ packHolds[p] \subseteq packHolds'[p]
    BY <2>2, SealedPacksStable DEF SealedPacks
  <2>4. QED
    BY <2>1, <2>3, ClosedStable
<1>2. QED
  BY <1>1, OpenPacksStep DEF ClosedInv
=============================================================================
