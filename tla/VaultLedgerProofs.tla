-------------------------- MODULE VaultLedgerProofs --------------------------
(***************************************************************************)
(* What readers see of a vault is the append-only ledger, as long as       *)
(* ingestions exclude one another (see VaultProofs): a sealed catalog is   *)
(* never rewritten, what was imported stays, each object is stored once,   *)
(* every catalog is whole and refers to sealed packs, the plan of an       *)
(* ingestion still fits when it stages, and the vault implements           *)
(* VaultLedger, however ingestions fail and are killed.                    *)
(***************************************************************************)
EXTENDS VaultProofs

Highest ==
  /\ LatestGen \in {0} \cup Gens
  /\ LatestGen # 0 => Valid(LatestGen)
  /\ \A h \in Gens : Valid(h) => h <= LatestGen

LEMMA HighestHolds == Highest
BY LatestGenHighest DEF Highest

LEMMA HighestHoldsNext == Highest'
BY HighestHolds, PTL

(* The next latest generation is the only one with its two properties.   *)
LEMMA LatestGenIsNext ==
  ASSUME NEW g \in {0} \cup Gens, g # 0 => Valid(g)', \A h \in Gens : Valid(h)' => h <= g
  PROVE  LatestGen' = g
<1>1. g \in Nat /\ LatestGen' \in Nat /\ \A h \in Gens : h \in Nat /\ h > 0
  BY HighestHoldsNext, ConstantsAssumption DEF Highest, Gens
<1>2. QED
  BY <1>1, HighestHoldsNext DEF Highest
-----------------------------------------------------------------------------
Building ==
  {"planning", "packing", "sealing", "publishing", "copying", "copied", "replaced"}
Staging == {"publishing", "copying", "copied", "replaced"}

(* A writer works on the latest generation, what it has staged extends     *)
(* that generation by its plan, and the file it is about to seal, or the   *)
(* copy it is about to rename, is what it has staged; the copy it is       *)
(* writing is still where it has opened it.                                *)
WriterInv(w) ==
  /\ phase[w] \in Building =>
       /\ meta /\ base[w] = LatestGen
       /\ \A b \in plan[w], k \in LatestBundles : Identity[k] # Identity[b]
  /\ phase[w] \in Staging =>
       /\ UniqueIdentities(plan[w])
       /\ staged[w] \in Catalog /\ staged[w].bundles = LatestBundles \cup plan[w]
  /\ phase[w] = "copying" =>
       file[w] = "partial" /\ partial[NextGeneration(w)] # NoCatalog
  /\ phase[w] = "copied" => partial[NextGeneration(w)] = staged[w]
  /\ phase[w] = "replaced" => cat[NextGeneration(w)] = staged[w]
  /\ phase[w] = "receipt" => plan[w] \subseteq LatestBundles

(* A seal is that of the catalog beside it: whatever an earlier ingestion  *)
(* left behind has none, so the next one may write over it.  No two        *)
(* writers write one copy, so each published catalog is whole.             *)
LedgerInv ==
  /\ TypeInv /\ LockInv
  /\ TornGens = {} /\ \A w \in Writers : ~mixed[w]
  /\ \A g \in Gens : seal[g] \in {NoCatalog, cat[g]}
  /\ meta \/ \A g \in Gens : seal[g] = NoCatalog
  /\ ReceiptsDurable
  /\ \A w \in Writers : WriterInv(w)

LEMMA LedgerInvInit == Init => LedgerInv
<1> SUFFICES ASSUME Init PROVE LedgerInv
  OBVIOUS
<1>1. TypeInv /\ LockInv
  BY TypeInvInit, LockInvInit
<1>2. \A w \in Writers : WriterInv(w)
  BY DEF Init, WriterInv, Building, Staging
<1>3. \A g \in Gens : seal[g] = NoCatalog
  BY DEF Init
<1>4. TornGens = {} /\ \A w \in Writers : ~mixed[w]
  BY ConstantsAssumption DEF Init, TornGens
<1>5. QED
  BY <1>1, <1>2, <1>3, <1>4 DEF LedgerInv, ReceiptsDurable, Init

(* The lock leaves at most one writer at work. *)
LEMMA Sole ==
  ASSUME LockInv, NEW w \in Writers, phase[w] # "idle"
  PROVE  \A v \in Writers : v # w => phase[v] = "idle"
BY DEF LockInv

LEMMA ReadersKeep ==
  ASSUME cat' = cat, seal' = seal
  PROVE  /\ LatestGen' = LatestGen /\ LatestBundles' = LatestBundles
         /\ TornGens' = TornGens
<1>1. LatestGen' = LatestGen /\ TornGens' = TornGens
  BY DEF LatestGen, Valid, TornGens
<1>2. QED
  BY <1>1 DEF LatestBundles

(* No other writer is writing the copy that is opened.                     *)
LEMMA CopyIsOwn ==
  ASSUME LedgerInv, NEW w \in Writers, OpenCopy(w)
  PROVE  /\ NextGeneration(w) \in Gens
         /\ \E t \in Tears : partial' = [partial EXCEPT ![NextGeneration(w)] = t]
         /\ file' = [file EXCEPT ![w] = "partial"]
         /\ \A v \in Writers : ~mixed'[v]
<1>1. phase[w] = "publishing" /\ NextGeneration(w) \in Gens
  BY OpenCopyFrame DEF LedgerInv, TypeInv, Publishing
<1>2. Sharers(w) = {}
  BY <1>1, Sole DEF Sharers, LedgerInv
<1>3. \A v \in Writers : ~mixed'[v]
  BY <1>2 DEF OpenCopy, LedgerInv
<1>4. QED
  BY <1>1, <1>3 DEF OpenCopy

(* So the finished copy is what was staged, still under its own name.      *)
LEMMA CopyStep ==
  ASSUME LedgerInv, NEW w \in Writers, CopyCatalog(w)
  PROVE  /\ cat' = cat /\ NextGeneration(w) \in Gens
         /\ partial' = [partial EXCEPT ![NextGeneration(w)] = staged[w]]
         /\ phase' = [phase EXCEPT ![w] = "copied"]
<1>1. phase[w] = "copying" /\ NextGeneration(w) \in Gens
  BY CopyCatalogFrame DEF LedgerInv, TypeInv, Publishing
<1>2. file[w] = "partial" /\ partial[NextGeneration(w)] # NoCatalog /\ ~mixed[w]
  BY <1>1 DEF LedgerInv, WriterInv
<1>3. PICK c \in {staged[w]} \cup (IF mixed[w] THEN Tears ELSE {}) :
        /\ partial' = IF file[w] = "partial"
                        THEN [partial EXCEPT ![NextGeneration(w)] = c] ELSE partial
        /\ cat' = IF file[w] = "published" THEN [cat EXCEPT ![NextGeneration(w)] = c] ELSE cat
  BY Zenon DEF CopyCatalog
<1>4. phase' = [phase EXCEPT ![w] = "copied"]
  BY <1>2 DEF CopyCatalog, Goto
<1>5. QED
  BY <1>1, <1>2, <1>3, <1>4

(* The generation after the latest one has no seal. *)
LEMMA NextUnsealed ==
  ASSUME LedgerInv, NEW w \in Writers, phase[w] \in {"copied", "replaced"}
  PROVE  /\ NextGeneration(w) \in Gens /\ NextGeneration(w) > LatestGen
         /\ base[w] = LatestGen
         /\ seal[NextGeneration(w)] = NoCatalog
<1>1. NextGeneration(w) \in Gens /\ WriterInv(w)
  BY DEF LedgerInv, TypeInv, Publishing
<1>2. base[w] = LatestGen /\ LatestGen \in {0} \cup Gens
  BY <1>1, HighestHolds DEF WriterInv, Building, Highest
<1>3. NextGeneration(w) > LatestGen /\ ~(NextGeneration(w) <= LatestGen)
  BY <1>2, ConstantsAssumption DEF NextGeneration, Gens
<1>4. ~Valid(NextGeneration(w))
  BY <1>1, <1>3, HighestHolds DEF Highest
<1>5. QED
  BY <1>1, <1>2, <1>3, <1>4 DEF LedgerInv, Valid

(* Until it is sealed, a published catalog is nothing to a reader. *)
LEMMA ReplaceStep ==
  ASSUME LedgerInv, NEW w \in Writers, ReplaceCatalog(w)
  PROVE  /\ cat' = [cat EXCEPT ![NextGeneration(w)] = staged[w]]
         /\ seal' = seal
         /\ \A g \in Gens : Valid(g) => cat'[g] = cat[g]
         /\ \A g \in Gens : seal'[g] \in {NoCatalog, cat'[g]}
         /\ LatestGen' = LatestGen /\ LatestBundles' = LatestBundles
         /\ phase' = [phase EXCEPT ![w] = "replaced"] /\ TornGens' = {}
<1> DEFINE n == NextGeneration(w)
<1>1. phase[w] = "copied" /\ seal' = seal
  BY ReplaceCatalogFrame
<1>2. n \in Gens /\ n > LatestGen /\ seal[n] = NoCatalog /\ LatestGen \in {0} \cup Gens
  BY <1>1, NextUnsealed, HighestHolds DEF Highest
<1>3. partial[n] = staged[w] /\ staged[w] \in Catalog /\ staged[w] # NoCatalog
  BY <1>1, ConstantsAssumption DEF LedgerInv, WriterInv, Staging
<1>4. cat' = [cat EXCEPT ![n] = staged[w]] /\ phase' = [phase EXCEPT ![w] = "replaced"]
  BY <1>3 DEF ReplaceCatalog, Goto
<1>5. cat \in [Gens -> Artifact]
  BY DEF LedgerInv, TypeInv, TypeOK
<1>6. \A g \in Gens : Valid(g)' <=> Valid(g)
  BY <1>1, <1>2, <1>3, <1>4, <1>5 DEF Valid
<1>7. n # LatestGen
  BY <1>2, ConstantsAssumption DEF Gens
<1>8. LatestGen' = LatestGen
  BY <1>2, <1>6, HighestHolds, LatestGenIsNext DEF Highest
<1>t. TornGens' = {} /\ TornGens = {}
  BY <1>2, <1>3, <1>4, <1>5, ConstantsAssumption DEF TornGens, LedgerInv
<1>9. LatestBundles' = LatestBundles
  BY <1>2, <1>4, <1>5, <1>7, <1>8, <1>t DEF LatestBundles
<1>10. \A g \in Gens : Valid(g) => cat'[g] = cat[g]
  BY <1>2, <1>4, <1>5 DEF Valid
<1>11. \A g \in Gens : seal'[g] \in {NoCatalog, cat'[g]}
  BY <1>1, <1>2, <1>4, <1>5 DEF LedgerInv
<1>12. QED
  BY <1>1, <1>4, <1>8, <1>9, <1>10, <1>11, <1>t

(* The seal makes the next generation the latest, which extends the one    *)
(* before by the plan.                                                     *)
LEMMA SealStep ==
  ASSUME LedgerInv, NEW w \in Writers, SealCatalog(w)
  PROVE  /\ cat' = cat
         /\ \A g \in Gens : Valid(g) => seal'[g] = seal[g]
         /\ \A g \in Gens : seal'[g] \in {NoCatalog, cat'[g]}
         /\ LatestBundles' = LatestBundles \cup plan[w]
<1>0. phase[w] = "replaced"
  BY DEF SealCatalog
<1>a. PICK n \in Gens : n = NextGeneration(w)
  BY <1>0, NextUnsealed
<1>1. phase[w] = "replaced" /\ cat' = cat /\ seal' = [seal EXCEPT ![n] = cat[n]]
  BY <1>a DEF SealCatalog
<1>2. n \in Gens /\ n > LatestGen /\ seal[n] = NoCatalog /\ n # 0
  BY <1>0, <1>a, NextUnsealed, ConstantsAssumption DEF Gens
<1>3. cat[n] = staged[w] /\ staged[w] # NoCatalog /\ staged[w].bundles = LatestBundles \cup plan[w]
  BY <1>0, <1>a, ConstantsAssumption DEF LedgerInv, WriterInv, Staging
<1>4. seal \in [Gens -> Artifact]
  BY DEF LedgerInv, TypeInv, TypeOK
<1>5. Valid(n)' /\ \A g \in Gens : Valid(g)' => g = n \/ Valid(g)
  BY <1>1, <1>2, <1>3, <1>4 DEF Valid
<1>6. \A g \in Gens : Valid(g)' => g <= n
  <2>1. LatestGen \in Int /\ n \in Int /\ \A g \in Gens : g \in Int
    BY <1>2, HighestHolds, ConstantsAssumption DEF Gens, Highest
  <2>2. \A g \in Gens : Valid(g) => g <= n
    BY <1>2, <2>1, HighestHolds DEF Highest
  <2>3. QED
    BY <1>5, <2>1, <2>2
<1>7. LatestGen' = n
  BY <1>2, <1>5, <1>6, LatestGenIsNext
<1>8. LatestBundles' = LatestBundles \cup plan[w]
  <2>1. TornGens' = {}
    BY <1>1 DEF TornGens, LedgerInv
  <2>2. QED
    BY <1>1, <1>2, <1>3, <1>7, <2>1 DEF LatestBundles
<1>9. \A g \in Gens : Valid(g) => seal'[g] = seal[g]
  BY <1>1, <1>2, <1>4 DEF Valid
<1>10. \A g \in Gens : seal'[g] \in {NoCatalog, cat'[g]}
  BY <1>1, <1>4 DEF LedgerInv
<1>11. QED
  BY <1>1, <1>8, <1>9, <1>10

(* The other steps change nothing that readers look at. *)
Quiet == cat' = cat /\ seal' = seal /\ receipts' = receipts /\ meta' = meta

LEMMA QuietSteps ==
  ASSUME LedgerInv, [Next]_vars
  PROVE  \/ Quiet
         \/ \E w \in Writers :
              \/ \E S \in SUBSET Bundles : LoadCatalog(w, S)
              \/ ReplaceCatalog(w) \/ SealCatalog(w) \/ WriteReceipt(w)
<1> USE DEF Quiet, disk
<1>1. ASSUME NEW w \in Writers, Acquire(w) PROVE Quiet
  BY <1>1 DEF Acquire
<1>2. ASSUME NEW w \in Writers, WriteLockInfo(w) PROVE Quiet
  BY <1>2 DEF WriteLockInfo
<1>3. ASSUME NEW w \in Writers, LoadIndex(w) PROVE Quiet
  BY <1>3, LoadIndexFrame
<1>4. ASSUME NEW w \in Writers, NEW o \in Objects, AddObject(w, o) PROVE Quiet
  BY <1>4 DEF AddObject
<1>5. ASSUME NEW w \in Writers, PlacePack(w) PROVE Quiet
  BY <1>5 DEF PlacePack
<1>6. ASSUME NEW w \in Writers, SealPack(w) PROVE Quiet
  BY <1>6 DEF SealPack
<1>7. ASSUME NEW w \in Writers, Stage(w) PROVE Quiet
  BY <1>7, StageFrame
<1>8. ASSUME NEW w \in Writers, StageRejected(w) PROVE Quiet
  BY <1>8 DEF StageRejected
<1>9. ASSUME NEW w \in Writers, OpenCopy(w) \/ CopyCatalog(w) PROVE Quiet
  BY <1>9, OpenCopyFrame, CopyCatalogFrame, CopyStep
<1>10. ASSUME NEW w \in Writers, Release(w) PROVE Quiet
  BY <1>10 DEF Release
<1>11. ASSUME NEW w \in Writers, Fail(w) PROVE Quiet
  BY <1>11 DEF Fail
<1>12. ASSUME NEW w \in Writers, Crash(w) PROVE Quiet
  BY <1>12 DEF Crash
<1>13. ASSUME NEW r \in Recoverers, Recover(r) PROVE Quiet
  BY <1>13 DEF Recover, RecoverRead, RecoverUnlink
<1>14. CASE LockGrowsStale
  BY <1>14 DEF LockGrowsStale
<1>15. CASE UNCHANGED vars
  BY <1>15 DEF vars
<1>16. QED
  BY <1>1, <1>2, <1>3, <1>4, <1>5, <1>6, <1>7, <1>8, <1>9, <1>10, <1>11, <1>12, <1>13, <1>14, <1>15
     DEF Next, Work

(* What readers see stays, and receipts tell of nothing else. *)
LEMMA ReadersStep ==
  ASSUME LedgerInv, [Next]_vars
  PROVE  /\ \A g \in Gens : Valid(g) => cat'[g] = cat[g] /\ seal'[g] = seal[g]
         /\ \A g \in Gens : seal'[g] \in {NoCatalog, cat'[g]}
         /\ LatestBundles \subseteq LatestBundles'
         /\ ReceiptsDurable'
         /\ meta' \/ \A g \in Gens : seal'[g] = NoCatalog
         /\ TornGens' = {}
<1> USE DEF LedgerInv, ReceiptsDurable
<1>1. CASE Quiet
  BY <1>1, ReadersKeep DEF Quiet
<1>2. ASSUME NEW w \in Writers, NEW S \in SUBSET Bundles, LoadCatalog(w, S)
      PROVE  cat' = cat /\ seal' = seal /\ receipts' = receipts /\ meta'
  BY <1>2, LoadCatalogFrame
<1>3. ASSUME NEW w \in Writers, ReplaceCatalog(w)
      PROVE  receipts' = receipts /\ meta' = meta
  BY <1>3, ReplaceCatalogFrame
<1>4. ASSUME NEW w \in Writers, SealCatalog(w)
      PROVE  receipts' = receipts /\ meta'
  BY <1>4 DEF SealCatalog, WriterInv, Building
<1>5. ASSUME NEW w \in Writers, WriteReceipt(w)
      PROVE  /\ cat' = cat /\ seal' = seal /\ meta' = meta
             /\ \A r \in receipts' : r \in receipts \/ r.bundles \subseteq LatestBundles
  BY <1>5 DEF WriteReceipt, WriterInv
<1>6. ASSUME NEW w \in Writers, NEW S \in SUBSET Bundles, LoadCatalog(w, S)
      PROVE  LatestBundles' = LatestBundles
  BY <1>2, <1>6, ReadersKeep
<1>7. ASSUME NEW w \in Writers, WriteReceipt(w)
      PROVE  LatestBundles' = LatestBundles
  BY <1>5, <1>7, ReadersKeep
<1>t. TornGens' = {}
  <2>1. cat' = cat => TornGens' = {}
    BY DEF TornGens
  <2>2. QED
    BY <1>2, <1>5, <2>1, QuietSteps, ReplaceStep, SealStep DEF Quiet
<1>8. CASE \E w \in Writers : \E S \in SUBSET Bundles : LoadCatalog(w, S)
  BY <1>2, <1>6, <1>8, <1>t
<1>9. CASE \E w \in Writers : WriteReceipt(w)
  BY <1>5, <1>7, <1>9, <1>t
<1>10. CASE \E w \in Writers : ReplaceCatalog(w)
  BY <1>3, <1>10, ReplaceStep
<1>11. CASE \E w \in Writers : SealCatalog(w)
  BY <1>4, <1>11, <1>t, SealStep
<1>12. QED
  BY <1>1, <1>8, <1>9, <1>10, <1>11, QuietSteps

(* No copy is ever shared. *)
LEMMA UnmixedStep ==
  ASSUME LedgerInv, [Next]_vars
  PROVE  \A v \in Writers : ~mixed'[v]
<1> DEFINE Kept == mixed' = mixed \/ \E w \in Writers : mixed' = [mixed EXCEPT ![w] = FALSE]
<1>0. mixed \in [Writers -> BOOLEAN] /\ \A v \in Writers : ~mixed[v]
  BY DEF LedgerInv, TypeInv, TypeOK
<1>k. Kept => \A v \in Writers : ~mixed'[v]
  BY <1>0
<1> USE DEF locals
<1>1. ASSUME NEW w \in Writers, Acquire(w) PROVE Kept
  BY <1>1 DEF Acquire
<1>2. ASSUME NEW w \in Writers, WriteLockInfo(w) PROVE Kept
  BY <1>2 DEF WriteLockInfo
<1>3. ASSUME NEW w \in Writers, NEW S \in SUBSET Bundles, LoadCatalog(w, S) PROVE Kept
  BY <1>3, LoadCatalogFrame
<1>4. ASSUME NEW w \in Writers, LoadIndex(w) PROVE Kept
  BY <1>4, LoadIndexFrame
<1>5. ASSUME NEW w \in Writers, NEW o \in Objects, AddObject(w, o) PROVE Kept
  BY <1>5, AddObjectFrame
<1>6. ASSUME NEW w \in Writers, PlacePack(w) PROVE Kept
  BY <1>6 DEF PlacePack
<1>7. ASSUME NEW w \in Writers, SealPack(w) PROVE Kept
  BY <1>7 DEF SealPack
<1>8. ASSUME NEW w \in Writers, Stage(w) PROVE Kept
  BY <1>8, StageFrame
<1>9. ASSUME NEW w \in Writers, StageRejected(w) PROVE Kept
  BY <1>9 DEF StageRejected
<1>10. ASSUME NEW w \in Writers, CopyCatalog(w) \/ ReplaceCatalog(w) PROVE Kept
  BY <1>10, CopyCatalogFrame, ReplaceCatalogFrame
<1>11. ASSUME NEW w \in Writers, SealCatalog(w) \/ WriteReceipt(w) PROVE Kept
  BY <1>11 DEF SealCatalog, WriteReceipt
<1>12. ASSUME NEW w \in Writers, Release(w) \/ Crash(w) PROVE Kept
  BY <1>12 DEF Release, Crash, ForgetLocals
<1>13. ASSUME NEW w \in Writers, Fail(w) PROVE Kept
  BY <1>13 DEF Fail
<1>14. ASSUME LockGrowsStale \/ UNCHANGED vars \/ \E r \in Recoverers : Recover(r)
       PROVE  Kept
  BY <1>14 DEF LockGrowsStale, vars, Recover, RecoverRead, RecoverUnlink
<1> HIDE DEF Kept
<1>15. QED
  BY <1>k, <1>1, <1>2, <1>3, <1>4, <1>5, <1>6, <1>7, <1>8, <1>9, <1>10, <1>11, <1>12, <1>13,
     <1>14, CopyIsOwn DEF Next, Work
-----------------------------------------------------------------------------
(* The writers that are not at work are left alone. *)
LEMMA OthersIdle ==
  ASSUME LedgerInv, TypeInv', NEW w \in Writers,
         Acquire(w) \/ Work(w) \/ Fail(w) \/ Crash(w)
  PROVE  \A v \in Writers : v # w => phase'[v] = "idle"
<1>0. phase \in [Writers -> Phases]
  BY DEF LedgerInv, TypeInv, TypeOK
<1>1. CASE Acquire(w)
  BY <1>0, <1>1 DEF Acquire, Goto, LedgerInv, LockInv
<1>2. CASE Inside(w)
  BY <1>2, Sole DEF Inside, LedgerInv
<1>3. CASE Release(w)
  BY <1>0, <1>3, Sole DEF Release, Goto, LedgerInv
<1>4. QED
  BY <1>1, <1>2, <1>3, InsideSteps DEF LedgerInv

LEMMA WriterStep ==
  ASSUME LedgerInv, TypeInv', NEW w \in Writers,
         Acquire(w) \/ Work(w) \/ Fail(w) \/ Crash(w)
  PROVE  WriterInv(w)'
<1>0. /\ phase \in [Writers -> Phases] /\ plan \in [Writers -> SUBSET Bundles]
      /\ base \in [Writers -> {0} \cup Gens] /\ staged \in [Writers -> Artifact]
      /\ partial \in [Gens -> Artifact] /\ WriterInv(w) /\ TornGens = {}
  BY DEF LedgerInv, TypeInv, TypeOK
<1> USE <1>0 DEF Goto, Building, Staging, WriterInv
<1>1. CASE Acquire(w)
  BY <1>1 DEF Acquire
<1>2. CASE WriteLockInfo(w)
  BY <1>2 DEF WriteLockInfo
<1>3. ASSUME NEW S \in SUBSET Bundles, LoadCatalog(w, S) PROVE WriterInv(w)'
  <2>1. LatestGen' = LatestGen /\ LatestBundles' = LatestBundles
    BY <1>3, LoadCatalogFrame, ReadersKeep
  <2>2. Loaded = LatestGen
    BY HighestHolds DEF LedgerInv, Highest, Valid, Loaded
  <2>3. base'[w] = LatestGen /\ meta' /\ phase' = [phase EXCEPT ![w] = "planning"]
    BY <1>0, <1>3, <2>2, LoadCatalogFrame
  <2>4. \A b \in plan'[w], k \in LatestBundles : Identity[k] # Identity[b]
    <3> DEFINE new == {b \in S : \A k \in (IF Loaded = 0 THEN {} ELSE cat[Loaded].bundles) :
                                    Identity[k] # Identity[b]}
    <3>a. plan' = [plan EXCEPT ![w] = new]
      BY <1>0, <1>3, LoadCatalogFrame
    <3>b. plan'[w] = new
      <4> HIDE DEF new
      <4> QED BY <1>0, <3>a
    <3>1. \A b \in plan'[w] : \A k \in (IF Loaded = 0 THEN {} ELSE cat[Loaded].bundles) :
                                 Identity[k] # Identity[b]
      BY <3>b
    <3>2. LatestBundles = IF Loaded = 0 THEN {} ELSE cat[Loaded].bundles
      BY <1>0, <2>2 DEF LatestBundles
    <3>3. QED
      BY <3>1, <3>2
  <2>5. QED
    BY <2>1, <2>3, <2>4
<1>4. CASE LoadIndex(w)
  <2>1. LatestGen' = LatestGen /\ LatestBundles' = LatestBundles
    BY <1>4, LoadIndexFrame, ReadersKeep
  <2>2. phase[w] = "planning" /\ phase'[w] \in {"releasing", "packing"}
    BY <1>4 DEF LoadIndex
  <2>3. QED
    BY <1>4, <2>1, <2>2, LoadIndexFrame
<1>5. ASSUME NEW o \in Objects, AddObject(w, o) PROVE WriterInv(w)'
  <2>1. LatestGen' = LatestGen /\ LatestBundles' = LatestBundles
    BY <1>5, AddObjectFrame, ReadersKeep
  <2>2. QED
    BY <1>5, <2>1, AddObjectFrame
<1>6. CASE PlacePack(w)
  <2>1. LatestGen' = LatestGen /\ LatestBundles' = LatestBundles
    BY <1>6, ReadersKeep DEF PlacePack
  <2>2. QED
    BY <1>6, <2>1 DEF PlacePack, locals
<1>7. CASE SealPack(w)
  <2>1. LatestGen' = LatestGen /\ LatestBundles' = LatestBundles
    BY <1>7, ReadersKeep DEF SealPack
  <2>2. QED
    BY <1>7, <2>1 DEF SealPack
<1>8. CASE Stage(w)
  <2>1. LatestGen' = LatestGen /\ LatestBundles' = LatestBundles
    BY <1>8, StageFrame, ReadersKeep
  <2>2. /\ phase[w] = "packing" /\ phase' = [phase EXCEPT ![w] = "publishing"]
        /\ UniqueIdentities(plan[w]) /\ staged'[w] = StagedCatalog(w)
    BY <1>8 DEF Stage, ReadyToStage, Accepted, UnitsInsertable
  <2>3. StagedCatalog(w) \in Catalog
    BY StagedCatalogType DEF LedgerInv, BaseReadable
  <2>4. StagedCatalog(w).bundles = LatestBundles \cup plan[w]
    BY <2>2 DEF StagedCatalog, BaseCatalog, LatestBundles
  <2>5. UniqueIdentities(plan[w])'
    BY <1>8, <2>2, StageFrame DEF UniqueIdentities
  <2>6. QED
    BY <1>8, <2>1, <2>2, <2>3, <2>4, <2>5, StageFrame
<1>9. CASE StageRejected(w)
  BY <1>9 DEF StageRejected
<1>10. CASE OpenCopy(w) \/ CopyCatalog(w)
  <2>1. LatestGen' = LatestGen /\ LatestBundles' = LatestBundles
    BY <1>10, OpenCopyFrame, CopyCatalogFrame, CopyStep, ReadersKeep
  <2>2. /\ NextGeneration(w)' = NextGeneration(w) /\ UniqueIdentities(plan[w])' = UniqueIdentities(plan[w])
        /\ meta' = meta /\ base' = base /\ plan' = plan /\ staged' = staged
    BY <1>10, OpenCopyFrame, CopyCatalogFrame DEF NextGeneration, UniqueIdentities
  <2>3. CASE OpenCopy(w)
    <3>1. /\ phase[w] = "publishing" /\ phase'[w] = "copying" /\ file'[w] = "partial"
          /\ partial'[NextGeneration(w)] # NoCatalog
      <4>1. file \in [Writers -> {"closed", "partial", "published", "unlinked"}]
        BY DEF LedgerInv, TypeInv, TypeOK
      <4>2. QED
        BY <1>0, <2>3, <4>1, OpenCopyFrame, CopyIsOwn, ConstantsAssumption
    <3>2. QED
      BY <2>1, <2>2, <3>1
  <2>4. CASE CopyCatalog(w)
    <3>1. /\ phase[w] = "copying" /\ phase'[w] = "copied"
          /\ partial'[NextGeneration(w)] = staged[w]
      BY <1>0, <2>4, CopyCatalogFrame, CopyStep
    <3>2. QED
      BY <2>1, <2>2, <3>1
  <2>5. QED
    BY <1>10, <2>3, <2>4
<1>11. CASE ReplaceCatalog(w)
  <2>1. phase[w] = "copied" /\ NextGeneration(w) \in Gens
    BY <1>11, ReplaceCatalogFrame DEF LedgerInv, TypeInv, Publishing
  <2>2. NextGeneration(w)' = NextGeneration(w) /\ UniqueIdentities(plan[w])'
    BY <1>11, <2>1, ReplaceCatalogFrame DEF NextGeneration, UniqueIdentities
  <2>3. cat'[NextGeneration(w)] = staged[w]
    BY <1>11, <2>1, ReplaceStep DEF LedgerInv, TypeInv, TypeOK
  <2>4. LatestGen' = LatestGen /\ LatestBundles' = LatestBundles
    BY <1>11, ReplaceStep
  <2>5. /\ meta' = meta /\ base' = base /\ plan' = plan /\ staged' = staged
        /\ phase'[w] \in {"releasing", "replaced"}
    BY <1>11, ReplaceCatalogFrame
  <2>6. QED
    BY <2>1, <2>2, <2>3, <2>4, <2>5
<1>12. CASE SealCatalog(w)
  BY <1>12, SealStep DEF SealCatalog, locals
<1>13. CASE WriteReceipt(w)
  BY <1>13 DEF WriteReceipt
<1>14. CASE Release(w)
  BY <1>14 DEF Release
<1>15. CASE Fail(w)
  BY <1>15 DEF Fail
<1>16. CASE Crash(w)
  BY <1>16 DEF Crash
<1>17. QED
  BY <1>1, <1>2, <1>3, <1>4, <1>5, <1>6, <1>7, <1>8, <1>9, <1>10, <1>11, <1>12, <1>13, <1>14,
     <1>15, <1>16 DEF Work

LEMMA LedgerInvStep ==
  ASSUME ~LongIngests, \A r, s \in Recoverers : r = s, LedgerInv, [Next]_vars
  PROVE  LedgerInv'
<1>1. TypeInv' /\ LockInv'
  BY TypeInvStep, LockInvStep DEF LedgerInv
<1>2. ASSUME NEW w \in Writers, Acquire(w) \/ Work(w) \/ Fail(w) \/ Crash(w)
      PROVE  \A v \in Writers : WriterInv(v)'
  <2>1. WriterInv(w)'
    BY <1>1, <1>2, WriterStep
  <2>2. ASSUME NEW v \in Writers, v # w PROVE WriterInv(v)'
    <3>1. phase'[v] = "idle"
      BY <1>1, <1>2, <2>2, OthersIdle
    <3>2. QED
      BY <3>1 DEF WriterInv, Building, Staging
  <2>3. QED
    BY <2>1, <2>2
<1>3. ASSUME UNCHANGED <<disk, phase, locals>>
      PROVE  \A v \in Writers : WriterInv(v)'
  <2>1. LatestGen' = LatestGen /\ LatestBundles' = LatestBundles
    BY <1>3, ReadersKeep DEF disk
  <2>2. QED
    BY <1>3, <2>1 DEF disk, locals, LedgerInv, WriterInv, NextGeneration, UniqueIdentities
<1>4. \/ UNCHANGED <<disk, phase, locals>>
      \/ \E w \in Writers : Acquire(w) \/ Work(w) \/ Fail(w) \/ Crash(w)
  BY DEF Next, vars, LockGrowsStale, Recover, RecoverRead, RecoverUnlink
<1>5. \A v \in Writers : WriterInv(v)'
  BY <1>2, <1>3, <1>4
<1>6. QED
  BY <1>1, <1>5, ReadersStep, UnmixedStep DEF LedgerInv
-----------------------------------------------------------------------------
(* A sealed catalog generation is never rewritten, nor its seal, provided  *)
(* no ingestion lasts stale_lock_timeout and at most one process recovers  *)
(* locks (_publish_catalog_generation).                                    *)
THEOREM SealedStayUnchanged ==
  ASSUME ~LongIngests, \A r, s \in Recoverers : r = s
  PROVE  Spec => SealedCatalogsImmutable
<1>1. LedgerInv /\ [Next]_vars => LedgerInv'
  BY LedgerInvStep
<1>2. LedgerInv /\ [Next]_vars =>
        [\A g \in Gens : Valid(g) => cat'[g] = cat[g] /\ seal'[g] = seal[g]]_<<cat, seal>>
  BY ReadersStep
<1>3. QED
  BY <1>1, <1>2, LedgerInvInit, PTL DEF Spec, SealedCatalogsImmutable

(* What an import receipt claims can be read from the latest catalog,      *)
(* however later ingestions fail and are killed.                           *)
THEOREM ReceiptsStayTrue ==
  ASSUME ~LongIngests, \A r, s \in Recoverers : r = s
  PROVE  Spec => []ReceiptsDurable
<1>1. LedgerInv /\ [Next]_vars => LedgerInv'
  BY LedgerInvStep
<1>2. LedgerInv => ReceiptsDurable
  BY DEF LedgerInv
<1>3. QED
  BY <1>1, <1>2, LedgerInvInit, PTL DEF Spec

(* The seal of a catalog is the one step readers see, and it imports the   *)
(* plan of the ingestion as a whole.                                       *)
LEMMA LedgerStep ==
  ASSUME LedgerInv, [Next]_vars
  PROVE  [Ledger!Next]_LatestBundles
<1>1. CASE cat' = cat /\ seal' = seal
  BY <1>1, ReadersKeep
<1>2. ASSUME NEW w \in Writers, ReplaceCatalog(w) PROVE LatestBundles' = LatestBundles
  BY <1>2, ReplaceStep
<1>3. ASSUME NEW w \in Writers, SealCatalog(w) PROVE Ledger!Next
  <2>1. /\ \A b \in plan[w], k \in LatestBundles : Identity[k] # Identity[b]
        /\ UniqueIdentities(plan[w])
    BY <1>3 DEF SealCatalog, LedgerInv, WriterInv, Building, Staging
  <2>2. plan[w] \in SUBSET Bundles
    BY DEF LedgerInv, TypeInv, TypeOK
  <2>3. Ledger!Import(plan[w])
    <3>1. plan[w] \cap LatestBundles = {}
      BY <2>1
    <3>2. \A b \in plan[w], c \in plan[w] \cup LatestBundles : Identity[b] = Identity[c] => b = c
      BY <2>1 DEF UniqueIdentities
    <3>3. QED
      BY <1>3, <3>1, <3>2, SealStep DEF Ledger!Import
  <2>4. QED
    BY <2>2, <2>3 DEF Ledger!Next
<1>4. ASSUME NEW w \in Writers, WriteReceipt(w) \/ \E S \in SUBSET Bundles : LoadCatalog(w, S)
      PROVE  cat' = cat /\ seal' = seal
  BY <1>4, LoadCatalogFrame DEF WriteReceipt
<1>5. QED
  BY <1>1, <1>2, <1>3, <1>4, QuietSteps DEF Quiet

(* The archive units readers see are immutable, one per identity, and grow *)
(* by whole ingestions: the vault implements VaultLedger.                  *)
THEOREM VaultImplementsLedger ==
  ASSUME ~LongIngests, \A r, s \in Recoverers : r = s
  PROVE  Spec => LedgerSpec
<1>1. Init => Ledger!Init
  <2> SUFFICES ASSUME Init PROVE Ledger!Init
    OBVIOUS
  <2>1. \A g \in Gens : ~Valid(g)
    BY DEF Init, Valid
  <2>2. LatestGen = 0
    BY <2>1 DEF LatestGen
  <2>3. QED
    BY <2>2 DEF Ledger!Init, LatestBundles
<1>2. LedgerInv /\ [Next]_vars => LedgerInv'
  BY LedgerInvStep
<1>3. LedgerInv /\ [Next]_vars => [Ledger!Next]_LatestBundles
  BY LedgerStep
<1>4. QED
  BY <1>1, <1>2, <1>3, LedgerInvInit, PTL DEF Spec, LedgerSpec, Ledger!Spec
-----------------------------------------------------------------------------
(* The objects of the pack a writer has open. *)
Open(w) == IF cur[w] = NoPack THEN {} ELSE packHolds[cur[w]]

(* What a writer has still to write is in no sealed pack, nor is what it   *)
(* has written so far; each object of its plan is either still to be       *)
(* written or located; and a location the base catalog does not know is a  *)
(* pack of which the writer keeps the seal, or the one it is writing.      *)
PackingInv(w) ==
  /\ phase[w] \in {"idle", "locking", "loading", "planning"} => cur[w] = NoPack
  /\ phase[w] = "planning" => where[w] = BaseCatalog(w).where
  /\ phase[w] \in {"packing", "sealing"} =>
       /\ \A p \in SealedPacks : packHolds[p] \cap (todo[w] \cup Open(w)) = {}
       /\ todo[w] \cap Open(w) = {}
       /\ \A o \in FilesOf(plan[w]) : o \in todo[w] \/ where[w][o] # NoPack
       /\ \A o \in Objects : where[w][o] # NoPack =>
            \/ BaseCatalog(w).where[o] # NoPack
            \/ where[w][o] \in seals[w] \cup {cur[w]} /\ o \in packHolds[where[w][o]]

(* Sealed packs stay disjoint because of what the writer at work may still *)
(* put into its open pack; a pack id not drawn yet names no file.          *)
StoreInv ==
  /\ LedgerInv /\ ClosedInv /\ ObjectsStoredOnce
  /\ \A p \in PackIds : packStage[p] = "absent" => packHolds[p] = {}
  /\ \A w \in Writers : PackingInv(w)

LEMMA StoreInvInit == Init => StoreInv
<1> SUFFICES ASSUME Init PROVE StoreInv
  OBVIOUS
<1>1. LedgerInv /\ ClosedInv
  BY LedgerInvInit, ClosedInvInit
<1>2. ObjectsStoredOnce /\ \A p \in PackIds : packHolds[p] = {}
  BY DEF Init, ObjectsStoredOnce, SealedPacks
<1>3. \A w \in Writers : PackingInv(w)
  BY DEF Init, PackingInv
<1>4. QED
  BY <1>1, <1>2, <1>3 DEF StoreInv

(* The catalog a writer started from stays what it is while it works. *)
LEMMA BaseKept ==
  ASSUME LedgerInv, [Next]_vars, NEW w \in Writers,
         phase[w] \in Building, base' = base
  PROVE  BaseCatalog(w)' = BaseCatalog(w)
<1>1. base[w] \in {0} \cup Gens /\ (base[w] # 0 => Valid(base[w]))
  BY HighestHolds DEF LedgerInv, WriterInv, Highest
<1>2. base[w] # 0 => cat'[base[w]] = cat[base[w]]
  BY <1>1, ReadersStep
<1>3. QED
  BY <1>2 DEF BaseCatalog

(* The base catalog of an ingestion that has just started. *)
LEMMA LoadedWhere ==
  ASSUME LedgerInv, NEW w \in Writers, NEW S \in SUBSET Bundles, LoadCatalog(w, S)
  PROVE  PackingInv(w)' <=> (cur[w] = NoPack)
<1>1. /\ base \in [Writers -> {0} \cup Gens] /\ phase \in [Writers -> Phases]
      /\ where \in [Writers -> [Objects -> PackIds \cup {NoPack}]]
  BY DEF LedgerInv, TypeInv, TypeOK
<1>2. /\ base' = [base EXCEPT ![w] = Loaded]
      /\ where' = [where EXCEPT ![w] = IF Loaded = 0 THEN Nowhere ELSE cat[Loaded].where]
      /\ phase' = [phase EXCEPT ![w] = "planning"]
      /\ cat' = cat /\ cur' = cur
  BY LoadCatalogFrame DEF LedgerInv
<1>3. BaseCatalog(w)'.where = where'[w]
  BY <1>1, <1>2 DEF BaseCatalog, Nowhere
<1>4. QED
  BY <1>1, <1>2, <1>3 DEF PackingInv

(* Planning leaves out of what is to be written whatever a sealed pack     *)
(* holds or the catalog locates.                                           *)
LEMMA PlannedWhere ==
  ASSUME StoreInv, [Next]_vars, NEW w \in Writers, LoadIndex(w)
  PROVE  PackingInv(w)'
<1>1. /\ phase \in [Writers -> Phases] /\ plan \in [Writers -> SUBSET Bundles]
      /\ where \in [Writers -> [Objects -> PackIds \cup {NoPack}]]
      /\ seals \in [Writers -> SUBSET PackIds] /\ todo \in [Writers -> SUBSET Objects]
  BY DEF StoreInv, LedgerInv, TypeInv, TypeOK
<1>2. /\ phase[w] = "planning" /\ cur[w] = NoPack /\ where[w] = BaseCatalog(w).where
  BY DEF LoadIndex, StoreInv, PackingInv
<1>3. CASE plan[w] = {}
  BY <1>1, <1>3 DEF LoadIndex, Goto, PackingInv
<1>4. CASE plan[w] # {}
  <2>1. /\ where' = [where EXCEPT ![w] = Reusable(w)]
        /\ seals' = [seals EXCEPT ![w] = SealedPacks]
        /\ todo' = [todo EXCEPT ![w] =
                      {o \in FilesOf(plan[w]) : Reusable(w)[o] = NoPack}]
        /\ phase' = [phase EXCEPT ![w] = "packing"]
    BY <1>4, Zenon DEF LoadIndex, Goto
  <2>2. /\ packStage' = packStage /\ packHolds' = packHolds /\ plan' = plan
        /\ cur' = cur /\ base' = base
    BY LoadIndexFrame
  <2>3. BaseCatalog(w)' = BaseCatalog(w)
    BY <1>2, <2>2, BaseKept DEF StoreInv, Building
  <2>4. FilesOf(plan[w]) \subseteq Objects /\ FilesOf(plan'[w]) = FilesOf(plan[w])
    BY <1>1, <2>2, ConstantsAssumption DEF FilesOf
  <2>5. \A o \in Objects :
          \/ where[w][o] # NoPack /\ Reusable(w)[o] = where[w][o]
          \/ Reusable(w)[o] \in SealedPacks /\ o \in packHolds[Reusable(w)[o]]
          \/ Reusable(w)[o] = NoPack /\ \A p \in SealedPacks : o \notin packHolds[p]
    BY DEF Reusable
  <2>6. SealedPacks' = SealedPacks /\ Open(w)' = {}
    BY <1>2, <2>2 DEF SealedPacks, Open
  <2>7. /\ where'[w] = Reusable(w) /\ seals'[w] = SealedPacks /\ phase'[w] = "packing"
        /\ todo'[w] = {o \in FilesOf(plan[w]) : Reusable(w)[o] = NoPack}
    BY <1>1, <2>1
  <2>8. \A p \in SealedPacks : packHolds[p] \cap todo'[w] = {}
    <3> SUFFICES ASSUME NEW p \in SealedPacks, NEW o \in packHolds[p], o \in todo'[w]
                 PROVE  FALSE
      OBVIOUS
    <3>1. o \in Objects /\ Reusable(w)[o] = NoPack
      BY <2>4, <2>7
    <3>2. NoPack \notin SealedPacks
      BY DEF SealedPacks, PackIds, NoPack
    <3>3. QED
      BY <2>5, <3>1, <3>2
  <2>9. \A o \in Objects : Reusable(w)[o] # NoPack =>
            \/ BaseCatalog(w).where[o] # NoPack
            \/ Reusable(w)[o] \in SealedPacks /\ o \in packHolds[Reusable(w)[o]]
    BY <1>2, <2>5
  <2>10. QED
    BY <2>2, <2>3, <2>4, <2>6, <2>7, <2>8, <2>9 DEF PackingInv
<1>5. QED
  BY <1>3, <1>4

(* Writing an object moves it from what is to be written to the open pack. *)
LEMMA AddedWhere ==
  ASSUME StoreInv, [Next]_vars, NEW w \in Writers, NEW o \in Objects, AddObject(w, o)
  PROVE  /\ PackingInv(w)'
         /\ SealedPacks' = SealedPacks
         /\ \A p \in PackIds : packStage'[p] = "absent" => packHolds'[p] = {}
<1>1. /\ phase \in [Writers -> Phases] /\ cur \in [Writers -> PackIds \cup {NoPack}]
      /\ where \in [Writers -> [Objects -> PackIds \cup {NoPack}]]
      /\ packStage \in [PackIds -> {"absent", "incomplete", "placed", "sealed"}]
      /\ packHolds \in [PackIds -> SUBSET Objects] /\ todo \in [Writers -> SUBSET Objects]
  BY DEF StoreInv, LedgerInv, TypeInv, TypeOK
<1>2. PICK p \in PackIds :
        /\ \/ cur[w] = NoPack /\ packStage[p] = "absent"
           \/ p = cur[w]
        /\ packStage' = [packStage EXCEPT ![p] = "incomplete"]
        /\ packHolds' = [packHolds EXCEPT ![p] = @ \cup {o}]
        /\ cur' = [cur EXCEPT ![w] = p]
        /\ where' = [where EXCEPT ![w][o] = p]
  BY DEF AddObject
<1>3. /\ phase[w] = "packing" /\ o \in todo[w] /\ phase' = phase /\ plan' = plan
      /\ seals' = seals /\ base' = base
      /\ todo' = [todo EXCEPT ![w] = @ \ {o}]
  BY DEF AddObject
<1>4. BaseCatalog(w)' = BaseCatalog(w)
  BY <1>3, BaseKept DEF StoreInv, Building
<1>5. packStage[p] # "sealed" /\ packHolds[p] = Open(w)
  <2>1. CASE cur[w] = NoPack /\ packStage[p] = "absent"
    BY <2>1 DEF StoreInv, Open
  <2>2. CASE p = cur[w]
    <3>1. cur[w] # NoPack
      BY <2>2 DEF PackIds, NoPack
    <3>2. QED
      BY <2>2, <3>1 DEF StoreInv, ClosedInv, Open
  <2>3. QED
    BY <1>2, <2>1, <2>2
<1>6. SealedPacks' = SealedPacks
  BY <1>1, <1>2, <1>5 DEF SealedPacks
<1>7. /\ Open(w)' = Open(w) \cup {o} /\ p # NoPack
      /\ \A q \in SealedPacks : packHolds'[q] = packHolds[q]
      /\ \A q \in PackIds : packHolds[q] \subseteq packHolds'[q]
      /\ cur'[w] = p /\ packHolds'[p] = Open(w) \cup {o}
      /\ todo'[w] = todo[w] \ {o}
      /\ where'[w][o] = p /\ \A x \in Objects \ {o} : where'[w][x] = where[w][x]
  BY <1>1, <1>2, <1>3, <1>5 DEF Open, SealedPacks, PackIds, NoPack
<1>8. /\ \A q \in SealedPacks : packHolds[q] \cap (todo[w] \cup Open(w)) = {}
      /\ todo[w] \cap Open(w) = {}
      /\ \A x \in FilesOf(plan[w]) : x \in todo[w] \/ where[w][x] # NoPack
      /\ \A x \in Objects : where[w][x] # NoPack =>
            \/ BaseCatalog(w).where[x] # NoPack
            \/ where[w][x] \in seals[w] \cup {cur[w]} /\ x \in packHolds[where[w][x]]
  BY <1>3 DEF StoreInv, PackingInv
<1>9. \A x \in FilesOf(plan[w]) : x \in Objects
  BY ConstantsAssumption DEF FilesOf, StoreInv, LedgerInv, TypeInv, TypeOK
<1>10. \A q \in SealedPacks : packHolds'[q] \cap (todo'[w] \cup Open(w)') = {}
  BY <1>3, <1>7, <1>8
<1>11. todo'[w] \cap Open(w)' = {}
  BY <1>7, <1>8
<1>12. \A x \in FilesOf(plan[w]) : x \in todo'[w] \/ where'[w][x] # NoPack
  BY <1>7, <1>8, <1>9
<1>13. \A x \in Objects : where'[w][x] # NoPack =>
            \/ BaseCatalog(w).where[x] # NoPack
            \/ where'[w][x] \in seals'[w] \cup {cur'[w]} /\ x \in packHolds'[where'[w][x]]
  <2> SUFFICES ASSUME NEW x \in Objects, where'[w][x] # NoPack,
                      BaseCatalog(w).where[x] = NoPack
               PROVE  where'[w][x] \in seals'[w] \cup {cur'[w]} /\ x \in packHolds'[where'[w][x]]
    OBVIOUS
  <2>1. CASE x = o
    BY <1>7, <2>1
  <2>2. CASE x # o
    <3>1. where'[w][x] = where[w][x] /\ where[w][x] \in PackIds
      BY <1>1, <1>7, <2>2
    <3>2. where[w][x] \in seals[w] \cup {cur[w]} /\ x \in packHolds[where[w][x]]
      BY <1>8, <3>1
    <3>3. where[w][x] = cur[w] => cur[w] = p
      BY <1>2, <3>1
    <3>4. QED
      BY <1>3, <1>7, <3>1, <3>2, <3>3
  <2>3. QED
    BY <2>1, <2>2
<1>14. PackingInv(w)'
  <2>1. FilesOf(plan[w])' = FilesOf(plan[w])
    BY <1>3 DEF FilesOf
  <2>2. QED
    BY <1>3, <1>4, <1>6, <1>10, <1>11, <1>12, <1>13, <2>1 DEF PackingInv
<1>15. \A q \in PackIds : packStage'[q] = "absent" => packHolds'[q] = {}
  BY <1>1, <1>2 DEF StoreInv
<1>16. QED
  BY <1>6, <1>14, <1>15

(* Sealing adds the open pack to the sealed ones, with which it has no     *)
(* object in common, nor with what is still to be written.                 *)
LEMMA SealedWhere ==
  ASSUME StoreInv, [Next]_vars, NEW w \in Writers, SealPack(w)
  PROVE  /\ PackingInv(w)' /\ ObjectsStoredOnce'
         /\ \A p \in PackIds : packStage'[p] = "absent" => packHolds'[p] = {}
<1>1. /\ phase \in [Writers -> Phases] /\ cur \in [Writers -> PackIds \cup {NoPack}]
      /\ seals \in [Writers -> SUBSET PackIds]
      /\ where \in [Writers -> [Objects -> PackIds \cup {NoPack}]]
      /\ packStage \in [PackIds -> {"absent", "incomplete", "placed", "sealed"}]
  BY DEF StoreInv, LedgerInv, TypeInv, TypeOK
<1>2. /\ phase[w] = "sealing" /\ cur[w] \in PackIds
      /\ packStage' = [packStage EXCEPT ![cur[w]] = "sealed"]
      /\ seals' = [seals EXCEPT ![w] = @ \cup {cur[w]}]
      /\ cur' = [cur EXCEPT ![w] = NoPack]
      /\ phase' = [phase EXCEPT ![w] = "packing"]
      /\ packHolds' = packHolds /\ plan' = plan /\ where' = where /\ todo' = todo
      /\ base' = base
  BY DEF SealPack, Goto, StoreInv, LedgerInv, TypeInv
<1>3. BaseCatalog(w)' = BaseCatalog(w) /\ FilesOf(plan[w])' = FilesOf(plan[w])
  BY <1>2, BaseKept DEF StoreInv, Building, FilesOf
<1>4. SealedPacks' = SealedPacks \cup {cur[w]} /\ Open(w) = packHolds[cur[w]] /\ Open(w)' = {}
  BY <1>1, <1>2 DEF SealedPacks, Open, PackIds, NoPack
<1>5. /\ \A q \in SealedPacks : packHolds[q] \cap (todo[w] \cup Open(w)) = {}
      /\ todo[w] \cap Open(w) = {}
      /\ \A x \in FilesOf(plan[w]) : x \in todo[w] \/ where[w][x] # NoPack
      /\ \A x \in Objects : where[w][x] # NoPack =>
            \/ BaseCatalog(w).where[x] # NoPack
            \/ where[w][x] \in seals[w] \cup {cur[w]} /\ x \in packHolds[where[w][x]]
  BY <1>2 DEF StoreInv, PackingInv
<1>6. \A q \in SealedPacks' : packHolds'[q] \cap (todo'[w] \cup Open(w)') = {}
  BY <1>2, <1>4, <1>5
<1>7. \A x \in Objects : where'[w][x] # NoPack =>
            \/ BaseCatalog(w).where[x] # NoPack
            \/ where'[w][x] \in seals'[w] \cup {cur'[w]} /\ x \in packHolds'[where'[w][x]]
  BY <1>1, <1>2, <1>5
<1>8. PackingInv(w)'
  BY <1>1, <1>2, <1>3, <1>4, <1>5, <1>6, <1>7 DEF PackingInv
<1>9. ObjectsStoredOnce'
  BY <1>2, <1>4, <1>5 DEF ObjectsStoredOnce, StoreInv
<1>10. \A p \in PackIds : packStage'[p] = "absent" => packHolds'[p] = {}
  BY <1>1, <1>2 DEF StoreInv
<1>11. QED
  BY <1>8, <1>9, <1>10

(* Nothing but AddObject and SealPack puts an object into a pack or a pack *)
(* among the sealed ones.                                                  *)
LEMMA DisjointStep ==
  ASSUME StoreInv, [Next]_vars
  PROVE  /\ ObjectsStoredOnce'
         /\ \A p \in PackIds : packStage'[p] = "absent" => packHolds'[p] = {}
<1> DEFINE Goal == /\ ObjectsStoredOnce'
                   /\ \A p \in PackIds : packStage'[p] = "absent" => packHolds'[p] = {}
<1>0. \A p \in SealedPacks : packHolds'[p] = packHolds[p]
  BY SealedPacksStable DEF StoreInv, LedgerInv
<1>1. ASSUME NEW w \in Writers, NEW o \in Objects, AddObject(w, o) PROVE Goal
  BY <1>0, <1>1, AddedWhere DEF ObjectsStoredOnce, StoreInv
<1>2. ASSUME NEW w \in Writers, PlacePack(w) PROVE Goal
  <2>1. /\ packStage' = [packStage EXCEPT ![cur[w]] = "placed"] /\ packHolds' = packHolds
        /\ packStage \in [PackIds -> {"absent", "incomplete", "placed", "sealed"}]
    BY <1>2 DEF PlacePack, StoreInv, LedgerInv, TypeInv, TypeOK
  <2>2. SealedPacks' \subseteq SealedPacks
    BY <2>1 DEF SealedPacks
  <2>3. QED
    BY <2>1, <2>2 DEF ObjectsStoredOnce, StoreInv
<1>3. ASSUME NEW w \in Writers, SealPack(w) PROVE Goal
  BY <1>3, SealedWhere
<1>4. CASE PacksUntouched
  BY <1>4 DEF PacksUntouched, ObjectsStoredOnce, SealedPacks, StoreInv
<1>5. QED
  BY <1>1, <1>2, <1>3, <1>4, PackSteps DEF StoreInv, LedgerInv

LEMMA PackingStep ==
  ASSUME StoreInv, TypeInv', [Next]_vars, NEW w \in Writers,
         Acquire(w) \/ Work(w) \/ Fail(w) \/ Crash(w)
  PROVE  PackingInv(w)'
<1>0. /\ phase \in [Writers -> Phases] /\ cur \in [Writers -> PackIds \cup {NoPack}]
      /\ packStage \in [PackIds -> {"absent", "incomplete", "placed", "sealed"}]
      /\ PackingInv(w)
  BY DEF StoreInv, LedgerInv, TypeInv, TypeOK
<1> DEFINE Over == /\ phase'[w] \notin {"planning", "packing", "sealing"}
                   /\ phase'[w] \in {"idle", "locking", "loading"} => cur'[w] = NoPack
<1>o. Over => PackingInv(w)'
  BY DEF PackingInv
<1> USE <1>0 DEF Goto, disk, locals
<1> HIDE DEF PackingInv
<1>1. CASE Acquire(w)
  BY <1>o, <1>1 DEF Acquire, PackingInv
<1>2. CASE WriteLockInfo(w)
  BY <1>o, <1>2 DEF WriteLockInfo, PackingInv
<1>3. ASSUME NEW S \in SUBSET Bundles, LoadCatalog(w, S) PROVE PackingInv(w)'
  <2>1. cur[w] = NoPack
    BY <1>3, LoadCatalogFrame DEF PackingInv
  <2>2. QED
    BY <1>3, <2>1, LoadedWhere DEF StoreInv
<1>4. CASE LoadIndex(w)
  BY <1>4, PlannedWhere
<1>5. ASSUME NEW o \in Objects, AddObject(w, o) PROVE PackingInv(w)'
  BY <1>5, AddedWhere
<1>6. CASE PlacePack(w)
  <2>1. /\ phase[w] = "packing" /\ phase' = [phase EXCEPT ![w] = "sealing"]
        /\ packStage' = [packStage EXCEPT ![cur[w]] = "placed"]
        /\ packHolds' = packHolds /\ plan' = plan /\ where' = where /\ todo' = todo
        /\ base' = base /\ cur' = cur /\ seals' = seals
    BY <1>6 DEF PlacePack
  <2>2. BaseCatalog(w)' = BaseCatalog(w) /\ FilesOf(plan[w])' = FilesOf(plan[w])
    BY <2>1, BaseKept DEF StoreInv, Building, FilesOf
  <2>3. SealedPacks' \subseteq SealedPacks /\ Open(w)' = Open(w)
    BY <2>1 DEF SealedPacks, Open
  <2>4. QED
    BY <2>1, <2>2, <2>3 DEF PackingInv
<1>7. CASE SealPack(w)
  BY <1>7, SealedWhere
<1>8. CASE Stage(w)
  BY <1>o, <1>8 DEF Stage
<1>9. CASE StageRejected(w)
  BY <1>o, <1>9 DEF StageRejected
<1>10. CASE OpenCopy(w) \/ CopyCatalog(w)
  BY <1>o, <1>10, OpenCopyFrame, CopyCatalogFrame
<1>11. CASE ReplaceCatalog(w)
  BY <1>o, <1>11, ReplaceCatalogFrame
<1>12. CASE SealCatalog(w)
  BY <1>o, <1>12 DEF SealCatalog
<1>13. CASE WriteReceipt(w)
  BY <1>o, <1>13 DEF WriteReceipt
<1>14. CASE Release(w)
  BY <1>o, <1>14 DEF Release, ForgetLocals
<1>15. CASE Fail(w)
  BY <1>o, <1>15 DEF Fail
<1>16. CASE Crash(w)
  BY <1>o, <1>16 DEF Crash, ForgetLocals
<1>17. QED
  BY <1>1, <1>2, <1>3, <1>4, <1>5, <1>6, <1>7, <1>8, <1>9, <1>10, <1>11, <1>12, <1>13, <1>14,
     <1>15, <1>16 DEF Work

(* No step of a writer moves another one. *)
LEMMA OtherPhases ==
  ASSUME TypeInv, NEW w \in Writers, Acquire(w) \/ Work(w) \/ Fail(w) \/ Crash(w)
  PROVE  \A v \in Writers : v # w => phase'[v] = phase[v] /\ cur'[v] \in {cur[v], NoPack}
<1>0. phase \in [Writers -> Phases] /\ cur \in [Writers -> PackIds \cup {NoPack}]
  BY DEF TypeInv, TypeOK
<1> DEFINE Others == \A v \in Writers : v # w => phase'[v] = phase[v] /\ cur'[v] \in {cur[v], NoPack}
<1> USE <1>0 DEF Goto, locals, ForgetLocals
<1>1. CASE Acquire(w)
  BY <1>1 DEF Acquire
<1>2. CASE WriteLockInfo(w)
  BY <1>2 DEF WriteLockInfo
<1>3. ASSUME NEW S \in SUBSET Bundles, LoadCatalog(w, S) PROVE Others
  BY <1>3, LoadCatalogFrame
<1>4. CASE LoadIndex(w)
  BY <1>4 DEF LoadIndex
<1>5. ASSUME NEW o \in Objects, AddObject(w, o) PROVE Others
  BY <1>5 DEF AddObject
<1>6. CASE PlacePack(w)
  BY <1>6 DEF PlacePack
<1>7. CASE SealPack(w)
  BY <1>7 DEF SealPack
<1>8. CASE Stage(w)
  BY <1>8 DEF Stage
<1>9. CASE StageRejected(w)
  BY <1>9 DEF StageRejected
<1>10. CASE OpenCopy(w) \/ CopyCatalog(w)
  BY <1>10, OpenCopyFrame, CopyCatalogFrame
<1>11. CASE ReplaceCatalog(w)
  BY <1>11, ReplaceCatalogFrame
<1>12. CASE SealCatalog(w)
  BY <1>12 DEF SealCatalog
<1>13. CASE WriteReceipt(w)
  BY <1>13 DEF WriteReceipt
<1>14. CASE Release(w)
  BY <1>14 DEF Release
<1>15. CASE Fail(w)
  BY <1>15 DEF Fail
<1>16. CASE Crash(w)
  BY <1>16 DEF Crash
<1>17. QED
  BY <1>1, <1>2, <1>3, <1>4, <1>5, <1>6, <1>7, <1>8, <1>9, <1>10, <1>11, <1>12, <1>13, <1>14,
     <1>15, <1>16 DEF Work

LEMMA StoreInvStep ==
  ASSUME ~LongIngests, \A r, s \in Recoverers : r = s, StoreInv, [Next]_vars
  PROVE  StoreInv'
<1>1. LedgerInv' /\ TypeInv' /\ ClosedInv'
  BY LedgerInvStep, ClosedInvStep DEF StoreInv, LedgerInv
<1>2. ASSUME NEW w \in Writers, Acquire(w) \/ Work(w) \/ Fail(w) \/ Crash(w)
      PROVE  \A v \in Writers : PackingInv(v)'
  <2>1. PackingInv(w)'
    BY <1>1, <1>2, PackingStep
  <2>2. ASSUME NEW v \in Writers, v # w PROVE PackingInv(v)'
    <3>1. phase'[v] = "idle"
      BY <1>1, <1>2, <2>2, OthersIdle DEF StoreInv
    <3>2. cur'[v] = NoPack
      <4>1. phase[v] = "idle"
        BY <1>2, <2>2, <3>1, OtherPhases DEF StoreInv, LedgerInv
      <4>2. cur[v] = NoPack
        BY <4>1 DEF StoreInv, PackingInv
      <4>3. cur'[v] \in {cur[v], NoPack}
        BY <1>2, <2>2, OtherPhases DEF StoreInv, LedgerInv
      <4>4. QED
        BY <4>2, <4>3
    <3>3. QED
      BY <3>1, <3>2 DEF PackingInv
  <2>3. QED
    BY <2>1, <2>2
<1>3. ASSUME UNCHANGED <<disk, phase, locals>>
      PROVE  \A v \in Writers : PackingInv(v)'
  <2>1. ASSUME NEW v \in Writers
        PROVE  /\ SealedPacks' = SealedPacks /\ Open(v)' = Open(v)
               /\ BaseCatalog(v)' = BaseCatalog(v) /\ FilesOf(plan[v])' = FilesOf(plan[v])
    BY <1>3 DEF disk, locals, SealedPacks, Open, BaseCatalog, FilesOf
  <2>2. QED
    BY <1>3, <2>1 DEF StoreInv, PackingInv, disk, locals
<1>4. \/ UNCHANGED <<disk, phase, locals>>
      \/ \E w \in Writers : Acquire(w) \/ Work(w) \/ Fail(w) \/ Crash(w)
  BY DEF Next, vars, LockGrowsStale, Recover, RecoverRead, RecoverUnlink
<1>5. QED
  BY <1>1, <1>2, <1>3, <1>4, DisjointStep DEF StoreInv

(* An object is written once: sealed packs are disjoint over all runs and  *)
(* the packs that failed runs left behind, provided no ingestion lasts     *)
(* stale_lock_timeout and at most one process recovers locks (ingest,      *)
(* load_pack_index, PackWriter).                                           *)
THEOREM EachObjectStoredOnce ==
  ASSUME ~LongIngests, \A r, s \in Recoverers : r = s
  PROVE  Spec => []ObjectsStoredOnce
<1>1. StoreInv /\ [Next]_vars => StoreInv'
  BY StoreInvStep
<1>2. StoreInv => ObjectsStoredOnce
  BY DEF StoreInv
<1>3. QED
  BY <1>1, <1>2, StoreInvInit, PTL DEF Spec

(* Every published catalog is whole and refers to nothing but sealed packs *)
(* that hold each file of each unit, however ingestions fail and are       *)
(* killed, provided none lasts stale_lock_timeout and at most one process  *)
(* recovers locks (_publish_catalog_generation, ingest).                   *)
THEOREM CatalogsAlwaysClosed ==
  ASSUME ~LongIngests, \A r, s \in Recoverers : r = s
  PROVE  Spec => []CatalogsClosed
<1>1. StoreInv /\ [Next]_vars => StoreInv'
  BY StoreInvStep
<1>2. StoreInv => CatalogsClosed
  <2> SUFFICES ASSUME StoreInv, NEW g \in Gens, cat[g] # NoCatalog
               PROVE  g \notin TornGens /\ Closed(cat[g], packStage, packHolds)
    BY DEF CatalogsClosed
  <2>1. g \notin TornGens /\ cat[g] \in Artifact
    BY DEF StoreInv, LedgerInv, TypeInv, TypeOK
  <2>2. cat[g] \in Catalog /\ cat[g] \in Artifacts
    BY <2>1 DEF TornGens, Artifact, Artifacts
  <2>3. QED
    BY <2>1, <2>2 DEF StoreInv, ClosedInv
<1>3. QED
  BY <1>1, <1>2, StoreInvInit, PTL DEF Spec

(* Every object of a plan ends up located: in the base catalog, or in a    *)
(* pack that Stage records because the writer kept its seal.               *)
LEMMA AcceptedWhenReady ==
  ASSUME StoreInv, NEW w \in Writers, ReadyToStage(w), UniqueIdentities(plan[w])
  PROVE  Accepted(w)
<1>1. /\ phase[w] = "packing" /\ todo[w] = {} /\ cur[w] = NoPack
      /\ PackingInv(w) /\ WriterInv(w)
      /\ seals[w] \subseteq PackIds /\ plan[w] \subseteq Bundles
  BY DEF ReadyToStage, StoreInv, LedgerInv, TypeInv, TypeOK
<1>2. BaseCatalog(w).bundles = LatestBundles
  BY <1>1 DEF WriterInv, Building, BaseCatalog, LatestBundles, StoreInv, LedgerInv
<1>3. UnitsInsertable(w)
  BY <1>1, <1>2 DEF UnitsInsertable, WriterInv, Building
<1>4. ASSUME NEW o \in FilesOf(plan[w]) PROVE StagedCatalog(w).where[o] # NoPack
  <2>1. o \in Objects
    BY <1>1, ConstantsAssumption DEF FilesOf
  <2>2. \/ BaseCatalog(w).where[o] # NoPack
        \/ where[w][o] \in Recorded(w) /\ o \in packHolds[where[w][o]]
    BY <1>1, <2>1 DEF PackingInv, Recorded
  <2>3. NoPack \notin Recorded(w)
    BY <1>1 DEF Recorded, PackIds, NoPack
  <2>4. QED
    BY <2>1, <2>2, <2>3 DEF StagedCatalog
<1>5. BaseReadable(w)
  BY DEF BaseReadable, StoreInv, LedgerInv
<1>6. QED
  BY <1>3, <1>4, <1>5 DEF Accepted, ObjectsKnown

(* The database accepts every plan that does not itself hold two bundles   *)
(* of one identity: what planning deduplicated against is what staging     *)
(* records (plan, prepare_staged_database, record_pack_seal).              *)
THEOREM PlansAlwaysAccepted ==
  ASSUME ~LongIngests, \A r, s \in Recoverers : r = s
  PROVE  Spec => []PlansAccepted
<1>1. StoreInv /\ [Next]_vars => StoreInv'
  BY StoreInvStep
<1>2. StoreInv => PlansAccepted
  BY AcceptedWhenReady DEF PlansAccepted
<1>3. QED
  BY <1>1, <1>2, StoreInvInit, PTL DEF Spec
=============================================================================
