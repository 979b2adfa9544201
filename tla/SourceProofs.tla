---------------------------- MODULE SourceProofs ----------------------------
(***************************************************************************)
(* Proofs about the parts of MCArchives: what happens to a source from its *)
(* export to its restoration, for every export, every set of files and     *)
(* every number of errors and kills.                                       *)
(***************************************************************************)
EXTENDS MCArchives, SequenceTheorems, TLAPS

(* Restorations of the same directory that do not overlap: at most one     *)
(* process runs; it alone has the temporary open, and renames it only      *)
(* after its verification; the files it has passed are whole.  A receipt   *)
(* stays true until the next restoration begins.                           *)
RestoreTypes ==
  /\ at \in [Restorers -> Nat]
  /\ stage \in [Restorers -> {"off", "check", "open", "extract", "replace"}]
  /\ handle = [r \in Restorers |-> IF stage[r] = "extract" THEN "temp" ELSE "closed"]
  /\ target \in [Restore!FileIds -> Restore!Held] /\ temp \in [Restore!FileIds -> Restore!Held]
  /\ receipts \in BOOLEAN

OneRestorer == \A r, q \in Restorers : stage[r] # "off" /\ stage[q] # "off" => r = q

WholeSoFar ==
  \A r \in Restorers : stage[r] # "off" =>
    /\ ~receipts
    /\ at[r] > 0
    /\ stage[r] # "check" => at[r] \in Restore!FileIds
    /\ \A f \in Restore!FileIds : f < at[r] => target[f] = "whole"
    /\ stage[r] = "replace" => temp[at[r]] = "whole"

RestoreInv ==
  /\ RestoreTypes /\ OneRestorer /\ WholeSoFar
  /\ Restore!NamesHoldWhole /\ Restore!ReceiptMeansRestored

LEMMA RestoreInit == MCInit => RestoreInv
  <1> SUFFICES ASSUME Restore!Init PROVE RestoreInv
    BY DEF MCInit
  <1> USE DEF Restore!Init
  <1>1. RestoreTypes
    BY DEF RestoreTypes, Restore!FileIds, Restore!Held
  <1>2. OneRestorer /\ WholeSoFar
    BY DEF OneRestorer, WholeSoFar
  <1>3. Restore!NamesHoldWhole /\ Restore!ReceiptMeansRestored
    BY DEF Restore!NamesHoldWhole, Restore!ReceiptMeansRestored
  <1> QED BY <1>1, <1>2, <1>3 DEF RestoreInv

LEMMA RestoreStep == RestoreInv /\ [MCNext]_all => RestoreInv'
  <1> SUFFICES ASSUME RestoreInv, [MCNext]_all PROVE RestoreInv'
    OBVIOUS
  <1> USE RestoreAssumption
      DEF RestoreInv, RestoreTypes, OneRestorer, WholeSoFar,
          Restore!NamesHoldWhole, Restore!ReceiptMeansRestored, Restore!To, Restore!FileIds
  <1>1. CASE UNCHANGED restoreVars
    BY <1>1 DEF restoreVars
  <1>2. ASSUME NEW r \in Restorers, Restore!Begin(r) PROVE RestoreInv'
    <2>1. \A q \in Restorers : stage[q] = "off"
      BY <1>2 DEF Restore!Begin, Restore!Running
    <2>2. /\ stage' = [stage EXCEPT ![r] = "check"] /\ at' = [at EXCEPT ![r] = 1]
          /\ receipts' = FALSE
          /\ UNCHANGED <<target, temp, handle, original>>
      BY <1>2 DEF Restore!Begin
    <2>3. RestoreTypes'
      BY <2>1, <2>2
    <2>4. (OneRestorer /\ WholeSoFar)'
      BY <2>1, <2>2
    <2>5. (Restore!NamesHoldWhole /\ Restore!ReceiptMeansRestored)'
      BY <2>2
    <2> QED BY <2>3, <2>4, <2>5
  <1>3. ASSUME NEW r \in Restorers, Restore!Check(r) PROVE RestoreInv'
    <2>1. PICK s \in {"off", "open"} : stage' = [stage EXCEPT ![r] = s]
      BY <1>3 DEF Restore!Check
    <2>2. /\ stage[r] = "check" /\ at[r] <= NFiles
          /\ UNCHANGED <<target, temp, at, handle, receipts, original>>
      BY <1>3 DEF Restore!Check
    <2>3. RestoreTypes'
      <3>1. stage' \in [Restorers -> {"off", "check", "open", "extract", "replace"}]
        BY <2>1, <2>2
      <3>2. \A q \in Restorers : stage'[q] = "extract" <=> stage[q] = "extract"
        BY <2>1, <2>2
      <3> QED BY <2>2, <3>1, <3>2
    <2>4. (OneRestorer /\ WholeSoFar)'
      BY <2>1, <2>2
    <2>5. (Restore!NamesHoldWhole /\ Restore!ReceiptMeansRestored)'
      BY <2>2
    <2> QED BY <2>3, <2>4, <2>5
  <1>4. ASSUME NEW r \in Restorers, Restore!Open(r) PROVE RestoreInv'
    <2>1. RestoreTypes'
      BY <1>4 DEF Restore!Open, Restore!Held
    <2>2. (OneRestorer /\ WholeSoFar)'
      BY <1>4 DEF Restore!Open
    <2>3. (Restore!NamesHoldWhole /\ Restore!ReceiptMeansRestored)'
      BY <1>4 DEF Restore!Open
    <2> QED BY <2>1, <2>2, <2>3
  <1>5. ASSUME NEW r \in Restorers, Restore!Extract(r) PROVE RestoreInv'
    <2>1. handle[r] = "temp" /\ at[r] \in Restore!FileIds /\ ~receipts
      BY <1>5 DEF Restore!Extract
    <2>2. /\ temp' = [temp EXCEPT ![at[r]] = IF at[r] \in pack THEN "whole" ELSE "wrong"]
          /\ stage' = [stage EXCEPT ![r] = IF at[r] \in pack THEN "replace" ELSE "off"]
          /\ handle' = [handle EXCEPT ![r] = "closed"]
          /\ UNCHANGED <<target, at, receipts, original>>
      BY <1>5, <2>1 DEF Restore!Extract, Restore!Object
    <2>3. RestoreTypes'
      BY <2>1, <2>2 DEF Restore!Held
    <2>4. (OneRestorer /\ WholeSoFar)'
      BY <1>5, <2>1, <2>2 DEF Restore!Extract
    <2> QED BY <2>2, <2>3, <2>4
  <1>6. ASSUME NEW r \in Restorers, Restore!Replace(r) PROVE RestoreInv'
    <2>1. /\ stage[r] = "replace" /\ at[r] \in Restore!FileIds /\ temp[at[r]] = "whole" /\ ~receipts
          /\ \A q \in Restorers : q # r => stage[q] = "off"
          /\ \A q \in Restorers : handle[q] = "closed"
      BY <1>6 DEF Restore!Replace
    <2>2. /\ target' = [target EXCEPT ![at[r]] = "whole"]
          /\ temp' = [temp EXCEPT ![at[r]] = "nothing"]
          /\ handle' = [q \in Restorers |->
                          IF handle[q] = "temp" /\ at[q] = at[r] THEN "target" ELSE handle[q]]
          /\ at' = [at EXCEPT ![r] = at[r] + 1] /\ stage' = [stage EXCEPT ![r] = "check"]
          /\ UNCHANGED <<receipts, original>>
      BY <1>6, <2>1 DEF Restore!Replace
    <2>3. RestoreTypes'
      BY <2>1, <2>2 DEF Restore!Held
    <2>4. (OneRestorer /\ WholeSoFar)'
      <3>1. \A f \in Restore!FileIds : f < at[r] + 1 => target'[f] = "whole"
        <4>1. \A f \in Restore!FileIds : f < at[r] + 1 => f = at[r] \/ target[f] = "whole"
          BY <2>1
        <4>2. /\ target'[at[r]] = "whole"
              /\ \A f \in Restore!FileIds : f # at[r] => target'[f] = target[f]
          BY <2>1, <2>2
        <4> QED BY <4>1, <4>2
      <3>2. /\ \A q \in Restorers : stage'[q] # "off" => q = r
            /\ stage'[r] = "check" /\ at'[r] = at[r] + 1 /\ at[r] + 1 > 0 /\ ~receipts'
        BY <2>1, <2>2
      <3>3. OneRestorer'
        BY <3>2
      <3>4. WholeSoFar'
        <4> HIDE DEF Restore!FileIds
        <4> QED BY <3>1, <3>2
      <3> QED BY <3>3, <3>4
    <2>5. (Restore!NamesHoldWhole /\ Restore!ReceiptMeansRestored)'
      BY <2>1, <2>2
    <2> QED BY <2>3, <2>4, <2>5
  <1>7. ASSUME NEW r \in Restorers, Restore!Receipt(r) PROVE RestoreInv'
    <2>1. /\ stage[r] = "check" /\ at[r] > NFiles
          /\ stage' = [stage EXCEPT ![r] = "off"] /\ receipts' = TRUE
          /\ UNCHANGED <<target, temp, at, handle, original>>
      BY <1>7 DEF Restore!Receipt
    <2>2. \A f \in Restore!FileIds : target[f] = "whole"
      BY <2>1
    <2>3. RestoreTypes'
      BY <2>1
    <2>4. (OneRestorer /\ WholeSoFar)'
      BY <2>1
    <2>5. (Restore!NamesHoldWhole /\ Restore!ReceiptMeansRestored)'
      BY <2>1, <2>2
    <2> QED BY <2>3, <2>4, <2>5
  <1>8. ASSUME NEW r \in Restorers, Restore!Kill(r) PROVE RestoreInv'
    <2>1. /\ stage' = [stage EXCEPT ![r] = "off"] /\ handle' = [handle EXCEPT ![r] = "closed"]
          /\ UNCHANGED <<target, temp, at, receipts, original>>
      BY <1>8 DEF Restore!Kill
    <2>2. RestoreTypes'
      BY <2>1 DEF Restore!Held
    <2>3. (OneRestorer /\ WholeSoFar)'
      BY <2>1
    <2>4. (Restore!NamesHoldWhole /\ Restore!ReceiptMeansRestored)'
      BY <2>1
    <2> QED BY <2>2, <2>3, <2>4
  <1> QED
    BY <1>1, <1>2, <1>3, <1>4, <1>5, <1>6, <1>7, <1>8
    DEF all, restoreVars, MCNext, Restore!Next, Restore!Step

(* Restorations that do not overlap never leave half a file, or one that   *)
(* failed its verification, under its final name, whatever restoration is  *)
(* killed and however damaged the packs are.                               *)
THEOREM NamesAlwaysHoldWhole == MCSpec => []NamesHoldWhole
  <1>1. RestoreInv => NamesHoldWhole
    BY DEF RestoreInv, NamesHoldWhole
  <1> QED BY <1>1, RestoreInit, RestoreStep, PTL DEF MCSpec

(* After a receipt, and until the next restoration begins, the whole unit  *)
(* is in the directory.                                                    *)
THEOREM ReceiptsMeanRestored == MCSpec => []ReceiptMeansRestored
  <1>1. RestoreInv => ReceiptMeansRestored
    BY DEF RestoreInv, ReceiptMeansRestored
  <1> QED BY <1>1, RestoreInit, RestoreStep, PTL DEF MCSpec
-----------------------------------------------------------------------------
(* Where the entries of the export are: a file and a number. *)
EntryPositions == UNION {{f} \X DOMAIN export[f].entries : f \in DOMAIN export}

LEMMA PositionOf ==
  ASSUME NEW p
  PROVE  p \in EntryPositions <=>
           \E f \in DOMAIN export : \E i \in DOMAIN export[f].entries : p = <<f, i>>
  BY DEF EntryPositions

LEMMA WantedPositions ==
  Import!Wanted = {p \in EntryPositions : Import!Entry(p) \in Import!Conversations
                                       /\ Import!Selected(Import!Entry(p).id)}
  BY DEF Import!Wanted, EntryPositions

(* An export is a sequence of files, and only a conversation file has      *)
(* entries.                                                                *)
LEMMA ExportShape ==
  ASSUME export \in Import!Exports
  PROVE  \E n \in Nat :
           /\ DOMAIN export = 1 .. n
           /\ \A f \in 1 .. n :
                /\ \E m \in Nat : DOMAIN export[f].entries = 1 .. m /\ Len(export[f].entries) = m
                /\ ~export[f].partition => DOMAIN export[f].entries = {}
  <1>1. PICK n \in Nat : export \in [1 .. n -> Import!Files]
    BY DEF Import!Exports
  <1>2. ASSUME NEW f \in 1 .. n
        PROVE  /\ \E m \in Nat : DOMAIN export[f].entries = 1 .. m /\ Len(export[f].entries) = m
               /\ ~export[f].partition => DOMAIN export[f].entries = {}
    <2>1. export[f] \in Import!Files
      BY <1>1
    <2>2. CASE export[f] \in [entries : UNION {[1 .. k -> Import!Entries] : k \in 0 .. MaxItems},
                              readable : {TRUE}, partition : {TRUE}]
      <3>1. PICK k \in 0 .. MaxItems : export[f].entries \in [1 .. k -> Import!Entries]
        BY <2>2
      <3>2. DOMAIN export[f].entries = 1 .. k /\ Len(export[f].entries) = k /\ k \in Nat
        BY <3>1
      <3> QED BY <2>2, <3>2
    <2>3. CASE \E q \in BOOLEAN : export[f] = [entries |-> <<>>, readable |-> FALSE,
                 partition |-> q]
      <3>1. export[f].entries = <<>>
        BY <2>3
      <3>2. DOMAIN export[f].entries = 1 .. 0 /\ Len(export[f].entries) = 0
        BY <3>1
      <3> QED BY <3>2
    <2> QED BY <2>1, <2>2, <2>3 DEF Import!Files
  <1> QED BY <1>1, <1>2


(* Entries that are wanted and have been passed by the import that runs. *)
Passed == {p \in Import!Wanted : \/ p[1] < file
                                 \/ importPhase = "entries" /\ p[1] = file /\ p[2] < item}

(* Every entry of S is told of once, as what became of it ... *)
Told(S) ==
  /\ imported \cup unchanged \cup failed = S
  /\ imported \cap (unchanged \cup failed) = {} /\ unchanged \cap failed = {}

(* ... and what is told to be in the archive is there. *)
Kept ==
  \A p \in imported \cup unchanged :
    \E v \in DOMAIN versions[Import!Entry(p).id] :
      versions[Import!Entry(p).id][v] = Import!Entry(p).content

ImportTypes ==
  /\ export \in Import!Exports
  /\ file \in Nat /\ item \in Nat
  /\ versions \in [ConversationIds -> Seq(Contents)]
  /\ importPhase = "files" => file > 0
  /\ importPhase = "entries" => file \in DOMAIN export /\ item > 0

Working == importPhase \in {"files", "entries"}

(* While an import works it has told of what it passed, and a manifest     *)
(* tells of everything that was wanted.                                    *)
AccountInv ==
  /\ ImportTypes
  /\ Working => records = {} /\ Told(Passed) /\ Kept
  /\ "manifest" \in records => Told(Import!Wanted) /\ Kept

LEMMA WantedType ==
  ASSUME ImportTypes, NEW p \in Import!Wanted
  PROVE  /\ p[1] \in Nat \ {0} /\ p[2] \in Nat \ {0} /\ p = <<p[1], p[2]>>
         /\ p[1] \in DOMAIN export /\ p[2] \in DOMAIN export[p[1]].entries
         /\ p[2] <= Len(export[p[1]].entries)
         /\ Import!Entry(p).id \in ConversationIds /\ Import!Entry(p).content \in Contents
  <1>1. p \in EntryPositions /\ Import!Entry(p) \in Import!Conversations
    BY WantedPositions
  <1>2. PICK f \in DOMAIN export : \E i \in DOMAIN export[f].entries : p = <<f, i>>
    BY <1>1, PositionOf
  <1>3. PICK i \in DOMAIN export[f].entries : p = <<f, i>>
    BY <1>2
  <1>4. PICK n \in Nat :
          /\ DOMAIN export = 1 .. n
          /\ \A g \in 1 .. n :
               \E m \in Nat : DOMAIN export[g].entries = 1 .. m /\ Len(export[g].entries) = m
    BY ExportShape DEF ImportTypes
  <1>5. PICK m \in Nat : DOMAIN export[f].entries = 1 .. m /\ Len(export[f].entries) = m
    BY <1>4
  <1>6. f \in Nat \ {0} /\ i \in Nat \ {0} /\ i <= m
    BY <1>4, <1>5
  <1>7. Import!Entry(p).id \in ConversationIds /\ Import!Entry(p).content \in Contents
    BY <1>1 DEF Import!Conversations
  <1> QED BY <1>3, <1>5, <1>6, <1>7

LEMMA WantedNumbers ==
  ImportTypes => \A p \in Import!Wanted : p[1] \in Nat \ {0} /\ p[2] \in Nat \ {0}
  BY WantedType

LEMMA WantedNumbersNext ==
  (ImportTypes => \A p \in Import!Wanted : p[1] \in Nat \ {0} /\ p[2] \in Nat \ {0})'
  BY WantedNumbers, PTL

(* While nothing that AccountInv speaks of changes, it holds on. *)
LEMMA AccountKept ==
  ASSUME AccountInv,
         UNCHANGED <<export, filter, file, item, versions, imported, unchanged, failed>>,
         \/ UNCHANGED <<importPhase, records>>
         \/ /\ importPhase' \notin {"files", "entries"}
            /\ "manifest" \in records' <=> "manifest" \in records
  PROVE  AccountInv'
  <1>1. UNCHANGED Import!Wanted
    BY DEF Import!Wanted, Import!Entry, Import!Selected
  <1>2. ImportTypes'
    BY DEF AccountInv, ImportTypes
  <1>3. Kept => Kept'
    BY DEF Kept, Import!Entry
  <1>4. Told(Import!Wanted) => Told(Import!Wanted)'
    BY <1>1 DEF Told
  <1>5. CASE UNCHANGED <<importPhase, records>>
    <2>1. Passed' = Passed
      BY <1>1, <1>5 DEF Passed
    <2>2. Told(Passed) => Told(Passed)'
      BY <2>1 DEF Told
    <2> QED BY <1>2, <1>3, <1>4, <1>5, <2>2 DEF AccountInv, Working
  <1>6. CASE /\ importPhase' \notin {"files", "entries"}
             /\ "manifest" \in records' <=> "manifest" \in records
    BY <1>2, <1>3, <1>4, <1>6 DEF AccountInv, Working
  <1> QED BY <1>5, <1>6

(* An entry that is looked at is in the export. *)
LEMMA HerePosition ==
  ASSUME ImportTypes, Import!AtEntry
  PROVE  Import!Here \in EntryPositions
  <1>1. PICK n \in Nat :
          /\ DOMAIN export = 1 .. n
          /\ \A g \in 1 .. n :
               \E m \in Nat : DOMAIN export[g].entries = 1 .. m /\ Len(export[g].entries) = m
    BY ExportShape DEF ImportTypes
  <1>2. file \in DOMAIN export /\ item \in Nat /\ item > 0 /\ item <= Len(export[file].entries)
    BY DEF ImportTypes, Import!AtEntry
  <1>3. item \in DOMAIN export[file].entries
    BY <1>1, <1>2
  <1> QED BY <1>2, <1>3, PositionOf DEF Import!Here

(* The import goes from one entry to the next: only that one is passed. *)
LEMMA PassEntry ==
  ASSUME ImportTypes, Import!AtEntry, item' = item + 1,
         UNCHANGED <<importPhase, file, export, filter>>
  PROVE  /\ Passed' = Passed \cup ({Import!Here} \cap Import!Wanted)
         /\ Import!Here \notin Passed
         /\ UNCHANGED Import!Wanted
  <1>1. importPhase = "entries" /\ file \in Nat /\ item \in Nat
    BY DEF Import!AtEntry, ImportTypes
  <1>2. UNCHANGED Import!Wanted
    BY DEF Import!Wanted, Import!Entry, Import!Selected
  <1>3. Import!Here[1] = file /\ Import!Here[2] = item
    BY DEF Import!Here
  <1>4. Import!Here \notin Passed
    BY <1>1, <1>3 DEF Passed
  <1>5. ASSUME NEW p \in Import!Wanted
        PROVE  p \in Passed' <=> p \in Passed \/ p = Import!Here
    <2>1. p[1] \in Nat /\ p[2] \in Nat /\ p = <<p[1], p[2]>>
      BY WantedType
    <2>2. p = Import!Here <=> p[1] = file /\ p[2] = item
      BY <2>1 DEF Import!Here
    <2>3. p[2] < item + 1 <=> p[2] < item \/ p[2] = item
      BY <1>1, <2>1
    <2> QED BY <1>1, <1>2, <2>2, <2>3 DEF Passed
  <1>6. Passed \subseteq Import!Wanted /\ Passed' \subseteq Import!Wanted
    BY <1>2 DEF Passed
  <1> QED BY <1>2, <1>4, <1>5, <1>6

LEMMA TellEntry ==
  ASSUME Told(Passed), NEW S, S = Passed \cup {Import!Here}, Import!Here \notin Passed,
         \/ imported' = imported \cup {Import!Here} /\ UNCHANGED <<unchanged, failed>>
         \/ unchanged' = unchanged \cup {Import!Here} /\ UNCHANGED <<imported, failed>>
         \/ failed' = failed \cup {Import!Here} /\ UNCHANGED <<imported, unchanged>>
  PROVE  /\ imported' \cup unchanged' \cup failed' = S
         /\ imported' \cap (unchanged' \cup failed') = {} /\ unchanged' \cap failed' = {}
  BY DEF Told


(* What Append does to a sequence. *)
LEMMA AppendFacts ==
  ASSUME NEW T, NEW s \in Seq(T), NEW x \in T
  PROVE  /\ Append(s, x) \in Seq(T) /\ Len(Append(s, x)) = Len(s) + 1 /\ Len(s) \in Nat
         /\ DOMAIN s = 1 .. Len(s) /\ DOMAIN Append(s, x) = 1 .. Len(s) + 1
         /\ \A v \in DOMAIN s : v \in DOMAIN Append(s, x) /\ Append(s, x)[v] = s[v]
         /\ Append(s, x)[Len(s) + 1] = x
  OBVIOUS

(* An archive that stays as it is, or gets one more version, loses none. *)
LEMMA VersionsGrow ==
  ASSUME versions \in [ConversationIds -> Seq(Contents)],
         NEW c \in ConversationIds, NEW x \in Contents,
         versions' = versions \/ versions' = [versions EXCEPT ![c] = Append(versions[c], x)]
  PROVE  /\ versions' \in [ConversationIds -> Seq(Contents)]
         /\ \A k \in ConversationIds : \A v \in DOMAIN versions[k] :
              v \in DOMAIN versions'[k] /\ versions'[k][v] = versions[k][v]
  <1>1. CASE versions' = versions
    BY <1>1
  <1>2. CASE versions' = [versions EXCEPT ![c] = Append(versions[c], x)]
    <2>1. versions[c] \in Seq(Contents)
      OBVIOUS
    <2>2. /\ Append(versions[c], x) \in Seq(Contents)
          /\ \A v \in DOMAIN versions[c] : /\ v \in DOMAIN Append(versions[c], x)
                                           /\ Append(versions[c], x)[v] = versions[c][v]
      BY <2>1, AppendFacts
    <2>3. \A k \in ConversationIds :
            versions'[k] = IF k = c THEN Append(versions[c], x) ELSE versions[k]
      BY <1>2
    <2>4. versions' \in [ConversationIds -> Seq(Contents)]
      BY <1>2, <2>2
    <2> QED BY <2>2, <2>3, <2>4
  <1> QED BY <1>1, <1>2

(* One conversation is archived, or found to be archived already. *)
LEMMA AccountPersist ==
  ASSUME AccountInv, Import!Persist
  PROVE  AccountInv'
  <1> DEFINE c == Import!Entry(Import!Here).id
             x == Import!Entry(Import!Here).content
  <1>1. /\ Import!AtEntry /\ Import!Here \in Import!Wanted /\ ImportTypes
        /\ importPhase = "entries" /\ records = {} /\ Told(Passed) /\ Kept
        /\ item' = item + 1
        /\ UNCHANGED <<importPhase, file, export, filter, records, failed>>
    <2>1. Import!AtEntry /\ ImportTypes /\ importPhase = "entries"
      BY DEF Import!Persist, Import!AtConversation, Import!AtEntry, AccountInv
    <2>2. Import!Here \in EntryPositions
      BY <2>1, HerePosition
    <2>3. Import!Here \in Import!Wanted
      BY <2>2, WantedPositions DEF Import!Persist, Import!AtConversation
    <2>4. /\ item' = item + 1
          /\ UNCHANGED <<importPhase, file, export, filter, records, failed>>
      BY DEF Import!Persist
    <2> QED BY <2>1, <2>3, <2>4 DEF AccountInv, Working
  <1>2. /\ Passed' = Passed \cup {Import!Here}
        /\ Import!Here \notin Passed
        /\ UNCHANGED Import!Wanted
    BY <1>1, PassEntry
  <1>3. c \in ConversationIds /\ x \in Contents
    BY <1>1, WantedType
  <1>4. \/ /\ versions[c] # <<>> /\ versions[c][Len(versions[c])] = x
           /\ unchanged' = unchanged \cup {Import!Here} /\ UNCHANGED <<versions, imported>>
        \/ /\ versions' = [versions EXCEPT ![c] = Append(versions[c], x)]
           /\ imported' = imported \cup {Import!Here} /\ UNCHANGED unchanged
    BY DEF Import!Persist, Import!Current, Import!IsLatest, Import!Archived
  <1>5. versions \in [ConversationIds -> Seq(Contents)]
    BY <1>1 DEF ImportTypes
  <1>6. \A p : (Import!Entry(p))' = Import!Entry(p)
    BY <1>1 DEF Import!Entry
  <1> HIDE DEF c, x
  <1>7. /\ versions' \in [ConversationIds -> Seq(Contents)]
        /\ \A k \in ConversationIds : \A v \in DOMAIN versions[k] :
             v \in DOMAIN versions'[k] /\ versions'[k][v] = versions[k][v]
    BY <1>3, <1>4, <1>5, VersionsGrow
  <1>8. \E v \in DOMAIN versions'[c] : versions'[c][v] = x
    <2>1. CASE versions[c] # <<>> /\ versions[c][Len(versions[c])] = x /\ UNCHANGED versions
      BY <1>3, <1>5, <2>1
    <2>2. CASE versions' = [versions EXCEPT ![c] = Append(versions[c], x)]
      <3>1. versions[c] \in Seq(Contents) /\ versions'[c] = Append(versions[c], x)
        BY <1>3, <1>5, <2>2
      <3> QED BY <1>3, <3>1, AppendFacts
    <2> QED BY <1>4, <2>1, <2>2
  <1>9. ImportTypes'
    BY <1>1, <1>7 DEF ImportTypes
  <1>10. Told(Passed)'
    BY <1>1, <1>2, <1>4, TellEntry DEF Told
  <1>11. Kept'
    <2>1. ASSUME NEW p \in imported \cup unchanged
          PROVE  \E v \in DOMAIN versions'[Import!Entry(p).id] :
                   versions'[Import!Entry(p).id][v] = Import!Entry(p).content
      <3>1. p \in Import!Wanted
        BY <1>1 DEF Told, Passed
      <3>2. Import!Entry(p).id \in ConversationIds
        BY <1>1, <3>1, WantedType
      <3> QED BY <1>1, <1>7, <3>2 DEF Kept
    <2>2. imported' \cup unchanged' = imported \cup unchanged \cup {Import!Here}
      BY <1>4
    <2> QED BY <1>6, <1>8, <2>1, <2>2 DEF Kept, c, x
  <1> QED BY <1>1, <1>9, <1>10, <1>11 DEF AccountInv, Working

(* An entry that is passed over. *)
LEMMA AccountPass ==
  ASSUME AccountInv, Import!PassOver
  PROVE  AccountInv'
  <1>1. /\ Import!AtEntry /\ ImportTypes
        /\ importPhase = "entries" /\ records = {} /\ Told(Passed) /\ Kept
        /\ item' = item + 1
        /\ UNCHANGED <<importPhase, file, export, filter, records, versions, imported, unchanged,
                       failed>>
    BY DEF Import!PassOver, Import!AtEntry, Import!kept, AccountInv, Working
  <1>2. /\ Passed' = Passed \cup ({Import!Here} \cap Import!Wanted)
        /\ Import!Here \notin Passed
    BY <1>1, PassEntry
  <1>3. ImportTypes'
    BY <1>1 DEF ImportTypes
  <1>4. Kept'
    BY <1>1 DEF Kept, Import!Entry
  <1>5. Import!Here \notin Import!Wanted
    <2>1. CASE Import!Entry(Import!Here).id = "junk"
      BY <1>1, <2>1, ImportAssumption, WantedType DEF ImportAssumption
    <2>2. CASE ~Import!Selected(Import!Entry(Import!Here).id)
      BY <2>2 DEF Import!Wanted
    <2> QED BY <2>1, <2>2 DEF Import!PassOver
  <1>6. Passed' = Passed
    BY <1>2, <1>5
  <1> QED BY <1>1, <1>3, <1>4, <1>6 DEF AccountInv, Working, Told

(* A conversation that cannot be archived, or is archived by a persist     *)
(* that fails in the end.                                                  *)
LEMMA AccountFails ==
  ASSUME AccountInv, Import!PersistFails \/ Import!Refuse
  PROVE  AccountInv'
  <1> DEFINE c == Import!Entry(Import!Here).id
             x == Import!Entry(Import!Here).content
  <1>1. /\ Import!AtEntry /\ ImportTypes
        /\ importPhase = "entries" /\ records = {} /\ Told(Passed) /\ Kept
        /\ item' = item + 1 /\ failed' = failed \cup {Import!Here}
        /\ versions' = versions \/ versions' = [versions EXCEPT ![c] = Append(versions[c], x)]
        /\ UNCHANGED <<importPhase, file, export, filter, records, imported, unchanged>>
    BY DEF Import!PersistFails, Import!Refuse, Import!AtConversation, Import!AtEntry,
           Import!Archived, AccountInv, Working
  <1>2. Import!Here \in Import!Wanted
    BY <1>1, HerePosition, WantedPositions
       DEF Import!PersistFails, Import!Refuse, Import!AtConversation
  <1>3. Passed' = Passed \cup {Import!Here} /\ Import!Here \notin Passed
    BY <1>1, <1>2, PassEntry
  <1>4. c \in ConversationIds /\ x \in Contents
    BY <1>1, <1>2, WantedType
  <1>5. \A p : (Import!Entry(p))' = Import!Entry(p)
    BY <1>1 DEF Import!Entry
  <1> HIDE DEF c, x
  <1>6. /\ versions' \in [ConversationIds -> Seq(Contents)]
        /\ \A k \in ConversationIds : \A v \in DOMAIN versions[k] :
             v \in DOMAIN versions'[k] /\ versions'[k][v] = versions[k][v]
    BY <1>1, <1>4, VersionsGrow DEF ImportTypes
  <1>7. ImportTypes'
    BY <1>1, <1>6 DEF ImportTypes
  <1>8. Kept'
    <2>1. ASSUME NEW p \in imported \cup unchanged
          PROVE  \E v \in DOMAIN versions'[Import!Entry(p).id] :
                   versions'[Import!Entry(p).id][v] = Import!Entry(p).content
      <3>1. p \in Import!Wanted
        BY <1>1 DEF Told, Passed
      <3>2. Import!Entry(p).id \in ConversationIds
        BY <1>1, <3>1, WantedType
      <3> QED BY <1>1, <1>6, <3>2 DEF Kept
    <2> QED BY <1>1, <1>5, <2>1 DEF Kept
  <1>9. Told(Passed)'
    BY <1>1, <1>3, TellEntry DEF Told
  <1> QED BY <1>1, <1>7, <1>8, <1>9 DEF AccountInv, Working

(* The ends of a file, and of the last one, pass no entry. *)
LEMMA AccountFile ==
  ASSUME AccountInv, Import!OpenFile \/ Import!CloseFile \/ Import!WriteManifest
  PROVE  AccountInv'
  <1>1. /\ ImportTypes /\ Working /\ records = {} /\ Told(Passed) /\ Kept
        /\ UNCHANGED <<export, filter, versions, imported, unchanged, failed>>
    BY DEF Import!OpenFile, Import!CloseFile, Import!WriteManifest, Import!kept, AccountInv, Working
  <1>2. UNCHANGED Import!Wanted
    BY <1>1 DEF Import!Wanted, Import!Entry, Import!Selected
  <1>3. Kept'
    BY <1>1 DEF Kept, Import!Entry
  <1>4. PICK n \in Nat :
          /\ DOMAIN export = 1 .. n
          /\ \A g \in 1 .. n :
               /\ \E m \in Nat : DOMAIN export[g].entries = 1 .. m /\ Len(export[g].entries) = m
               /\ ~export[g].partition => DOMAIN export[g].entries = {}
    BY <1>1, ExportShape DEF ImportTypes
  <1>5. CASE Import!OpenFile
    <2>1. CASE ~export[file].partition /\ file' = file + 1 /\ UNCHANGED <<importPhase, item>>
      <3>1. \A p \in Import!Wanted : p[1] # file
        BY <1>1, <1>4, <1>5, <2>1, WantedType DEF Import!OpenFile
      <3>2. \A p \in Import!Wanted : p[1] < file + 1 <=> p[1] < file
        BY <1>1, <3>1, WantedType DEF ImportTypes
      <3>3. Passed' = Passed
        BY <1>2, <1>5, <2>1, <3>2 DEF Passed, Import!OpenFile
      <3>4. ImportTypes'
        BY <1>1, <1>5, <2>1 DEF ImportTypes, Import!OpenFile
      <3> QED BY <1>1, <1>3, <1>5, <2>1, <3>3, <3>4
              DEF AccountInv, Working, Told, Import!OpenFile, Import!kept
    <2>2. CASE importPhase' = "exit 1" /\ UNCHANGED <<file, item>>
      BY <1>1, <1>5, <2>2 DEF AccountInv, Working, ImportTypes, Import!OpenFile, Import!kept
    <2>3. CASE importPhase' = "entries" /\ item' = 1 /\ UNCHANGED file
      <3>1. \A p \in Import!Wanted : ~(p[2] < 1)
        BY <1>1, WantedType
      <3>2. Passed' = Passed
        BY <1>2, <1>5, <2>3, <3>1 DEF Passed, Import!OpenFile
      <3>3. ImportTypes'
        BY <1>1, <1>5, <2>3 DEF ImportTypes, Import!OpenFile
      <3> QED BY <1>1, <1>3, <1>5, <2>3, <3>2, <3>3
              DEF AccountInv, Working, Told, Import!OpenFile, Import!kept
    <2> QED BY <1>5, <2>1, <2>2, <2>3 DEF Import!OpenFile
  <1>6. CASE Import!CloseFile
    <2>1. \A p \in Import!Wanted : p[1] < file + 1 <=> p[1] < file \/ (p[1] = file /\ p[2] < item)
      <3>1. item \in Nat /\ item > Len(export[file].entries) /\ file \in Nat
        BY <1>1, <1>6 DEF Import!CloseFile, ImportTypes
      <3>2. \A p \in Import!Wanted : p[1] = file => p[2] <= Len(export[file].entries)
        BY <1>1, WantedType
      <3>3. file \in DOMAIN export
        BY <1>1, <1>6 DEF Import!CloseFile, ImportTypes
      <3>4. Len(export[file].entries) \in Nat
        BY <1>4, <3>3
      <3>5. \A p \in Import!Wanted : p[1] \in Nat /\ p[2] \in Nat
        BY <1>1, WantedType
      <3> QED BY <3>1, <3>2, <3>4, <3>5
    <2>2. Passed' = Passed
      BY <1>2, <1>6, <2>1 DEF Passed, Import!CloseFile
    <2>3. ImportTypes'
      BY <1>1, <1>6 DEF ImportTypes, Import!CloseFile
    <2> QED BY <1>1, <1>3, <1>6, <2>2, <2>3
            DEF AccountInv, Working, Told, Import!CloseFile, Import!kept
  <1>7. CASE Import!WriteManifest
    <2>1. file \in Nat /\ file > 0 /\ file \notin DOMAIN export /\ importPhase = "files"
      BY <1>1, <1>7 DEF Import!WriteManifest, ImportTypes
    <2>2. \A p \in Import!Wanted : p[1] < file
      BY <1>1, <1>4, <2>1, WantedType
    <2>3. Passed = Import!Wanted
      BY <2>2 DEF Passed
    <2>4. ImportTypes'
      BY <1>1, <1>7 DEF ImportTypes, Import!WriteManifest
    <2> QED BY <1>1, <1>2, <1>3, <1>7, <2>3, <2>4
            DEF AccountInv, Working, Told, Import!WriteManifest
  <1> QED BY <1>5, <1>6, <1>7

LEMMA AccountStep == part = "import" /\ AccountInv /\ [MCNext]_all => AccountInv'
  <1> SUFFICES ASSUME part = "import", AccountInv, [MCNext]_all PROVE AccountInv'
    OBVIOUS
  <1>1. CASE UNCHANGED importVars
    BY <1>1, AccountKept DEF importVars
  <1>2. CASE Import!Discover
    <2>1. /\ importPhase' = "files" /\ file' = 1 /\ item' = 0 /\ records' = {}
          /\ imported' = {} /\ unchanged' = {} /\ failed' = {}
          /\ UNCHANGED <<export, versions>>
      BY <1>2 DEF Import!Discover
    <2>2. ImportTypes'
      BY <2>1 DEF AccountInv, ImportTypes
    <2>3. Passed' = {}
      <3>1. \A p \in Import!Wanted' : ~(p[1] < 1)
        BY <2>2, WantedNumbersNext
      <3> QED BY <2>1, <3>1 DEF Passed
    <2>4. Told(Passed)' /\ Kept'
      BY <2>1, <2>3 DEF Told, Kept
    <2> QED BY <2>1, <2>2, <2>4 DEF AccountInv, Working
  <1>3. CASE Import!OpenFile \/ Import!CloseFile \/ Import!WriteManifest
    BY <1>3, AccountFile
  <1>4. CASE Import!PassOver \/ Import!PersistFails \/ Import!Refuse
    BY <1>4, AccountPass, AccountFails
  <1>5. CASE Import!Persist
    BY <1>5, AccountPersist
  <1>6. CASE Import!Unidentified \/ Import!WriteIndex \/ Import!KillStrands \/ Import!Kill
    <2>1. /\ importPhase' \in {"exit 0", "exit 1", "exit 2", "killed"}
          /\ records' = records \/ records' = records \cup {"index"}
          /\ UNCHANGED <<export, filter, file, item, versions, imported, unchanged, failed>>
      BY <1>6 DEF Import!Unidentified, Import!WriteIndex, Import!KillStrands, Import!Kill,
                  Import!kept
    <2>2. "manifest" \in records' <=> "manifest" \in records
      BY <2>1
    <2> QED BY <2>1, <2>2, AccountKept
  <1> QED
    BY <1>1, <1>2, <1>3, <1>4, <1>5, <1>6
    DEF all, importVars, MCNext, Import!Next, Import!Process

LEMMA AccountInit == part = "import" /\ MCInit => AccountInv
  <1> SUFFICES ASSUME part = "import", MCInit PROVE AccountInv
    OBVIOUS
  <1>1. Import!Init
    BY DEF MCInit
  <1>2. ImportTypes
    BY <1>1 DEF Import!Init, ImportTypes
  <1>3. ~Working /\ records = {}
    BY <1>1 DEF Import!Init, Working
  <1> QED BY <1>2, <1>3 DEF AccountInv

(* The manifest of an import tells of every conversation that was asked    *)
(* for, once, and what it says was archived can be found, for every        *)
(* export, and whatever fails or is killed.                                *)
THEOREM ManifestsAccount == MCSpec => []ManifestAccounts
  <1> DEFINE I == part = "import" => AccountInv
  <1>1. MCInit => I
    BY AccountInit
  <1>2. I /\ [MCNext]_all => I'
    <2>1. [MCNext]_all => UNCHANGED part
      BY DEF MCNext, all
    <2> QED BY <2>1, AccountStep
  <1>3. I => ManifestAccounts
    <2>1. AccountInv => Import!ManifestAccounts
      BY DEF AccountInv, Told, Kept, Import!ManifestAccounts
    <2> QED BY <2>1 DEF ManifestAccounts
  <1> HIDE DEF I
  <1> QED BY <1>1, <1>2, <1>3, PTL DEF MCSpec

LEMMA OneEntryEach ==
  ASSUME Import!NoDuplicates, NEW p \in EntryPositions, NEW q \in EntryPositions,
         Import!Entry(p) \in Import!Conversations, Import!Entry(q) \in Import!Conversations,
         Import!Entry(p).id = Import!Entry(q).id
  PROVE  p = q
  BY Zenon DEF Import!NoDuplicates, EntryPositions

(* Every version has the content some entry of the export gives its        *)
(* conversation; where no conversation has two entries there is only one,  *)
(* and none has been stranded beside it.                                   *)
SingleInv ==
  Import!NoDuplicates =>
    \A c \in ConversationIds :
      /\ Len(versions[c]) <= 1
      /\ c \in stranded => versions[c] = <<>>
      /\ \A v \in DOMAIN versions[c] :
           \E p \in EntryPositions : /\ Import!Entry(p) \in Import!Conversations
                              /\ Import!Entry(p).id = c
                              /\ Import!Entry(p).content = versions[c][v]

(* What may become of a conversation whose content is not the latest: it   *)
(* gets a version, or its version is stranded.                             *)
Grows ==
  /\ Import!AtConversation /\ ~Import!Current /\ Import!Free
  /\ \/ versions' = Import!Archived /\ UNCHANGED stranded
     \/ stranded' = stranded \cup {Import!Entry(Import!Here).id} /\ UNCHANGED versions

LEMMA SingleStep == part = "import" /\ AccountInv /\ SingleInv /\ [MCNext]_all => SingleInv'
  <1> SUFFICES ASSUME part = "import", AccountInv, SingleInv, [MCNext]_all PROVE SingleInv'
    OBVIOUS
  <1>1. UNCHANGED export /\ (UNCHANGED <<versions, stranded>> \/ Grows)
    BY DEF all, importVars, MCNext, Import!Next, Import!Process, Import!Discover, Import!OpenFile,
           Import!CloseFile, Import!PassOver, Import!Unidentified, Import!Persist,
           Import!PersistFails, Import!Refuse, Import!KillStrands, Import!WriteManifest,
           Import!WriteIndex, Import!Kill, Import!kept, Grows
  <1>2. UNCHANGED Import!NoDuplicates /\ UNCHANGED EntryPositions
        /\ \A p : (Import!Entry(p))' = Import!Entry(p)
    BY <1>1 DEF Import!NoDuplicates, EntryPositions, Import!Entry
  <1>3. CASE UNCHANGED <<versions, stranded>>
    BY <1>2, <1>3 DEF SingleInv
  <1>4. CASE Grows
    <2> DEFINE c == Import!Entry(Import!Here).id
               x == Import!Entry(Import!Here).content
    <2>1. Import!AtEntry /\ Import!Entry(Import!Here) \in Import!Conversations
      BY <1>4 DEF Grows, Import!AtConversation
    <2>2. Import!Here \in EntryPositions
      BY <2>1, HerePosition DEF AccountInv
    <2>3. versions \in [ConversationIds -> Seq(Contents)]
      BY DEF AccountInv, ImportTypes
    <2>4. c \in ConversationIds /\ x \in Contents
      BY <2>1 DEF Import!Conversations
    <2>5. /\ \/ versions' = [versions EXCEPT ![c] = Append(versions[c], x)] /\ stranded' = stranded
             \/ stranded' = stranded \cup {c} /\ versions' = versions
          /\ c \notin stranded
          /\ versions[c] = <<>> \/ versions[c][Len(versions[c])] # x
      BY <1>4 DEF Grows, Import!Archived, Import!Free, Import!Current, Import!IsLatest
    <2>6. ASSUME Import!NoDuplicates, versions[c] # <<>>
          PROVE  FALSE
      <3>1. versions[c] \in Seq(Contents)
        BY <2>3, <2>4
      <3>2. Len(versions[c]) = 1 /\ 1 \in DOMAIN versions[c]
        <4>1. PICK n \in Nat \ {0} : n = Len(versions[c])
          BY <2>6, <3>1, EmptySeq
        <4>2. DOMAIN versions[c] = 1 .. n
          BY <3>1, <4>1, LenProperties
        <4>3. Len(versions[c]) <= 1
          BY <2>4, <2>6 DEF SingleInv
        <4>4. n <= 1
          BY <4>1, <4>3
        <4>5. n = 1
          BY <4>4
        <4> QED BY <4>1, <4>2, <4>5
      <3>3. PICK p \in EntryPositions : /\ Import!Entry(p) \in Import!Conversations
                                  /\ Import!Entry(p).id = c
                                  /\ Import!Entry(p).content = versions[c][1]
        BY <2>4, <2>6, <3>2 DEF SingleInv
      <3>4. p = Import!Here
        BY <2>1, <2>2, <2>6, <3>3, OneEntryEach
      <3> QED BY <2>5, <2>6, <3>2, <3>3, <3>4
    <2>7. ASSUME Import!NoDuplicates, NEW k \in ConversationIds
          PROVE  /\ Len(versions'[k]) <= 1
                 /\ k \in stranded' => versions'[k] = <<>>
                 /\ \A v \in DOMAIN versions'[k] :
                      \E p \in EntryPositions : /\ Import!Entry(p) \in Import!Conversations
                                         /\ Import!Entry(p).id = k
                                         /\ Import!Entry(p).content = versions'[k][v]
      <3>1. CASE k = c /\ versions' = [versions EXCEPT ![c] = Append(versions[c], x)]
                 /\ stranded' = stranded
        <4>1. versions'[k] = Append(<<>>, x)
          BY <2>3, <2>4, <2>6, <2>7, <3>1
        <4>2. /\ Len(versions'[k]) = 1
              /\ \A v \in DOMAIN versions'[k] : versions'[k][v] = x
          BY <4>1
        <4>3. k \notin stranded'
          BY <2>5, <3>1
        <4>4. \E p \in EntryPositions : /\ Import!Entry(p) \in Import!Conversations
                                       /\ Import!Entry(p).id = k
                                       /\ Import!Entry(p).content = x
          BY <2>1, <2>2, <3>1
        <4> HIDE DEF c, x
        <4>5. Len(versions'[k]) <= 1
          BY <4>2
        <4> QED BY <4>2, <4>3, <4>4, <4>5
      <3>2. CASE k = c /\ versions' = versions
        <4>1. versions'[k] = <<>>
          BY <2>6, <2>7, <3>2
        <4>2. Len(versions'[k]) = 0 /\ DOMAIN versions'[k] = {}
          BY <4>1
        <4> QED BY <4>1, <4>2
      <3>3. CASE k # c
        <4>1. versions'[k] = versions[k] /\ (k \in stranded' => k \in stranded)
          BY <2>3, <2>4, <2>5, <2>7, <3>3
        <4> QED BY <2>7, <4>1 DEF SingleInv
      <3> QED BY <2>5, <3>1, <3>2, <3>3
    <2> QED BY <1>2, <2>7 DEF SingleInv
  <1> QED BY <1>1, <1>3, <1>4

LEMMA SingleInit == part = "import" /\ MCInit => SingleInv
  <1> SUFFICES ASSUME part = "import", MCInit, NEW c \in ConversationIds
               PROVE  /\ Len(versions[c]) <= 1 /\ DOMAIN versions[c] = {}
                      /\ versions[c] = <<>>
    BY DEF SingleInv
  <1>1. versions[c] = <<>>
    BY DEF MCInit, Import!Init
  <1> QED BY <1>1

(* Importing an export again, after imports that failed, were killed or    *)
(* selected one conversation, archives nothing twice.                      *)
THEOREM ReimportsIdempotent == MCSpec => []ReimportIdempotent
  <1> DEFINE I == part = "import" => AccountInv /\ SingleInv
  <1>1. MCInit => I
    BY AccountInit, SingleInit
  <1>2. I /\ [MCNext]_all => I'
    <2>1. [MCNext]_all => UNCHANGED part
      BY DEF MCNext, all
    <2> QED BY <2>1, AccountStep, SingleStep
  <1>3. I => ReimportIdempotent
    <2>1. SingleInv => Import!ReimportIdempotent
      BY DEF SingleInv, Import!ReimportIdempotent
    <2> QED BY <2>1 DEF ReimportIdempotent
  <1> HIDE DEF I
  <1> QED BY <1>1, <1>2, <1>3, PTL DEF MCSpec
-----------------------------------------------------------------------------
(* The plan of a batch run. *)
Archived ==
  [pointer : {"none", "readable", "unreadable"}, bundle : BOOLEAN, intact : BOOLEAN,
   content : Nat, revision : Nat \cup {Unknown}]

PlanTypes ==
  /\ remote \in [Sources -> Nat] /\ archive \in [Sources -> Archived]
  /\ cursor \in Nat
  /\ phase \in {"idle", "classify", "attach", "planned"}

(* A revision that is known says what the archive holds. *)
RevisionsTrue ==
  \A s \in Sources : archive[s].revision # Unknown => archive[s].revision = archive[s].content

(* Those of a listing say what the provider listed. *)
ListingTrue ==
  phase \in {"classify", "attach"} =>
    /\ Len(listing) \in Nat \ {0}
    /\ \A i \in 1 .. Len(listing) :
         /\ listing[i].id \in Sources
         /\ listing[i].revision # Unknown => listing[i].revision = listing[i].content

(* What is classified is in the plan, before it is put in an order. *)
Recorded(p) == {p[i] : i \in DOMAIN p}

PlanFilled ==
  /\ plan \in Seq(Recorded(plan))
  /\ phase = "classify" => cursor >= 1 /\ (cursor > 1 => Len(plan) >= 1)
  /\ phase = "attach" => cursor \in 1 .. Len(listing) /\ Len(plan) >= 1

PlanInv == PlanTypes /\ RevisionsTrue /\ ListingTrue /\ PlanFilled

LEMMA RecordsSeq ==
  ASSUME NEW S, NEW s \in Seq(S)
  PROVE  s \in Seq(Recorded(s)) /\ Len(s) \in Nat /\ DOMAIN s = 1 .. Len(s)
  <1>1. Len(s) \in Nat /\ DOMAIN s = 1 .. Len(s)
    BY LenProperties
  <1>2. s \in [1 .. Len(s) -> Recorded(s)]
    BY <1>1, LenProperties DEF Recorded
  <1> QED BY <1>1, <1>2, SeqDef

LEMMA EmptyPlan == <<>> \in Seq(Recorded(<<>>)) /\ Len(<<>>) = 0
  BY EmptySeq

LEMMA PlanInit == MCInit => PlanInv
  BY EmptyPlan DEF MCInit, Planning!Init, Planning!NoArchive, PlanInv, PlanTypes, Archived,
     RevisionsTrue, ListingTrue, PlanFilled

LEMMA ListStep == PlanInv /\ Planning!List => PlanInv' /\ plan' = <<>>
  <1> SUFFICES ASSUME PlanInv, Planning!List PROVE PlanInv' /\ plan' = <<>>
    OBVIOUS
  <1>1. /\ cursor' = 1 /\ plan' = <<>> /\ phase' = "classify" /\ UNCHANGED <<remote, archive>>
    BY DEF Planning!List
  <1>2. PICK n \in 1 .. MaxListed : \E ds \in [1 .. n -> Planning!Descriptors] :
          listing' = [i \in 1 .. n |->
            [id |-> ds[i].id, position |-> ds[i].position, content |-> remote[ds[i].id],
             revision |-> IF ds[i].known THEN remote[ds[i].id] ELSE Unknown]]
    BY DEF Planning!List
  <1>3. PICK ds \in [1 .. n -> Planning!Descriptors] :
          listing' = [i \in 1 .. n |->
            [id |-> ds[i].id, position |-> ds[i].position, content |-> remote[ds[i].id],
             revision |-> IF ds[i].known THEN remote[ds[i].id] ELSE Unknown]]
    BY <1>2
  <1>4. n \in Nat \ {0}
    OBVIOUS
  <1>5. Len(listing') = n
    BY <1>3, <1>4
  <1>6. \A i \in 1 .. n :
          /\ listing'[i].id \in Sources
          /\ listing'[i].revision # Unknown => listing'[i].revision = listing'[i].content
    BY <1>3 DEF Planning!Descriptors
  <1>7. PlanTypes' /\ RevisionsTrue' /\ PlanFilled'
    BY <1>1, EmptyPlan DEF PlanInv, PlanTypes, RevisionsTrue, PlanFilled
  <1> QED BY <1>1, <1>4, <1>5, <1>6, <1>7 DEF PlanInv, ListingTrue

(* What a step that skips a source has made sure of. *)
SkipsUnchanged ==
  (\E i \in DOMAIN plan' : i > Len(plan) /\ plan'[i].action = "skip-verified-unchanged") =>
    LET d == listing[cursor]  a == archive[d.id] IN
    a.pointer = "readable" /\ a.bundle /\ a.intact /\ a.content = d.content

LEMMA SkipDecision ==
  ASSUME PlanInv, phase = "classify", cursor \in 1 .. Len(listing), NEW p \in Planning!PriorStatus,
         Planning!Action(listing[cursor], p) = "skip-verified-unchanged"
  PROVE  LET d == listing[cursor]  a == archive[d.id] IN
         a.pointer = "readable" /\ a.bundle /\ a.intact /\ a.content = d.content
  <1> DEFINE d == listing[cursor]
             a == archive[d.id]
  <1>1. /\ d.id \in Sources /\ (d.revision # Unknown => d.revision = d.content)
        /\ (a.revision # Unknown => a.revision = a.content)
    BY DEF PlanInv, ListingTrue, RevisionsTrue
  <1> HIDE DEF d
  <1>2. Planning!EvaluateCache(d).decision = "skip"
    BY DEF Planning!Action, d
  <1> HIDE DEF a
  <1>3. /\ a.pointer = "readable" /\ a.bundle /\ a.intact
        /\ d.revision # Unknown /\ a.revision # Unknown /\ a.revision = d.revision
    BY <1>2 DEF Planning!EvaluateCache, a
  <1> QED BY <1>1, <1>3 DEF a, d

LEMMA ClassifyStep == PlanInv /\ Planning!Classify => PlanInv' /\ SkipsUnchanged
  <1> SUFFICES ASSUME PlanInv, Planning!Classify PROVE PlanInv' /\ SkipsUnchanged
    OBVIOUS
  <1>1. /\ phase = "classify" /\ cursor <= Len(listing)
        /\ UNCHANGED <<remote, archive, listing, options>>
    BY DEF Planning!Classify
  <1>2. /\ Len(listing) \in Nat /\ cursor \in Nat /\ cursor >= 1 /\ cursor \in 1 .. Len(listing)
        /\ Len(plan) \in Nat /\ DOMAIN plan = 1 .. Len(plan)
    BY <1>1, RecordsSeq DEF PlanInv, PlanTypes, ListingTrue, PlanFilled
  <1>3. PICK p \in Planning!PriorStatus :
          LET d == listing[cursor] IN
          IF \E i \in DOMAIN plan : plan[i].id = d.id
            THEN cursor' = cursor + 1 /\ UNCHANGED <<plan, phase>>
            ELSE /\ plan' = Append(plan, [id |-> d.id, position |-> d.position,
                                          action |-> Planning!Action(d, p), decision |-> "none"])
                 /\ IF options.force
                         \/ Planning!Action(d, p) \in {"resume-incomplete", "retry-failed"}
                      THEN cursor' = cursor + 1 /\ UNCHANGED phase
                      ELSE phase' = "attach" /\ UNCHANGED cursor
    BY DEF Planning!Classify
  <1>4. CASE \E i \in DOMAIN plan : plan[i].id = listing[cursor].id
    <2>1. cursor' = cursor + 1 /\ UNCHANGED <<plan, phase>>
      BY <1>3, <1>4
    <2>2. Len(plan) >= 1
      BY <1>2, <1>4
    <2>3. PlanInv'
      BY <1>1, <1>2, <2>1, <2>2 DEF PlanInv, PlanTypes, RevisionsTrue, ListingTrue, PlanFilled
    <2> QED BY <1>2, <2>1, <2>3 DEF SkipsUnchanged
  <1>5. CASE ~\E i \in DOMAIN plan : plan[i].id = listing[cursor].id
    <2> DEFINE new == [id |-> listing[cursor].id, position |-> listing[cursor].position,
                       action |-> Planning!Action(listing[cursor], p), decision |-> "none"]
    <2>1. plan' = Append(plan, new)
      BY <1>3, <1>5
    <2>2. new.action = Planning!Action(listing[cursor], p)
      OBVIOUS
    <2> HIDE DEF new
    <2>3. PICK n \in Nat : n = Len(plan) /\ DOMAIN plan = 1 .. n
      BY <1>2
    <2>4. plan \in Seq(Recorded(plan) \cup {new})
      <3>1. plan \in Seq(Recorded(plan))
        BY DEF PlanInv, PlanFilled
      <3> QED BY <3>1, SeqMonotonic
    <2>5. /\ plan' \in Seq(Recorded(plan')) /\ Len(plan') = n + 1 /\ DOMAIN plan' = 1 .. n + 1
          /\ plan'[n + 1] = new
      <3>1. /\ plan' \in Seq(Recorded(plan) \cup {new}) /\ Len(plan') = n + 1
            /\ plan'[n + 1] = new
        BY <2>1, <2>3, <2>4, AppendProperties
      <3> QED BY <2>3, <3>1, RecordsSeq
    <2>6. \/ cursor' = cursor + 1 /\ UNCHANGED phase
          \/ phase' = "attach" /\ UNCHANGED cursor
      BY <1>3, <1>5
    <2>7. PlanInv'
      BY <1>1, <1>2, <2>3, <2>5, <2>6
         DEF PlanInv, PlanTypes, RevisionsTrue, ListingTrue, PlanFilled
    <2>8. \A i \in DOMAIN plan' : i > Len(plan) => i = n + 1
      BY <2>3, <2>5
    <2>9. SkipsUnchanged
      BY <1>1, <1>2, <2>2, <2>5, <2>8, SkipDecision DEF SkipsUnchanged
    <2> QED BY <2>7, <2>9
  <1> QED BY <1>4, <1>5

LEMMA AttachStep ==
  PlanInv /\ Planning!Attach => PlanInv' /\ Len(plan') = Len(plan) /\ DOMAIN plan' = DOMAIN plan
  <1> SUFFICES ASSUME PlanInv, Planning!Attach
               PROVE  PlanInv' /\ Len(plan') = Len(plan) /\ DOMAIN plan' = DOMAIN plan
    OBVIOUS
  <1>1. /\ phase = "attach" /\ phase' = "classify" /\ cursor' = cursor + 1
        /\ UNCHANGED <<remote, archive, listing, options>>
    BY DEF Planning!Attach
  <1>2. PICK n \in Nat : n = Len(plan) /\ DOMAIN plan = 1 .. n /\ n >= 1
    BY <1>1, RecordsSeq DEF PlanInv, PlanFilled
  <1>3. DOMAIN plan' = DOMAIN plan
    BY DEF Planning!Attach
  <1>4. plan' \in Seq(Recorded(plan')) /\ Len(plan') = n
    <2>1. plan' \in [1 .. n -> Recorded(plan')]
      BY <1>2 DEF Planning!Attach, Recorded
    <2>2. plan' \in Seq(Recorded(plan'))
      BY <2>1, SeqDef
    <2> QED BY <1>2, <1>3, <2>2, RecordsSeq
  <1>5. cursor \in Nat /\ cursor >= 1
    BY <1>1 DEF PlanInv, PlanFilled, PlanTypes, ListingTrue
  <1>6. PlanInv'
    BY <1>1, <1>2, <1>3, <1>4, <1>5
       DEF PlanInv, PlanTypes, RevisionsTrue, ListingTrue, PlanFilled
  <1> QED BY <1>2, <1>3, <1>4, <1>6

(* The plan that is ordered is no longer than it was. *)
LEMMA OrderStep ==
  PlanInv /\ Planning!Order => PlanInv' /\ DOMAIN plan' = 1 .. Len(plan') /\ Len(plan') <= Len(plan)
  <1> SUFFICES ASSUME PlanInv, Planning!Order
               PROVE  /\ PlanInv' /\ DOMAIN plan' = 1 .. Len(plan')
                      /\ Len(plan') <= Len(plan)
    OBVIOUS
  <1>1. /\ phase = "classify" /\ cursor > Len(listing) /\ phase' = "planned"
        /\ UNCHANGED <<remote, archive, listing, options, cursor>>
    BY DEF Planning!Order
  <1>2. PICK n \in Nat : n = Len(plan) /\ n >= 1
    <2>1. Len(plan) \in Nat
      BY RecordsSeq DEF PlanInv, PlanFilled
    <2>2. cursor > 1
      BY <1>1 DEF PlanInv, PlanTypes, ListingTrue
    <2> QED BY <1>1, <2>1, <2>2 DEF PlanInv, PlanFilled
  <1>3. PICK m \in {1, n} : plan' = SubSeq(Planning!Ordered(plan), 1, m)
    BY <1>2 DEF Planning!Order
  <1> DEFINE s == Planning!Ordered(plan)
             S == {s[i] : i \in 1 .. m}
  <1> HIDE DEF Planning!Ordered
  <1>4. m \in Nat /\ m >= 1 /\ m <= n /\ \A i \in 1 .. m : s[i] \in S
    BY <1>2
  <1>5. /\ SubSeq(s, 1, m) \in Seq(S)
        /\ Len(SubSeq(s, 1, m)) = IF 1 <= m THEN m - 1 + 1 ELSE 0
    <2> HIDE DEF S, s
    <2>1. 1 \in Int /\ m \in Int
      BY <1>4
    <2> QED BY <1>4, <2>1, SubSeqProperties
  <1>6. plan' \in Seq(S) /\ Len(plan') = m
    BY <1>3, <1>4, <1>5
  <1>7. plan' \in Seq(Recorded(plan')) /\ DOMAIN plan' = 1 .. Len(plan')
    BY <1>6, RecordsSeq
  <1>8. PlanInv'
    BY <1>1, <1>4, <1>6, <1>7 DEF PlanInv, PlanTypes, RevisionsTrue, ListingTrue, PlanFilled
  <1> QED BY <1>2, <1>4, <1>6, <1>7, <1>8

LEMMA MeanwhileStep ==
  ASSUME PlanInv, NEW s \in Sources,
         Planning!Edit(s) \/ Planning!Archive(s) \/ Planning!Damage(s)
  PROVE  PlanInv' /\ plan' = plan
  <1>1. UNCHANGED <<listing, options, cursor, plan, phase>>
    BY DEF Planning!Edit, Planning!Archive, Planning!Damage, Planning!Meanwhile
  <1>2. remote' \in [Sources -> Nat]
    BY DEF Planning!Edit, Planning!Archive, Planning!Damage, PlanInv, PlanTypes
  <1>3. archive' \in [Sources -> Archived] /\ RevisionsTrue'
    <2>1. archive[s] \in Archived /\ archive \in [Sources -> Archived] /\ remote[s] \in Nat
      BY DEF PlanInv, PlanTypes
    <2>2. CASE Planning!Edit(s)
      BY <2>1, <2>2 DEF Planning!Edit, PlanInv, RevisionsTrue
    <2>3. CASE Planning!Archive(s)
      BY <2>1, <2>3 DEF Planning!Archive, PlanInv, RevisionsTrue, Archived
    <2>4. CASE Planning!Damage(s)
      <3>1. \E a \in Archived :
              /\ archive' = [archive EXCEPT ![s] = a]
              /\ a.content = archive[s].content /\ a.revision = archive[s].revision
        <4>1. /\ [archive[s] EXCEPT !.intact = FALSE] \in Archived
              /\ [archive[s] EXCEPT !.bundle = FALSE] \in Archived
              /\ [archive[s] EXCEPT !.pointer = "unreadable"] \in Archived
          BY <2>1 DEF Archived
        <4> QED BY <2>1, <2>4, <4>1 DEF Planning!Damage, Archived
      <3> QED BY <2>1, <3>1 DEF PlanInv, RevisionsTrue, Archived
    <2> QED BY <2>2, <2>3, <2>4
  <1>4. PlanTypes' /\ ListingTrue' /\ PlanFilled'
    BY <1>1, <1>2, <1>3 DEF PlanInv, PlanTypes, ListingTrue, PlanFilled
  <1> QED BY <1>1, <1>3, <1>4 DEF PlanInv

LEMMA PlanStep == PlanInv /\ [MCNext]_all => PlanInv' /\ [SkipsUnchanged]_planVars
  <1> SUFFICES ASSUME PlanInv, [MCNext]_all PROVE PlanInv' /\ [SkipsUnchanged]_planVars
    OBVIOUS
  <1>1. /\ Len(plan) \in Nat /\ DOMAIN plan = 1 .. Len(plan)
        /\ \A i \in DOMAIN plan : ~(i > Len(plan))
    BY RecordsSeq DEF PlanInv, PlanFilled
  <1>2. CASE Planning!Next
    <2>1. CASE Planning!List
      BY <2>1, ListStep DEF SkipsUnchanged
    <2>2. CASE Planning!Classify
      BY <2>2, ClassifyStep
    <2>3. CASE Planning!Attach
      BY <1>1, <2>3, AttachStep DEF SkipsUnchanged
    <2>4. CASE Planning!Order
      <3>1. PlanInv' /\ DOMAIN plan' = 1 .. Len(plan') /\ Len(plan') <= Len(plan)
        BY <2>4, OrderStep
      <3>2. Len(plan') \in Nat
        BY <3>1, RecordsSeq DEF PlanInv, PlanFilled
      <3>3. \A i \in DOMAIN plan' : ~(i > Len(plan))
        BY <1>1, <3>1, <3>2
      <3> QED BY <3>1, <3>3 DEF SkipsUnchanged
    <2>5. ASSUME NEW s \in Sources,
                 Planning!Edit(s) \/ Planning!Archive(s) \/ Planning!Damage(s)
          PROVE  PlanInv' /\ [SkipsUnchanged]_planVars
      BY <1>1, <2>5, MeanwhileStep DEF SkipsUnchanged
    <2> QED BY <1>2, <2>1, <2>2, <2>3, <2>4, <2>5 DEF Planning!Next, Planning!Process
  <1>3. CASE UNCHANGED planVars
    BY <1>3 DEF planVars, PlanInv, PlanTypes, RevisionsTrue, ListingTrue, PlanFilled
  <1> QED BY <1>2, <1>3 DEF MCNext, all

(* Whatever is edited, archived and damaged meanwhile, in any order, sync  *)
(* skips a source only on the word of an archive that is whole at that     *)
(* moment and holds what the provider listed.                              *)
THEOREM SkipsAreUnchanged == MCSpec => SkipMeansUnchanged
  <1>1. planVars = Planning!planVars
    BY DEF planVars, Planning!planVars
  <1>2. MCInit => PlanInv
    BY PlanInit
  <1>3. PlanInv /\ [MCNext]_all => PlanInv'
    BY PlanStep
  <1>4. PlanInv /\ [MCNext]_all => [SkipsUnchanged]_planVars
    BY PlanStep
  <1> QED BY <1>2, <1>3, <1>4, PTL
          DEF MCSpec, SkipMeansUnchanged, Planning!SkipMeansUnchanged, SkipsUnchanged,
              planVars, Planning!planVars
=============================================================================
