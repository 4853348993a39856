------------------------ MODULE FirmwareStore_proofs ------------------------
(***************************************************************************)
(* Type correctness of FirmwareStore, and FirmwareIsKept when imports do   *)
(* not overlap, for every set of images and number of imports.             *)
(***************************************************************************)
EXTENDS FirmwareStore, TLAPS

-----------------------------------------------------------------------------
(* The inductive invariant *)

\* What the generation of image img is once both files are written
Pair(img) == [contents |-> img, metadata |-> img,
              synced |-> {"contents", "metadata"}]

\* The staging directory of an import on its way to the rename
Staged ==
  \A i \in Importers :
    /\ at[i] # "idle" => image[i] \in Images
    /\ at[i] = "contents" => staging[i] = Empty
    /\ at[i] = "metadata" =>
         staging[i] = [contents |-> image[i], metadata |-> None,
                       synced |-> {"contents"}]
    /\ at[i] \in {"sync", "rename"} => staging[i] = Pair(image[i])

\* From the rename to its end the active generation is the import's own.
Placed ==
  \A i \in Importers :
    /\ at[i] \in {"commit", "undo"} => active = Pair(image[i])
    /\ at[i] = "undo" => placed[i] = "swapped"

\* Once an import has committed, only whole generations of the images
\* that count are found or brought back, also by an import that fails.
Safe(generation) == \E img \in kept : generation = Pair(img)

Keeps ==
  kept # {} =>
    /\ \A generation \in recent \union {active} : Safe(generation)
    /\ \A i \in Importers :
         /\ at[i] # "idle" => image[i] \in kept
         /\ at[i] \in {"commit", "undo"} =>
              placed[i] = "swapped" /\ Safe(staging[i])
         /\ at[i] # "retract"

Matched == loaded # None => loaded.contents = loaded.version

IInv == TypeOK /\ Staged /\ Placed /\ Keeps /\ Matched

-----------------------------------------------------------------------------
(* Type correctness *)

\* A generation with one file replaced is a generation.
LEMMA FileFields ==
  ASSUME NEW g \in Generations, NEW file \in {"contents", "metadata"},
         NEW f \in Files
  PROVE  /\ [g EXCEPT ![file] = f] \in Generations
         /\ [g EXCEPT ![file] = f, !.synced = @ \union {file}] \in Generations
<1>1. CASE file = "contents"
  BY <1>1 DEF Generations
<1>2. CASE file = "metadata"
  BY <1>2 DEF Generations
<1> QED
  BY <1>1, <1>2

\* The values the fields of a generation are built from.
LEMMA GenerationValues ==
  /\ Empty \in Generations
  /\ None \in Files
  /\ Images \subseteq Files
BY DEF Empty, Generations, Files

\* The initial store satisfies the whole invariant.
LEMMA Initially == Init => IInv
<1> SUFFICES ASSUME Init PROVE IInv
  OBVIOUS
<1> USE StoreAssumption DEF Init
<1>1. TypeOK
  BY DEF TypeOK, Steps, Files, Generations
<1>2. Staged
  BY DEF Staged
<1>3. Placed
  BY DEF Placed
<1>4. Keeps
  BY DEF Keeps
<1>5. Matched
  BY DEF Matched
<1> QED
  BY <1>1, <1>2, <1>3, <1>4, <1>5 DEF IInv

\* hplj_write_private turns an empty directory into one with the contents, and
\* that into a pair.
LEMMA WrittenValues ==
  ASSUME NEW img \in Images
  PROVE  /\ [Empty EXCEPT !["contents"] = img, !.synced = @ \union {"contents"}]
            = [contents |-> img, metadata |-> None, synced |-> {"contents"}]
         /\ [[contents |-> img, metadata |-> None, synced |-> {"contents"}]
               EXCEPT !["metadata"] = img, !.synced = @ \union {"metadata"}]
            = Pair(img)
<1> DEFINE first == [contents |-> img, metadata |-> None,
                     synced |-> {"contents"}]
<1> DEFINE Extended(g, file) ==
             [g EXCEPT ![file] = img, !.synced = @ \union {file}]
<1>1. Empty \in Generations /\ first \in Generations /\ img \in Files
  BY GenerationValues DEF Generations, Files
<1>2. ASSUME NEW g \in Generations
      PROVE  g = [contents |-> g.contents, metadata |-> g.metadata,
                  synced |-> g.synced]
  BY DEF Generations
<1>3. Extended(Empty, "contents") = first
  <2>1. Extended(Empty, "contents") \in Generations
    BY <1>1, FileFields
  <2>2. /\ Extended(Empty, "contents").contents = img
        /\ Extended(Empty, "contents").metadata = None
        /\ Extended(Empty, "contents").synced = {} \union {"contents"}
    BY DEF Empty
  <2>3. {} \union {"contents"} = {"contents"}
    OBVIOUS
  <2> HIDE DEF Extended
  <2> QED
    BY <1>2, <2>1, <2>2, <2>3
<1>4. Extended(first, "metadata") = Pair(img)
  <2>1. Extended(first, "metadata") \in Generations
    BY <1>1, FileFields
  <2>2. /\ Extended(first, "metadata").contents = img
        /\ Extended(first, "metadata").metadata = img
        /\ Extended(first, "metadata").synced = {"contents"} \union {"metadata"}
    OBVIOUS
  <2>3. {"contents"} \union {"metadata"} = {"contents", "metadata"}
    OBVIOUS
  <2> QED
    BY <1>2, <2>1, <2>2, <2>3 DEF Pair
<1> QED
  BY <1>3, <1>4

\* What an import has staged is a generation.
LEMMA StagedValues ==
  ASSUME NEW img \in Images
  PROVE  /\ Pair(img) \in Generations
         /\ [contents |-> img, metadata |-> None, synced |-> {"contents"}]
              \in Generations
BY DEF Pair, Generations, Files

\* The part of the invariant that needs no assumption on the imports: every
\* import stages a pair of its own, in whatever order they run.
LEMMA StagedStep == TypeOK /\ Staged /\ [Next]_vars => TypeOK' /\ Staged'
<1> SUFFICES ASSUME TypeOK, Staged, [Next]_vars PROVE TypeOK' /\ Staged'
  OBVIOUS
<1> USE StoreAssumption DEF TypeOK, Steps, Goto, store, imports, service
<1>1. ASSUME NEW i \in Importers, NEW img \in Images, Begin(i, img)
      PROVE  TypeOK' /\ Staged'
  <2>1. TypeOK'
    BY <1>1, GenerationValues DEF Begin
  <2>2. Staged'
    BY <1>1 DEF Begin, Staged
  <2> QED
    BY <2>1, <2>2
<1>2. ASSUME NEW i \in Importers, Write(i, "contents", "metadata")
      PROVE  TypeOK' /\ Staged'
  <2>1. image[i] \in Images /\ staging[i] = Empty /\ at[i] = "contents"
    BY <1>2 DEF Staged, Write
  <2>2. Written(i, "contents")
          = [contents |-> image[i], metadata |-> None, synced |-> {"contents"}]
    BY <2>1, WrittenValues DEF Written
  <2>3. Written(i, "contents") \in Generations
    BY <2>1, <2>2, StagedValues
  <2>4. TypeOK'
    BY <1>2, <2>3 DEF Write
  <2>5. Staged'
    BY <1>2, <2>1, <2>2 DEF Write, Staged
  <2> QED
    BY <2>4, <2>5
<1>3. ASSUME NEW i \in Importers, Write(i, "metadata", "sync")
      PROVE  TypeOK' /\ Staged'
  <2>1. /\ image[i] \in Images /\ at[i] = "metadata"
        /\ staging[i] = [contents |-> image[i], metadata |-> None,
                         synced |-> {"contents"}]
    BY <1>3 DEF Staged, Write
  <2>2. Written(i, "metadata") = Pair(image[i])
    BY <2>1, WrittenValues DEF Written
  <2>3. Written(i, "metadata") \in Generations
    BY <2>1, <2>2, StagedValues
  <2>4. TypeOK'
    BY <1>3, <2>3 DEF Write
  <2>5. Staged'
    BY <1>3, <2>1, <2>2 DEF Write, Staged
  <2> QED
    BY <2>4, <2>5
<1>4. ASSUME NEW i \in Importers, SyncStaging(i)
      PROVE  TypeOK' /\ Staged'
  BY <1>4 DEF SyncStaging, Staged
<1>5. ASSUME NEW i \in Importers, Rename(i)
      PROVE  TypeOK' /\ Staged'
  <2>1. staging[i] \in Generations
    <3>1. staging[i] = Pair(image[i]) /\ image[i] \in Images
      BY <1>5 DEF Rename, Staged
    <3> QED
      BY <3>1, StagedValues
  <2>2. TypeOK'
    BY <1>5, <2>1 DEF Rename, Designate
  <2>3. Staged'
    BY <1>5 DEF Rename, Staged
  <2> QED
    BY <2>2, <2>3
<1>6. ASSUME NEW i \in Importers, Commit(i)
      PROVE  TypeOK' /\ Staged'
  BY <1>6 DEF Commit, Staged
<1>7. ASSUME NEW i \in Importers, Undo(i)
      PROVE  TypeOK' /\ Staged'
  BY <1>7 DEF Undo, Designate, Staged
<1>8. ASSUME NEW i \in Importers, Retract(i)
      PROVE  TypeOK' /\ Staged'
  <2>1. /\ active # None => [active EXCEPT !.contents = None] \in Generations
        /\ active # None => [active EXCEPT !.metadata = None] \in Generations
    BY DEF Generations, Files
  <2> QED
    BY <1>8, <2>1 DEF Retract, Designate, Staged
<1>9. ASSUME NEW i \in Importers, Discard(i) \/ Kill(i)
      PROVE  TypeOK' /\ Staged'
  BY <1>9 DEF Discard, Kill, Staged
<1>10. CASE ReadContents
  <2>1. active.contents \in Files
    BY <1>10 DEF ReadContents, Generations
  <2> QED
    BY <1>10, <2>1 DEF ReadContents, Staged
<1>11. CASE ReadMetadata
  <2>1. Staged'
    BY <1>11 DEF ReadMetadata, Staged
  <2>2. CASE Matching
    <3>1. loading \in Images /\ active.metadata \in Images
      BY <2>2 DEF Matching
    <3> QED
      BY <1>11, <2>1, <2>2, <3>1 DEF ReadMetadata, Files
  <2>3. CASE ~Matching
    BY <1>11, <2>1, <2>3 DEF ReadMetadata, Forget, Files
  <2> QED
    BY <2>2, <2>3
<1>12. CASE ReadFails \/ ServiceRestarts
  BY <1>12 DEF ReadFails, ServiceRestarts, Forget, Files, Staged
<1>13. CASE PowerLoss
  BY <1>13 DEF PowerLoss, Files, Staged
<1>14. CASE UNCHANGED vars
  BY <1>14 DEF vars, Staged
<1> QED
  BY <1>1, <1>2, <1>3, <1>4, <1>5, <1>6, <1>7, <1>8, <1>9, <1>10, <1>11,
     <1>12, <1>13, <1>14 DEF Next, Import

\* What is loaded was read as a pair, whatever happens between the two reads.
LEMMA MatchedStep == Matched /\ [Next]_vars => Matched'
<1> SUFFICES ASSUME Matched, [Next]_vars PROVE Matched'
  OBVIOUS
<1> USE DEF Matched, service
<1>1. ASSUME NEW i \in Importers, Import(i) PROVE Matched'
  BY <1>1 DEF Import, Begin, Write, SyncStaging, Rename, Commit, Undo, Retract,
              Discard, Kill
<1>2. CASE ReadMetadata
  BY <1>2 DEF ReadMetadata, Matching
<1>3. CASE ReadContents \/ ReadFails \/ ServiceRestarts \/ PowerLoss
  BY <1>3 DEF ReadContents, ReadFails, ServiceRestarts, PowerLoss
<1>4. CASE UNCHANGED vars
  BY <1>4 DEF vars
<1> QED
  BY <1>1, <1>2, <1>3, <1>4 DEF Next

-----------------------------------------------------------------------------
(* One import at a time *)

\* There is one import at a time: nothing in the store enforces it.
OneAtATime == \A i, j \in Importers : i = j

\* A synced pair comes back from a power loss as it was.
LEMMA PairSurvives ==
  ASSUME NEW img \in Images, NEW found, Survives(Pair(img), found)
  PROVE  found = Pair(img)
<1>1. Pair(img) # None
  BY StoreAssumption, StagedValues
<1> QED
  BY <1>1 DEF Survives, Pair, Generations

\* A step of the import itself keeps what it has renamed, and what comes back
\* when it fails, among the images that count.
LEMMA ImportKeeps ==
  ASSUME OneAtATime, TypeOK, Staged, Placed, Keeps,
         NEW i \in Importers, Import(i)
  PROVE  Placed' /\ Keeps'
<1> USE StoreAssumption DEF OneAtATime, TypeOK, Goto, store, imports, service,
                            Placed, Keeps
<1>1. ASSUME NEW img \in Images, Begin(i, img) PROVE Placed' /\ Keeps'
  BY <1>1 DEF Begin, Safe
<1>2. CASE Write(i, "contents", "metadata") \/ Write(i, "metadata", "sync")
  BY <1>2 DEF Write, Safe
<1>3. CASE SyncStaging(i)
  BY <1>3 DEF SyncStaging, Safe
<1>4. CASE Rename(i)
  <2>1. staging[i] = Pair(image[i]) /\ at[i] = "rename"
    BY <1>4 DEF Rename, Staged
  <2>2. Placed'
    BY <1>4, <2>1 DEF Rename, Designate
  <2>3. kept # {} => active # None
    <3>1. ASSUME NEW img \in kept, active = Pair(img) PROVE active # None
      <4>1. img \in Images
        OBVIOUS
      <4> QED
        BY <3>1, <4>1, StagedValues
    <3> QED
      BY <3>1 DEF Safe
  <2>4. Keeps'
    BY <1>4, <2>1, <2>3 DEF Rename, Designate, Safe
  <2> QED
    BY <2>2, <2>4
<1>5. CASE Commit(i)
  <2>1. active = Pair(image[i]) /\ image[i] \in Images /\ at[i] = "commit"
    BY <1>5 DEF Commit, Staged
  <2>2. Placed'
    BY <1>5 DEF Commit
  <2>3. CASE recent' = {active} /\ image[i] \in kept'
    BY <1>5, <2>1, <2>3 DEF Commit, Safe
  <2>4. CASE UNCHANGED <<recent, kept>>
             /\ at' = [at EXCEPT ![i] = IF placed[i] = "swapped"
                                        THEN "undo" ELSE "retract"]
    BY <1>5, <2>1, <2>4 DEF Commit, Safe
  <2> QED
    BY <1>5, <2>1, <2>2, <2>3, <2>4 DEF Commit
<1>6. CASE Undo(i)
  BY <1>6 DEF Undo, Designate, Safe
<1>7. CASE Retract(i)
  BY <1>7 DEF Retract, Designate, Safe
<1>8. CASE Discard(i) \/ Kill(i)
  BY <1>8 DEF Discard, Kill, Safe
<1> QED
  BY <1>1, <1>2, <1>3, <1>4, <1>5, <1>6, <1>7, <1>8 DEF Import

\* The service and a power loss keep them, too.
LEMMA OthersKeep ==
  ASSUME TypeOK, Staged, Placed, Keeps,
         \/ ReadContents \/ ReadMetadata \/ ReadFails \/ ServiceRestarts
         \/ PowerLoss \/ UNCHANGED vars
  PROVE  Placed' /\ Keeps'
<1> USE DEF Placed, Keeps, store, imports, service
<1>1. CASE PowerLoss
  <2>1. \A img \in kept : img \in Images
    BY DEF TypeOK
  <2>2. kept' = kept /\ at' = [i \in Importers |-> "idle"]
    BY <1>1 DEF PowerLoss
  <2>3. kept # {} => recent' = {active'} /\ \E img \in kept : active' = Pair(img)
    BY <1>1, <2>1, PairSurvives DEF PowerLoss, Safe
  <2> QED
    BY <2>2, <2>3 DEF Safe
<1>2. CASE ReadContents \/ ReadMetadata \/ ReadFails \/ ServiceRestarts
  BY <1>2 DEF ReadContents, ReadMetadata, ReadFails, ServiceRestarts, Safe
<1>3. CASE UNCHANGED vars
  BY <1>3 DEF vars, Safe
<1> QED
  BY <1>1, <1>2, <1>3

LEMMA Inductive == OneAtATime /\ IInv /\ [Next]_vars => IInv'
<1> SUFFICES ASSUME OneAtATime, IInv, [Next]_vars PROVE IInv'
  OBVIOUS
<1> USE DEF IInv
<1>1. TypeOK' /\ Staged'
  BY StagedStep
<1>2. Matched'
  BY MatchedStep
<1>3. Placed' /\ Keeps'
  BY ImportKeeps, OthersKeep DEF Next
<1> QED
  BY <1>1, <1>2, <1>3

-----------------------------------------------------------------------------
(* The theorems *)

\* Types, whatever the number of imports at a time.
THEOREM TypeCorrect == Spec => []TypeOK
<1>1. Init => TypeOK /\ Staged
  BY Initially DEF IInv
<1> QED
  BY <1>1, StagedStep, PTL DEF Spec

\* The service never bootstraps from a mixture of two generations
\* (hplj_load_firmware), whatever the number of imports at a time.
THEOREM LoadedIsAPair == Spec => []Matched
<1>1. Init => Matched
  BY Initially DEF IInv
<1> QED
  BY <1>1, MatchedStep, PTL DEF Spec

\* hplj_local_commit: with one import at a time the committed firmware stays
\* whole, whatever fails, is killed or loses power in the imports that follow.
THEOREM FirmwareKept == OneAtATime /\ Spec => []FirmwareIsKept
<1>1. IInv => FirmwareIsKept
  <2> SUFFICES ASSUME IInv PROVE FirmwareIsKept
    OBVIOUS
  <2>1. ASSUME NEW img \in kept
        PROVE  Whole(Pair(img)) /\ Pair(img).contents \in kept
    <3>1. img \in Images
      BY DEF IInv, TypeOK
    <3>2. Pair(img) # None
      BY <3>1, StoreAssumption, StagedValues
    <3> QED
      BY <3>1, <3>2 DEF Whole, Pair
  <2> QED
    BY <2>1 DEF IInv, Keeps, Safe, Matched, FirmwareIsKept
<1>2. SUFFICES ASSUME OneAtATime PROVE Spec => []FirmwareIsKept
  OBVIOUS
<1>3. IInv /\ [Next]_vars => IInv'
  BY <1>2, Inductive
<1> QED
  BY <1>1, <1>3, Initially, PTL DEF Spec
=============================================================================
