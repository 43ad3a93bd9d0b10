------------------------- MODULE SymbolStoreProofs -------------------------
(* Proofs about SymbolStore for any set of threads, of file ids and of      *)
(* names.                                                                   *)
EXTENDS SymbolStoreRefinement, FiniteSetTheorems, WellFoundedInduction, TLAPS

(* A thread past a step knows the file, or the name, it works on. *)
JobKnown ==
    \A w \in Worker :
        /\ pc[w] \in {"store", "insert", "scanRanges", "scanStrings", "remove",
                      "retain", "scanFrames", "resolve", "unknown"}
               => jobFile[w] \in FileId
        /\ pc[w] \in {"extract", "store", "insert", "readIndex"}
               => jobName[w] \in Name

(* A scan that found nothing is still right, unless a load came after it. *)
ScanHolds ==
    \A w \in Worker :
        /\ pc[w] \in {"scanStrings", "remove"} /\ "ranges" \notin saw[w]
               => jobFile[w] \notin ranges \/ jobFile[w] \in raced
        /\ pc[w] = "remove" /\ "strings" \notin saw[w]
               => jobFile[w] \notin strings \/ jobFile[w] \in raced

(* Between a commit and its index update, the metadata is as the commit     *)
(* left it, unless the other kind of operation committed in between.        *)
CommitHolds ==
    \A w \in Worker :
        /\ pc[w] = "insert" /\ files[jobFile[w]] = NoName => jobFile[w] \in raced
        /\ pc[w] = "retain" /\ files[jobFile[w]] # NoName => jobFile[w] \in raced

(* A lookup that found ranges finds their strings, unless overtaken. *)
FramesHold ==
    \A w \in Worker :
        pc[w] = "resolve" /\ jobFile[w] \notin strings
            => w \in overtaken \/ jobFile[w] \in raced

IInv ==
    /\ TypeOK /\ JobKnown
    /\ ListedIsComplete /\ OrphansAreRaced /\ ScanHolds
    /\ CommitHolds /\ IndexNamesStored /\ StoredIsIndexed
    /\ FramesHold /\ UnknownIsOvertaken

USE StoreAssumption

LEMMA IInvInit == Init => IInv
BY DEF Init, IInv, TypeOK, JobKnown, ListedIsComplete, OrphansAreRaced,
       Orphaned, ScanHolds, CommitHolds, IndexNamesStored, StoredIsIndexed,
       FramesHold, UnknownIsOvertaken

----------------------------------------------------------------------------
(* Of finitely many ids, one is the greatest: the one with the fewest ids   *)
(* above it.                                                                *)
LEMMA GreatestId ==
    ASSUME NEW S \in SUBSET FileId, S # {}
    PROVE  \E f \in S : \A g \in S : g <= f
<1> DEFINE Above(f) == {g \in FileId : f < g}
           Family == {Above(f) : f \in S}
<1>1. IsWellFoundedOn(StrictSubsetOrdering(FileId), SUBSET FileId)
  BY FS_StrictSubsetOrderingWellFounded, FS_FiniteSubsetsOfFinite
<1>2. Family \subseteq SUBSET FileId /\ Family # {}
  OBVIOUS
<1>3. PICK U \in Family :
          \A V \in Family : ~(<<V, U>> \in StrictSubsetOrdering(FileId))
  <2> HIDE DEF Family
  <2> QED
    BY <1>1, <1>2, WFMin
<1>4. PICK f \in S : U = Above(f)
  OBVIOUS
<1>5. ASSUME NEW g \in S, ~(g <= f) PROVE FALSE
  <2>1. f \in Nat /\ g \in Nat /\ f < g
    BY <1>5
  <2>2. Above(g) \in Family
    OBVIOUS
  <2>3. Above(g) \subseteq Above(f) /\ g \in Above(f) /\ g \notin Above(g)
    <3>1. ASSUME NEW h \in FileId, g < h PROVE f < h
      BY <2>1, <3>1
    <3>2. Above(g) \subseteq Above(f)
      BY <3>1
    <3>3. g \in Above(f) /\ g \notin Above(g)
      BY <2>1
    <3> QED
      BY <3>2, <3>3
  <2>4. <<Above(g), U>> \in StrictSubsetOrdering(FileId)
    BY <1>4, <2>3 DEF StrictSubsetOrdering
  <2> QED
    BY <1>3, <2>2, <2>4
<1> QED
  BY <1>5

(* The rebuilt index maps a name to a file stored under it, when there is   *)
(* one.                                                                     *)
LEMMA RebuiltNamesStored ==
    ASSUME TypeOK
    PROVE  /\ RebuiltIndex \in [Name -> FileId \union {NoFile}]
           /\ \A n \in Name :
                  IF StoredAs(n) = {} THEN RebuiltIndex[n] = NoFile
                  ELSE RebuiltIndex[n] \in StoredAs(n)
<1>1. ASSUME NEW n \in Name, StoredAs(n) # {}
      PROVE  RebuiltIndex[n] \in StoredAs(n)
  <2>1. \E f \in StoredAs(n) : \A g \in StoredAs(n) : g <= f
    BY <1>1, GreatestId DEF StoredAs
  <2> QED
    BY <1>1, <2>1 DEF RebuiltIndex
<1>2. \A n \in Name : StoredAs(n) \subseteq FileId
  BY DEF StoredAs
<1> QED
  BY <1>1, <1>2 DEF RebuiltIndex

(* Every step keeps the state well typed, and its threads informed. *)
LEMMA TypeStep ==
    IInv /\ [Next]_vars => (TypeOK /\ JobKnown)'
<1> SUFFICES ASSUME IInv, [Next]_vars
             PROVE  (TypeOK /\ JobKnown)'
  OBVIOUS
<1> USE DEF IInv, TypeOK, JobKnown, LoadSteps, RemoveSteps, LookupSteps, Ended
<1>1. ASSUME NEW w \in Worker, NEW n \in Name, StartLoad(w, n)
      PROVE  (TypeOK /\ JobKnown)'
  BY <1>1 DEF StartLoad, Goto, store, history
<1>2. ASSUME NEW w \in Worker, NEW n \in Name, StartLookup(w, n)
      PROVE  (TypeOK /\ JobKnown)'
  BY <1>2 DEF StartLookup, Goto, store, history
<1>3. ASSUME NEW w \in Worker, NEW f \in FileId, StartRemove(w, f)
      PROVE  (TypeOK /\ JobKnown)'
  BY <1>3 DEF StartRemove, Goto, store, history
<1>4. ASSUME NEW w \in Worker, NEW f \in FileId, Extract(w, f)
      PROVE  (TypeOK /\ JobKnown)'
  BY <1>4 DEF Extract, Goto, store, history
<1>5. ASSUME NEW w \in Worker, StoreCommit(w)
      PROVE  (TypeOK /\ JobKnown)'
  BY <1>5 DEF StoreCommit, Goto
<1>6. ASSUME NEW w \in Worker, IndexInsert(w)
      PROVE  (TypeOK /\ JobKnown)'
  BY <1>6 DEF IndexInsert, Indexed, Goto
<1>7. ASSUME NEW w \in Worker, LoadFail(w)
      PROVE  (TypeOK /\ JobKnown)'
  BY <1>7 DEF LoadFail, Goto, store, history
<1>8. ASSUME NEW w \in Worker, ScanRanges(w)
      PROVE  (TypeOK /\ JobKnown)'
  BY <1>8 DEF ScanRanges, Goto, store, history
<1>9. ASSUME NEW w \in Worker, ScanStrings(w)
      PROVE  (TypeOK /\ JobKnown)'
  BY <1>9 DEF ScanStrings, Goto, store, history
<1>10. ASSUME NEW w \in Worker, RemoveCommit(w)
      PROVE  (TypeOK /\ JobKnown)'
  BY <1>10 DEF RemoveCommit, Deleted, Unlisted, Goto
<1>11. ASSUME NEW w \in Worker, IndexRetain(w)
      PROVE  (TypeOK /\ JobKnown)'
  BY <1>11 DEF IndexRetain, Retained, Goto, history
<1>12. ASSUME NEW w \in Worker, RemoveFail(w)
      PROVE  (TypeOK /\ JobKnown)'
  BY <1>12 DEF RemoveFail, Goto, store, history
<1>13. ASSUME NEW w \in Worker, ReadIndex(w)
      PROVE  (TypeOK /\ JobKnown)'
  BY <1>13 DEF ReadIndex, Goto, store, history
<1>14. ASSUME NEW w \in Worker, ScanFrames(w)
      PROVE  (TypeOK /\ JobKnown)'
  BY <1>14 DEF ScanFrames, Goto, store
<1>15. ASSUME NEW w \in Worker, ResolveString(w)
      PROVE  (TypeOK /\ JobKnown)'
  BY <1>15 DEF ResolveString, Goto, store, history
<1>16. ASSUME NEW w \in Worker, LookupFail(w)
      PROVE  (TypeOK /\ JobKnown)'
  BY <1>16 DEF LookupFail, Goto, store, history
<1>17. ASSUME NEW w \in Worker, Finish(w)
      PROVE  (TypeOK /\ JobKnown)'
  BY <1>17 DEF Finish, Goto, store, history, Ended
<1>18. CASE Restart
  <2>1. RebuiltIndex \in [Name -> FileId \union {NoFile}]
    BY RebuiltNamesStored
  <2> QED
    BY <1>18, <2>1 DEF Restart
<1>19. CASE UNCHANGED vars
  BY <1>19 DEF vars
<1> QED
  BY <1>1, <1>2, <1>3, <1>4, <1>5, <1>6, <1>7, <1>8, <1>9, <1>10, <1>11,
     <1>12, <1>13, <1>14, <1>15, <1>16, <1>17, <1>18, <1>19
     DEF Next, Start, LoadStep, RemoveStep, LookupStep

(* Every step keeps the partitions consistent, as far as no race spoiled them. *)
LEMMA DataStep ==
    IInv /\ [Next]_vars => (ListedIsComplete /\ OrphansAreRaced /\ ScanHolds)'
<1> SUFFICES ASSUME IInv, [Next]_vars
             PROVE  (ListedIsComplete /\ OrphansAreRaced /\ ScanHolds)'
  OBVIOUS
<1> USE DEF IInv, TypeOK, JobKnown, ListedIsComplete, OrphansAreRaced, Orphaned, ScanHolds
<1>1. ASSUME NEW w \in Worker, NEW n \in Name, StartLoad(w, n)
      PROVE  (ListedIsComplete /\ OrphansAreRaced /\ ScanHolds)'
  BY <1>1 DEF StartLoad, Goto, store, history
<1>2. ASSUME NEW w \in Worker, NEW n \in Name, StartLookup(w, n)
      PROVE  (ListedIsComplete /\ OrphansAreRaced /\ ScanHolds)'
  BY <1>2 DEF StartLookup, Goto, store, history
<1>3. ASSUME NEW w \in Worker, NEW f \in FileId, StartRemove(w, f)
      PROVE  (ListedIsComplete /\ OrphansAreRaced /\ ScanHolds)'
  BY <1>3 DEF StartRemove, Goto, store, history
<1>4. ASSUME NEW w \in Worker, NEW f \in FileId, Extract(w, f)
      PROVE  (ListedIsComplete /\ OrphansAreRaced /\ ScanHolds)'
  BY <1>4 DEF Extract, Goto, store, history
<1>5. ASSUME NEW w \in Worker, StoreCommit(w)
      PROVE  (ListedIsComplete /\ OrphansAreRaced /\ ScanHolds)'
  BY <1>5 DEF StoreCommit, Goto, RemovalUnderWay
<1>6. ASSUME NEW w \in Worker, IndexInsert(w)
      PROVE  (ListedIsComplete /\ OrphansAreRaced /\ ScanHolds)'
  BY <1>6 DEF IndexInsert, Indexed, Goto
<1>7. ASSUME NEW w \in Worker, LoadFail(w)
      PROVE  (ListedIsComplete /\ OrphansAreRaced /\ ScanHolds)'
  BY <1>7 DEF LoadFail, Goto, store, history
<1>8. ASSUME NEW w \in Worker, ScanRanges(w)
      PROVE  (ListedIsComplete /\ OrphansAreRaced /\ ScanHolds)'
  BY <1>8 DEF ScanRanges, Goto, store, history
<1>9. ASSUME NEW w \in Worker, ScanStrings(w)
      PROVE  (ListedIsComplete /\ OrphansAreRaced /\ ScanHolds)'
  BY <1>9 DEF ScanStrings, Goto, store, history
<1>10. ASSUME NEW w \in Worker, RemoveCommit(w)
      PROVE  (ListedIsComplete /\ OrphansAreRaced /\ ScanHolds)'
  BY <1>10 DEF RemoveCommit, Deleted, Unlisted, Goto, LoadUnindexed
<1>11. ASSUME NEW w \in Worker, IndexRetain(w)
      PROVE  (ListedIsComplete /\ OrphansAreRaced /\ ScanHolds)'
  BY <1>11 DEF IndexRetain, Retained, Goto, history
<1>12. ASSUME NEW w \in Worker, RemoveFail(w)
      PROVE  (ListedIsComplete /\ OrphansAreRaced /\ ScanHolds)'
  BY <1>12 DEF RemoveFail, Goto, store, history
<1>13. ASSUME NEW w \in Worker, ReadIndex(w)
      PROVE  (ListedIsComplete /\ OrphansAreRaced /\ ScanHolds)'
  BY <1>13 DEF ReadIndex, Goto, store, history
<1>14. ASSUME NEW w \in Worker, ScanFrames(w)
      PROVE  (ListedIsComplete /\ OrphansAreRaced /\ ScanHolds)'
  BY <1>14 DEF ScanFrames, Goto, store
<1>15. ASSUME NEW w \in Worker, ResolveString(w)
      PROVE  (ListedIsComplete /\ OrphansAreRaced /\ ScanHolds)'
  BY <1>15 DEF ResolveString, Goto, store, history
<1>16. ASSUME NEW w \in Worker, LookupFail(w)
      PROVE  (ListedIsComplete /\ OrphansAreRaced /\ ScanHolds)'
  BY <1>16 DEF LookupFail, Goto, store, history
<1>17. ASSUME NEW w \in Worker, Finish(w)
      PROVE  (ListedIsComplete /\ OrphansAreRaced /\ ScanHolds)'
  BY <1>17 DEF Finish, Goto, store, history, Ended
<1>18. CASE Restart
  BY <1>18 DEF Restart
<1>19. CASE UNCHANGED vars
  BY <1>19 DEF vars
<1> QED
  BY <1>1, <1>2, <1>3, <1>4, <1>5, <1>6, <1>7, <1>8, <1>9, <1>10, <1>11,
     <1>12, <1>13, <1>14, <1>15, <1>16, <1>17, <1>18, <1>19
     DEF Next, Start, LoadStep, RemoveStep, LookupStep

(* What a commit did lasts until its index update. *)
LEMMA CommitStep ==
    IInv /\ [Next]_vars => CommitHolds'
<1> SUFFICES ASSUME IInv, [Next]_vars
             PROVE  CommitHolds'
  OBVIOUS
<1> USE DEF IInv, TypeOK, JobKnown, CommitHolds
<1>1. ASSUME NEW w \in Worker, NEW n \in Name, StartLoad(w, n)
      PROVE  CommitHolds'
  BY <1>1 DEF StartLoad, Goto, store, history
<1>2. ASSUME NEW w \in Worker, NEW n \in Name, StartLookup(w, n)
      PROVE  CommitHolds'
  BY <1>2 DEF StartLookup, Goto, store, history
<1>3. ASSUME NEW w \in Worker, NEW f \in FileId, StartRemove(w, f)
      PROVE  CommitHolds'
  BY <1>3 DEF StartRemove, Goto, store, history
<1>4. ASSUME NEW w \in Worker, NEW f \in FileId, Extract(w, f)
      PROVE  CommitHolds'
  BY <1>4 DEF Extract, Goto, store, history
<1>5. ASSUME NEW w \in Worker, StoreCommit(w)
      PROVE  CommitHolds'
  BY <1>5 DEF StoreCommit, Goto, RemovalUnderWay
<1>6. ASSUME NEW w \in Worker, IndexInsert(w)
      PROVE  CommitHolds'
  BY <1>6 DEF IndexInsert, Indexed, Goto
<1>7. ASSUME NEW w \in Worker, LoadFail(w)
      PROVE  CommitHolds'
  BY <1>7 DEF LoadFail, Goto, store, history
<1>8. ASSUME NEW w \in Worker, ScanRanges(w)
      PROVE  CommitHolds'
  BY <1>8 DEF ScanRanges, Goto, store, history
<1>9. ASSUME NEW w \in Worker, ScanStrings(w)
      PROVE  CommitHolds'
  BY <1>9 DEF ScanStrings, Goto, store, history
<1>10. ASSUME NEW w \in Worker, RemoveCommit(w)
      PROVE  CommitHolds'
  BY <1>10 DEF RemoveCommit, Deleted, Unlisted, Goto, LoadUnindexed
<1>11. ASSUME NEW w \in Worker, IndexRetain(w)
      PROVE  CommitHolds'
  BY <1>11 DEF IndexRetain, Retained, Goto, history
<1>12. ASSUME NEW w \in Worker, RemoveFail(w)
      PROVE  CommitHolds'
  BY <1>12 DEF RemoveFail, Goto, store, history
<1>13. ASSUME NEW w \in Worker, ReadIndex(w)
      PROVE  CommitHolds'
  BY <1>13 DEF ReadIndex, Goto, store, history
<1>14. ASSUME NEW w \in Worker, ScanFrames(w)
      PROVE  CommitHolds'
  BY <1>14 DEF ScanFrames, Goto, store
<1>15. ASSUME NEW w \in Worker, ResolveString(w)
      PROVE  CommitHolds'
  BY <1>15 DEF ResolveString, Goto, store, history
<1>16. ASSUME NEW w \in Worker, LookupFail(w)
      PROVE  CommitHolds'
  BY <1>16 DEF LookupFail, Goto, store, history
<1>17. ASSUME NEW w \in Worker, Finish(w)
      PROVE  CommitHolds'
  BY <1>17 DEF Finish, Goto, store, history, Ended
<1>18. CASE Restart
  BY <1>18 DEF Restart
<1>19. CASE UNCHANGED vars
  BY <1>19 DEF vars
<1> QED
  BY <1>1, <1>2, <1>3, <1>4, <1>5, <1>6, <1>7, <1>8, <1>9, <1>10, <1>11,
     <1>12, <1>13, <1>14, <1>15, <1>16, <1>17, <1>18, <1>19
     DEF Next, Start, LoadStep, RemoveStep, LookupStep

(* Every step keeps the index and the metadata in agreement. *)
LEMMA IndexStep ==
    IInv /\ [Next]_vars => (IndexNamesStored /\ StoredIsIndexed)'
<1> SUFFICES ASSUME IInv, [Next]_vars
             PROVE  (IndexNamesStored /\ StoredIsIndexed)'
  OBVIOUS
<1> USE DEF IInv, TypeOK, JobKnown, CommitHolds, IndexNamesStored, StoredIsIndexed
<1>1. ASSUME NEW w \in Worker, NEW n \in Name, StartLoad(w, n)
      PROVE  (IndexNamesStored /\ StoredIsIndexed)'
  BY <1>1 DEF StartLoad, Goto, store, history
<1>2. ASSUME NEW w \in Worker, NEW n \in Name, StartLookup(w, n)
      PROVE  (IndexNamesStored /\ StoredIsIndexed)'
  BY <1>2 DEF StartLookup, Goto, store, history
<1>3. ASSUME NEW w \in Worker, NEW f \in FileId, StartRemove(w, f)
      PROVE  (IndexNamesStored /\ StoredIsIndexed)'
  BY <1>3 DEF StartRemove, Goto, store, history
<1>4. ASSUME NEW w \in Worker, NEW f \in FileId, Extract(w, f)
      PROVE  (IndexNamesStored /\ StoredIsIndexed)'
  BY <1>4 DEF Extract, Goto, store, history
<1>5. ASSUME NEW w \in Worker, StoreCommit(w)
      PROVE  (IndexNamesStored /\ StoredIsIndexed)'
  BY <1>5 DEF StoreCommit, Goto, RemovalUnderWay
<1>6. ASSUME NEW w \in Worker, IndexInsert(w)
      PROVE  (IndexNamesStored /\ StoredIsIndexed)'
  BY <1>6 DEF IndexInsert, Indexed, Goto
<1>7. ASSUME NEW w \in Worker, LoadFail(w)
      PROVE  (IndexNamesStored /\ StoredIsIndexed)'
  BY <1>7 DEF LoadFail, Goto, store, history
<1>8. ASSUME NEW w \in Worker, ScanRanges(w)
      PROVE  (IndexNamesStored /\ StoredIsIndexed)'
  BY <1>8 DEF ScanRanges, Goto, store, history
<1>9. ASSUME NEW w \in Worker, ScanStrings(w)
      PROVE  (IndexNamesStored /\ StoredIsIndexed)'
  BY <1>9 DEF ScanStrings, Goto, store, history
<1>10. ASSUME NEW w \in Worker, RemoveCommit(w)
      PROVE  (IndexNamesStored /\ StoredIsIndexed)'
  BY <1>10 DEF RemoveCommit, Deleted, Unlisted, Goto, LoadUnindexed
<1>11. ASSUME NEW w \in Worker, IndexRetain(w)
      PROVE  (IndexNamesStored /\ StoredIsIndexed)'
  BY <1>11 DEF IndexRetain, Retained, Goto, history
<1>12. ASSUME NEW w \in Worker, RemoveFail(w)
      PROVE  (IndexNamesStored /\ StoredIsIndexed)'
  BY <1>12 DEF RemoveFail, Goto, store, history
<1>13. ASSUME NEW w \in Worker, ReadIndex(w)
      PROVE  (IndexNamesStored /\ StoredIsIndexed)'
  BY <1>13 DEF ReadIndex, Goto, store, history
<1>14. ASSUME NEW w \in Worker, ScanFrames(w)
      PROVE  (IndexNamesStored /\ StoredIsIndexed)'
  BY <1>14 DEF ScanFrames, Goto, store
<1>15. ASSUME NEW w \in Worker, ResolveString(w)
      PROVE  (IndexNamesStored /\ StoredIsIndexed)'
  BY <1>15 DEF ResolveString, Goto, store, history
<1>16. ASSUME NEW w \in Worker, LookupFail(w)
      PROVE  (IndexNamesStored /\ StoredIsIndexed)'
  BY <1>16 DEF LookupFail, Goto, store, history
<1>17. ASSUME NEW w \in Worker, Finish(w)
      PROVE  (IndexNamesStored /\ StoredIsIndexed)'
  BY <1>17 DEF Finish, Goto, store, history, Ended
<1>18. CASE Restart
  <2>1. \A n \in Name :
            IF StoredAs(n) = {} THEN index'[n] = NoFile
            ELSE index'[n] \in StoredAs(n)
    BY <1>18, RebuiltNamesStored DEF Restart
  <2>2. IndexNamesStored'
    BY <1>18, <2>1 DEF Restart, StoredAs
  <2>3. StoredIsIndexed'
    <3> SUFFICES ASSUME NEW f \in FileId, files[f] # NoName, index'[files[f]] # f
                 PROVE  files[f] \in contested'
      BY <1>18 DEF Restart
    <3>1. files[f] \in Name
      <4>1. files \in [FileId -> Name \union {NoName}]
        OBVIOUS
      <4> QED
        BY ONLY <4>1, f \in FileId, files[f] # NoName
    <3>2. f \in StoredAs(files[f])
      BY DEF StoredAs
    <3>3. index'[files[f]] \in StoredAs(files[f])
      BY <2>1, <3>1, <3>2
    <3> QED
      BY <1>18, <3>1, <3>2, <3>3 DEF Restart
  <2> QED
    BY <2>2, <2>3
<1>19. CASE UNCHANGED vars
  BY <1>19 DEF vars
<1> QED
  BY <1>1, <1>2, <1>3, <1>4, <1>5, <1>6, <1>7, <1>8, <1>9, <1>10, <1>11,
     <1>12, <1>13, <1>14, <1>15, <1>16, <1>17, <1>18, <1>19
     DEF Next, Start, LoadStep, RemoveStep, LookupStep

(* Every step keeps what a lookup relies on. *)
LEMMA FramesStep ==
    IInv /\ [Next]_vars => (FramesHold /\ UnknownIsOvertaken)'
<1> SUFFICES ASSUME IInv, [Next]_vars
             PROVE  (FramesHold /\ UnknownIsOvertaken)'
  OBVIOUS
<1> USE DEF IInv, TypeOK, JobKnown, OrphansAreRaced, Orphaned, FramesHold, UnknownIsOvertaken
<1>1. ASSUME NEW w \in Worker, NEW n \in Name, StartLoad(w, n)
      PROVE  (FramesHold /\ UnknownIsOvertaken)'
  BY <1>1 DEF StartLoad, Goto, store, history
<1>2. ASSUME NEW w \in Worker, NEW n \in Name, StartLookup(w, n)
      PROVE  (FramesHold /\ UnknownIsOvertaken)'
  BY <1>2 DEF StartLookup, Goto, store, history
<1>3. ASSUME NEW w \in Worker, NEW f \in FileId, StartRemove(w, f)
      PROVE  (FramesHold /\ UnknownIsOvertaken)'
  BY <1>3 DEF StartRemove, Goto, store, history
<1>4. ASSUME NEW w \in Worker, NEW f \in FileId, Extract(w, f)
      PROVE  (FramesHold /\ UnknownIsOvertaken)'
  BY <1>4 DEF Extract, Goto, store, history
<1>5. ASSUME NEW w \in Worker, StoreCommit(w)
      PROVE  (FramesHold /\ UnknownIsOvertaken)'
  BY <1>5 DEF StoreCommit, Goto
<1>6. ASSUME NEW w \in Worker, IndexInsert(w)
      PROVE  (FramesHold /\ UnknownIsOvertaken)'
  BY <1>6 DEF IndexInsert, Indexed, Goto
<1>7. ASSUME NEW w \in Worker, LoadFail(w)
      PROVE  (FramesHold /\ UnknownIsOvertaken)'
  BY <1>7 DEF LoadFail, Goto, store, history
<1>8. ASSUME NEW w \in Worker, ScanRanges(w)
      PROVE  (FramesHold /\ UnknownIsOvertaken)'
  BY <1>8 DEF ScanRanges, Goto, store, history
<1>9. ASSUME NEW w \in Worker, ScanStrings(w)
      PROVE  (FramesHold /\ UnknownIsOvertaken)'
  BY <1>9 DEF ScanStrings, Goto, store, history
<1>10. ASSUME NEW w \in Worker, RemoveCommit(w)
      PROVE  (FramesHold /\ UnknownIsOvertaken)'
  BY <1>10 DEF RemoveCommit, Deleted, Unlisted, Goto
<1>11. ASSUME NEW w \in Worker, IndexRetain(w)
      PROVE  (FramesHold /\ UnknownIsOvertaken)'
  BY <1>11 DEF IndexRetain, Retained, Goto, history
<1>12. ASSUME NEW w \in Worker, RemoveFail(w)
      PROVE  (FramesHold /\ UnknownIsOvertaken)'
  BY <1>12 DEF RemoveFail, Goto, store, history
<1>13. ASSUME NEW w \in Worker, ReadIndex(w)
      PROVE  (FramesHold /\ UnknownIsOvertaken)'
  BY <1>13 DEF ReadIndex, Goto, store, history
<1>14. ASSUME NEW w \in Worker, ScanFrames(w)
      PROVE  (FramesHold /\ UnknownIsOvertaken)'
  BY <1>14 DEF ScanFrames, Goto, store
<1>15. ASSUME NEW w \in Worker, ResolveString(w)
      PROVE  (FramesHold /\ UnknownIsOvertaken)'
  BY <1>15 DEF ResolveString, Goto, store, history
<1>16. ASSUME NEW w \in Worker, LookupFail(w)
      PROVE  (FramesHold /\ UnknownIsOvertaken)'
  BY <1>16 DEF LookupFail, Goto, store, history
<1>17. ASSUME NEW w \in Worker, Finish(w)
      PROVE  (FramesHold /\ UnknownIsOvertaken)'
  BY <1>17 DEF Finish, Goto, store, history, Ended
<1>18. CASE Restart
  BY <1>18 DEF Restart
<1>19. CASE UNCHANGED vars
  BY <1>19 DEF vars
<1> QED
  BY <1>1, <1>2, <1>3, <1>4, <1>5, <1>6, <1>7, <1>8, <1>9, <1>10, <1>11,
     <1>12, <1>13, <1>14, <1>15, <1>16, <1>17, <1>18, <1>19
     DEF Next, Start, LoadStep, RemoveStep, LookupStep
----------------------------------------------------------------------------
LEMMA IInvStep == IInv /\ [Next]_vars => IInv'
BY TypeStep, DataStep, CommitStep, IndexStep, FramesStep DEF IInv

LEMMA Invariance == Spec => []IInv
BY IInvInit, IInvStep, PTL DEF Spec

(* Well typed for any threads, files and names. *)
THEOREM TypeCorrect == Spec => []TypeOK
<1>1. IInv => TypeOK
  BY DEF IInv
<1> QED
  BY <1>1, Invariance, PTL

(* A listed executable has all of its symbols, whatever overlaps. *)
THEOREM ListedComplete == Spec => []ListedIsComplete
<1>1. IInv => ListedIsComplete
  BY DEF IInv
<1> QED
  BY <1>1, Invariance, PTL

(* The index leads to files that are stored, races apart. *)
THEOREM IndexSound == Spec => []IndexNamesStored
<1>1. IInv => IndexNamesStored
  BY DEF IInv
<1> QED
  BY <1>1, Invariance, PTL

(* A stored file is found under its name, races and shared names apart. *)
THEOREM IndexComplete == Spec => []StoredIsIndexed
<1>1. IInv => StoredIsIndexed
  BY DEF IInv
<1> QED
  BY <1>1, Invariance, PTL

(* Only a load that overlapped a removal leaves symbols behind. *)
THEOREM OrphansRaced == Spec => []OrphansAreRaced
<1>1. IInv => OrphansAreRaced
  BY DEF IInv
<1> QED
  BY <1>1, Invariance, PTL

(* Only an overtaken lookup labels a frame "[unknown]". *)
THEOREM UnknownOvertaken == Spec => []UnknownIsOvertaken
<1>1. IInv => UnknownIsOvertaken
  BY DEF IInv
<1> QED
  BY <1>1, Invariance, PTL

----------------------------------------------------------------------------
(* SymbolStore implements SymbolCatalog, for any threads, files and names.   *)
(* A thread without a job has no argument; a load learns its file last. *)
ArgumentsClean ==
    \A w \in Worker :
        /\ pc[w] = "idle" => jobName[w] = NoName /\ jobFile[w] = NoFile
        /\ pc[w] = "extract" => jobFile[w] = NoFile

(* Every step keeps the arguments of the threads in order. *)
LEMMA ArgumentsStep ==
    IInv /\ ArgumentsClean /\ [Next]_vars => ArgumentsClean'
<1> SUFFICES ASSUME IInv, ArgumentsClean, [Next]_vars
             PROVE  ArgumentsClean'
  OBVIOUS
<1> USE DEF IInv, TypeOK, ArgumentsClean, Goto
<1>1. CASE \E w \in Worker : Start(w)
  BY <1>1 DEF Start, StartLoad, StartLookup, StartRemove
<1>2. CASE \E w \in Worker : LoadStep(w)
  BY <1>2 DEF LoadStep, Extract, StoreCommit, IndexInsert, Indexed, LoadFail
<1>3. CASE \E w \in Worker : RemoveStep(w)
  BY <1>3 DEF RemoveStep, ScanRanges, ScanStrings, RemoveCommit, Deleted, Unlisted, IndexRetain, Retained,
              RemoveFail
<1>4. CASE \E w \in Worker : LookupStep(w)
  BY <1>4 DEF LookupStep, ReadIndex, ScanFrames, ResolveString, LookupFail
<1>5. CASE \E w \in Worker : Finish(w)
  BY <1>5 DEF Finish
<1>6. CASE Restart
  BY <1>6 DEF Restart
<1>7. CASE UNCHANGED vars
  BY <1>7 DEF vars
<1> QED
  BY <1>1, <1>2, <1>3, <1>4, <1>5, <1>6, <1>7 DEF Next

----------------------------------------------------------------------------
LEMMA InitMapped == Init => Catalog!Init
BY DEF Init, Catalog!Init, PhaseOf, LookupSteps

(* Every step of the store is a step of the catalog, or changes nothing the *)
(* catalog shows.                                                           *)
LEMMA StepMapped ==
    IInv /\ ArgumentsClean /\ [Next]_vars => [Catalog!Next]_(Catalog!vars)
<1> SUFFICES ASSUME IInv, ArgumentsClean, [Next]_vars
             PROVE  Catalog!Next \/ UNCHANGED Catalog!vars
  OBVIOUS
<1> USE DEF IInv, TypeOK, ListedIsComplete, JobKnown, ArgumentsClean, Goto,
            PhaseOf, LookupSteps
<1>1. ASSUME NEW w \in Worker, NEW n \in Name, StartLoad(w, n)
      PROVE  Catalog!BeginLoad(w, n)
  BY <1>1 DEF StartLoad, store, Catalog!BeginLoad, Catalog!To
<1>2. ASSUME NEW w \in Worker, NEW n \in Name, StartLookup(w, n)
      PROVE  UNCHANGED Catalog!vars
  BY <1>2 DEF StartLookup, store, Catalog!vars
<1>3. ASSUME NEW w \in Worker, NEW f \in FileId, StartRemove(w, f)
      PROVE  Catalog!BeginRemove(w, f)
  BY <1>3 DEF StartRemove, store, Catalog!BeginRemove, Catalog!To
<1>4. ASSUME NEW w \in Worker, NEW f \in FileId, Extract(w, f)
      PROVE  Catalog!Identify(w, f)
  BY <1>4 DEF Extract, store, Catalog!Identify, Catalog!To
<1>5. ASSUME NEW w \in Worker, StoreCommit(w)
      PROVE  Catalog!Put(w)
  BY <1>5, StoreAssumption DEF StoreCommit, Catalog!Put, Catalog!To
<1>6. ASSUME NEW w \in Worker, IndexInsert(w)
      PROVE  UNCHANGED Catalog!vars
  BY <1>6 DEF IndexInsert, Indexed, Catalog!vars
<1>7. ASSUME NEW w \in Worker, LoadFail(w)
      PROVE  Catalog!Fail(w)
  BY <1>7 DEF LoadFail, store, Catalog!Fail, Catalog!To
<1>8. ASSUME NEW w \in Worker, ScanRanges(w)
      PROVE  UNCHANGED Catalog!vars
  BY <1>8 DEF ScanRanges, store, Catalog!vars
<1>9. ASSUME NEW w \in Worker, ScanStrings(w)
      PROVE  UNCHANGED Catalog!vars
  BY <1>9 DEF ScanStrings, store, Catalog!vars
<1>10. ASSUME NEW w \in Worker, RemoveCommit(w)
      PROVE  Catalog!Drop(w)
  BY <1>10 DEF RemoveCommit, Deleted, Unlisted, Catalog!Drop, Catalog!To
<1>11. ASSUME NEW w \in Worker, IndexRetain(w)
      PROVE  UNCHANGED Catalog!vars
  BY <1>11 DEF IndexRetain, Retained, Catalog!vars
<1>12. ASSUME NEW w \in Worker, RemoveFail(w)
      PROVE  Catalog!Fail(w)
  BY <1>12 DEF RemoveFail, store, Catalog!Fail, Catalog!To
<1>13. ASSUME NEW w \in Worker, ReadIndex(w)
      PROVE  UNCHANGED Catalog!vars
  BY <1>13 DEF ReadIndex, store, Catalog!vars
<1>14. ASSUME NEW w \in Worker, ScanFrames(w)
      PROVE  UNCHANGED Catalog!vars
  BY <1>14 DEF ScanFrames, store, Catalog!vars
<1>15. ASSUME NEW w \in Worker, ResolveString(w)
      PROVE  UNCHANGED Catalog!vars
  BY <1>15 DEF ResolveString, store, Catalog!vars
<1>16. ASSUME NEW w \in Worker, LookupFail(w)
      PROVE  UNCHANGED Catalog!vars
  BY <1>16 DEF LookupFail, store, Catalog!vars
<1>17. ASSUME NEW w \in Worker, Finish(w)
       PROVE  Catalog!End(w) \/ UNCHANGED Catalog!vars
  <2>1. CASE pc[w] \in {"loaded", "loadFailed", "removed", "removeFailed"}
    BY <1>17, <2>1 DEF Finish, store, Catalog!End, Catalog!To
  <2>2. CASE pc[w] \in {"resolved", "unresolved", "unknown"}
    BY <1>17, <2>2 DEF Finish, store, Catalog!vars
  <2> QED
    BY <1>17, <2>1, <2>2 DEF Finish, Ended
<1>18. CASE Restart
  BY <1>18 DEF Restart, Catalog!Restart, Catalog!Next
<1>19. CASE UNCHANGED vars
  BY <1>19 DEF vars, Catalog!vars
<1> QED
  BY <1>1, <1>2, <1>3, <1>4, <1>5, <1>6, <1>7, <1>8, <1>9, <1>10, <1>11,
     <1>12, <1>13, <1>14, <1>15, <1>16, <1>17, <1>18, <1>19
     DEF Next, Start, LoadStep, RemoveStep, LookupStep, Catalog!Next

(* For any threads, files and names, loads and removals take effect in one  *)
(* step, or not at all.                                                     *)
THEOREM StoreImplementsCatalog == Spec => ImplementsCatalog
<1>1. Init => ArgumentsClean
  BY DEF Init, ArgumentsClean
<1> QED
  BY <1>1, Invariance, ArgumentsStep, InitMapped, StepMapped, PTL
     DEF Spec, ImplementsCatalog, Catalog!Spec
=============================================================================
