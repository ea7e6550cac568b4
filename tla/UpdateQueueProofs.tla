-------------------------- MODULE UpdateQueueProofs --------------------------
(* Proofs about UpdateQueue for any sets of feeds and any settings. *)
EXTENDS UpdateQueue, TLAPS

(* What every step of the state machine is. *)
Step ==
    \/ \E t \in Threads : Exit(t) \/ Engage(t) \/ Idle(t)
    \/ StartTransfer
    \/ SkipTransfer
    \/ \E f \in Feeds : Receive(f)
    \/ NoMoreMessages
    \/ NoteCurlResult
    \/ ParseRest
    \/ ExecuteFeed
    \/ MarkDownloaded("downloader")
    \/ MarkDownloaded("executor")
    \/ StartAutoUpdate
    \/ AutoUpdate
    \/ InsertFeed
    \/ AccountErrors
    \/ FinishFeed
    \/ InserterExamine
    \/ Reload
    \/ EditItems
    \/ MainExamine
    \/ WaitFinish
    \/ Quit
    \/ JoinThreads
    \/ StopCurl
    \/ StopDatabase
    \/ Signal

(* A step of the specification is one of the steps listed above.           *)
LEMMA NextIsStep == Next => Step \/ UNCHANGED vars
BY DEF Next, Step, Main, MainProgress, Downloader, Executor, Inserter, Worker, Terminated, Threads

-----------------------------------------------------------------------------
Typed == TypeOK /\ PlacesOK

EntriesTyped ==
    /\ queue \in SUBSET Feeds
    /\ flags \in [Feeds -> SUBSET Flag]
    /\ transfers \in SUBSET Feeds
    /\ dangling \in SUBSET Threads
    /\ used_after_free \in BOOLEAN

DbTyped ==
    /\ transaction \in BOOLEAN
    /\ uncommitted \in SUBSET Feeds
    /\ unsaved_edits \in BOOLEAN
    /\ lost_edits \in BOOLEAN

(* A write through a worker's pointer, dangling or not, keeps entries typed.*)
LEMMA RaiseTyped ==
    ASSUME EntriesTyped, NEW t, NEW raised \in SUBSET Flag, Raise(t, raised)
    PROVE  /\ flags' \in [Feeds -> SUBSET Flag]
           /\ used_after_free' \in BOOLEAN
           /\ queue' = queue
           /\ transfers' = transfers
BY DEF EntriesTyped, Raise

(* queue_destroy_unprotected leaves a well-typed queue.                    *)
LEMMA DestroyTyped == ASSUME EntriesTyped, DestroyQueue PROVE EntriesTyped'
BY DEF EntriesTyped, DestroyQueue

(* queue_examine leaves a well-typed queue and transaction.                *)
LEMMA ExamineTyped ==
    ASSUME EntriesTyped, DbTyped, ExamineQueue
    PROVE  EntriesTyped' /\ DbTyped'
<1>1. CASE Commit /\ DestroyQueue
  BY <1>1, DestroyTyped DEF Commit, DbTyped
<1>2. CASE UNCHANGED <<entryVars, dbVars>>
  BY <1>2 DEF EntriesTyped, DbTyped, entryVars, dbVars
<1> QED BY <1>1, <1>2 DEF ExamineQueue

(* queue_updates of any feeds leaves a well-typed queue and transaction.   *)
LEMMA AddTyped ==
    ASSUME EntriesTyped, DbTyped, NEW S \in SUBSET Feeds, AddToQueue(S)
    PROVE  EntriesTyped' /\ DbTyped'
BY DEF EntriesTyped, DbTyped, AddToQueue

(* The empty queue the program starts with is well typed.                  *)
LEMMA TypedInit == Init => Typed
<1> SUFFICES ASSUME Init PROVE Typed
  OBVIOUS
<1>1. TypeOK
  BY DEF Init, TypeOK, Threads, ReplyType, NoReply, Flag
<1>2. PlacesOK
  BY DEF Init, PlacesOK, Threads, Holding
<1> QED BY <1>1, <1>2 DEF Typed

(* The head of the loop that all workers share keeps every variable typed. *)
LEMMA TypedWorkers ==
    ASSUME Typed, NEW t \in Threads, Exit(t) \/ Engage(t) \/ Idle(t)
    PROVE  Typed'
<1> USE QueueAssumption DEF Typed, TypeOK, PlacesOK, Threads, Holding, Flag, Goto, Pulls
<1>1. CASE Exit(t)
  BY <1>1 DEF Exit, entryVars, dbVars
<1>2. CASE Engage(t)
  <2>1. Waiting(t) \subseteq queue
    BY DEF Waiting
  <2> QED BY <1>2, <2>1 DEF Engage, dbVars
<1>3. CASE Idle(t)
  BY <1>3 DEF Idle, entryVars, dbVars
<1> QED BY <1>1, <1>2, <1>3

(* So does every step of any thread.                                       *)
LEMMA TypedNext ==
    ASSUME Typed, Step
    PROVE  Typed'
<1> USE QueueAssumption DEF Typed, TypeOK, PlacesOK, Threads, Holding, Flag
<1> EntriesTyped /\ DbTyped
  BY DEF EntriesTyped, DbTyped
<1>0. ASSUME NEW t \in Threads, Exit(t) \/ Engage(t) \/ Idle(t)
      PROVE  Typed'
  BY <1>0, TypedWorkers
<1>1. CASE StartTransfer
  BY <1>1 DEF StartTransfer, Drop, Goto, workerVars, entryVars, dbVars
<1>2. CASE SkipTransfer
  BY <1>2 DEF SkipTransfer, Raise, Landing, Drop, Goto, workerVars, entryVars, dbVars
<1>3. ASSUME NEW f \in Feeds, Receive(f) PROVE Typed'
  BY <1>3 DEF Receive, Goto, workerVars, entryVars, dbVars
<1>4. CASE NoMoreMessages
  BY <1>4 DEF NoMoreMessages, Goto, workerVars, entryVars, dbVars
<1>5. CASE NoteCurlResult
  <2>1. EntriesTyped'
    BY <1>5, RaiseTyped DEF NoteCurlResult, EntriesTyped, Keep, entryVars
  <2> QED BY <1>5, <2>1 DEF NoteCurlResult, EntriesTyped, Goto, dbVars
<1>6. CASE ParseRest
  <2>1. EntriesTyped'
    BY <1>6, RaiseTyped DEF ParseRest, EntriesTyped, Keep
  <2> QED BY <1>6, <2>1 DEF ParseRest, EntriesTyped, Goto, dbVars
<1>7. CASE ExecuteFeed
  <2>1. EntriesTyped'
    BY <1>7, RaiseTyped DEF ExecuteFeed, EntriesTyped, Keep, entryVars
  <2> QED BY <1>7, <2>1 DEF ExecuteFeed, EntriesTyped, Goto, dbVars
<1>8. CASE MarkDownloaded("downloader")
  BY <1>8 DEF MarkDownloaded, Raise, Landing, Drop, Goto, ReplyType, NoReply, workerVars,
      entryVars, dbVars
<1>9. CASE MarkDownloaded("executor")
  BY <1>9 DEF MarkDownloaded, Raise, Landing, Drop, Goto, ReplyType, NoReply, workerVars,
      entryVars, dbVars
<1>10. CASE StartAutoUpdate
  BY <1>10 DEF StartAutoUpdate, Goto, workerVars, entryVars, dbVars
<1>11. CASE AutoUpdate
  <2>1. CASE due = {} /\ UNCHANGED <<due, entryVars, dbVars>> /\ Goto("inserter", "pull")
    BY <1>11, <2>1 DEF AutoUpdate, Goto, entryVars, dbVars
  <2>2. ASSUME NEW f \in due, AddToQueue({f}), due' = due \ {f}, Goto("inserter", "auto_examine")
        PROVE  Typed'
    <3>1. EntriesTyped' /\ DbTyped'
      BY <2>2, AddTyped
    <3> QED BY <1>11, <2>2, <3>1 DEF AutoUpdate, EntriesTyped, DbTyped, Goto
  <2> QED BY <1>11, <2>1, <2>2 DEF AutoUpdate
<1>12. CASE InsertFeed
  <2>1. target["inserter"] \in Feeds
    BY <1>12 DEF InsertFeed
  <2>2. DbTyped'
    BY <1>12, <2>1 DEF InsertFeed, WriteFeed, DbTyped, dbVars
  <2>3. EntriesTyped'
    BY <1>12, RaiseTyped DEF InsertFeed, EntriesTyped, Keep
  <2> QED BY <1>12, <2>2, <2>3 DEF InsertFeed, EntriesTyped, DbTyped, Goto
<1>13. CASE AccountErrors
  BY <1>13 DEF AccountErrors, Goto, workerVars, entryVars, dbVars
<1>14. CASE FinishFeed
  BY <1>14 DEF FinishFeed, Raise, Landing, Drop, Goto, workerVars, entryVars, dbVars
<1>15. CASE InserterExamine
  <2>1. EntriesTyped' /\ DbTyped'
    BY <1>15, ExamineTyped DEF InserterExamine
  <2> QED BY <1>15, <2>1 DEF InserterExamine, EntriesTyped, DbTyped, Goto
<1>16. CASE Reload
  <2>1. PICK S \in SUBSET Feeds : AddToQueue(S)
    BY <1>16 DEF Reload
  <2>2. EntriesTyped' /\ DbTyped'
    BY <2>1, AddTyped
  <2> QED BY <1>16, <2>2 DEF Reload, EntriesTyped, DbTyped, workerVars
<1>17. CASE EditItems
  BY <1>17 DEF EditItems, workerVars, entryVars, dbVars
<1>18. CASE MainExamine
  <2>1. EntriesTyped' /\ DbTyped'
    BY <1>18, ExamineTyped DEF MainExamine
  <2> QED BY <1>18, <2>1 DEF MainExamine, EntriesTyped, DbTyped, workerVars
<1>19. CASE WaitFinish
  BY <1>19 DEF WaitFinish, workerVars, entryVars, dbVars
<1>20. CASE Quit
  BY <1>20 DEF Quit, workerVars, entryVars, dbVars
<1>21. CASE JoinThreads
  BY <1>21 DEF JoinThreads, workerVars, entryVars, dbVars
<1>22. CASE StopCurl
  <2>1. EntriesTyped'
    BY <1>22, DestroyTyped DEF StopCurl
  <2> QED BY <1>22, <2>1 DEF StopCurl, EntriesTyped, workerVars, dbVars
<1>23. CASE StopDatabase
  <2>1. main' = "closed" /\ UNCHANGED <<stop, workerVars, entryVars, errors>>
    BY <1>23 DEF StopDatabase
  <2>2. DbTyped'
    BY <1>23 DEF StopDatabase, DbTyped
  <2>3. EntriesTyped'
    BY <2>1 DEF EntriesTyped, entryVars
  <2> QED BY <2>1, <2>2, <2>3 DEF EntriesTyped, DbTyped, workerVars
<1>24. CASE Signal
  BY <1>24 DEF Signal, workerVars, entryVars, dbVars
<1> QED BY <1>0, <1>1, <1>2, <1>3, <1>4, <1>5, <1>6, <1>7, <1>8, <1>9, <1>10, <1>11, <1>12,
    <1>13, <1>14, <1>15, <1>16, <1>17, <1>18, <1>19, <1>20, <1>21, <1>22, <1>23, <1>24 DEF Step

-----------------------------------------------------------------------------
(* A write through t's pointer reaches its target or, when that has been   *)
(* freed, at most an entry of the present queue.                           *)
LEMMA RaiseEffect ==
    ASSUME Typed, NEW t \in Threads, NEW raised \in SUBSET Flag, Raise(t, raised)
    PROVE  /\ queue' = queue
           /\ transfers' = transfers
           /\ used_after_free' = (used_after_free \/ t \in dangling)
           /\ \A f \in Feeds : \/ flags'[f] = flags[f]
                               \/ /\ flags'[f] = flags[f] \cup raised
                                  /\ IF t \in dangling THEN f \in queue ELSE f = target[t]
           /\ t \notin dangling => \A f \in Feeds : f = target[t] => flags'[f] = flags[f] \cup
               raised
BY DEF Raise, Landing, Typed, TypeOK

(* Every step keeps workers' pointers either in the queue or marked as freed.*)
LEMMA PointersNext ==
    ASSUME Typed, Typed', PointersOK, EntriesOK, ShutdownOK, Step
    PROVE  PointersOK'
<1> USE QueueAssumption DEF Typed, TypeOK, PlacesOK, Threads, Holding, Flag, PointersOK
<1>a. ASSUME NEW t \in Threads, Exit(t) PROVE PointersOK'
  BY <1>a DEF Exit, Goto, workerVars, entryVars, dbVars
<1>b. ASSUME NEW t \in Threads, Engage(t) PROVE PointersOK'
  BY <1>b DEF Engage, Goto, Waiting, Pulls, workerVars, entryVars, dbVars
<1>c. ASSUME NEW t \in Threads, Idle(t) PROVE PointersOK'
  BY <1>c DEF Idle, Goto, Pulls, workerVars, entryVars, dbVars
<1>1. CASE StartTransfer
  BY <1>1 DEF StartTransfer, Drop, Goto, workerVars, entryVars, dbVars
<1>2. CASE SkipTransfer
  BY <1>2, RaiseEffect DEF SkipTransfer, Drop, Goto, workerVars, entryVars, dbVars
<1>3. ASSUME NEW f \in Feeds, Receive(f) PROVE PointersOK'
  BY <1>3 DEF Receive, Goto, workerVars, entryVars, dbVars
<1>4. CASE NoMoreMessages
  BY <1>4 DEF NoMoreMessages, Goto, workerVars, entryVars, dbVars
<1>5. CASE NoteCurlResult
  BY <1>5, RaiseEffect DEF NoteCurlResult, Keep, Goto, workerVars, entryVars, dbVars
<1>6. CASE ParseRest
  BY <1>6, RaiseEffect DEF ParseRest, Keep, Goto, workerVars, entryVars, dbVars
<1>7. CASE ExecuteFeed
  BY <1>7, RaiseEffect DEF ExecuteFeed, Keep, Goto, workerVars, entryVars, dbVars
<1>8. CASE MarkDownloaded("downloader")
  BY <1>8, RaiseEffect DEF MarkDownloaded, Drop, Goto, workerVars, entryVars, dbVars
<1>9. CASE MarkDownloaded("executor")
  BY <1>9, RaiseEffect DEF MarkDownloaded, Drop, Goto, workerVars, entryVars, dbVars
<1>10. CASE StartAutoUpdate
  BY <1>10 DEF StartAutoUpdate, Goto, workerVars, entryVars, dbVars
<1>11. CASE AutoUpdate
  BY <1>11 DEF AutoUpdate, AddToQueue, Goto, workerVars, entryVars, dbVars
<1>12. CASE InsertFeed
  BY <1>12, RaiseEffect DEF InsertFeed, WriteFeed, Keep, Goto, workerVars, entryVars, dbVars
<1>13. CASE AccountErrors
  BY <1>13 DEF AccountErrors, Goto, workerVars, entryVars, dbVars
<1>14. CASE FinishFeed
  BY <1>14, RaiseEffect DEF FinishFeed, Drop, Goto, workerVars, entryVars, dbVars
<1>15. CASE InserterExamine
  BY <1>15 DEF InserterExamine, ExamineQueue, Commit, DestroyQueue, Goto, workerVars, entryVars,
      dbVars
<1>16. CASE Reload
  BY <1>16 DEF Reload, AddToQueue, workerVars, entryVars, dbVars
<1>17. CASE EditItems
  BY <1>17 DEF EditItems, workerVars, entryVars, dbVars
<1>18. CASE MainExamine
  <2>1. CASE DestroyQueue /\ Finished = queue
    <3>1. target["inserter"] = NoFeed
      BY <2>1 DEF EntriesOK, Finished
    <3> QED BY <1>18, <2>1, <3>1 DEF MainExamine, DestroyQueue, workerVars
  <2>2. CASE UNCHANGED entryVars
    BY <1>18, <2>2 DEF MainExamine, workerVars, entryVars
  <2> QED BY <1>18, <2>1, <2>2 DEF MainExamine, ExamineQueue, entryVars
<1>19. CASE WaitFinish
  BY <1>19 DEF WaitFinish, workerVars, entryVars, dbVars
<1>20. CASE Quit
  BY <1>20 DEF Quit, workerVars, entryVars, dbVars
<1>21. CASE JoinThreads
  BY <1>21 DEF JoinThreads, workerVars, entryVars, dbVars
<1>22. CASE StopCurl
  <2>1. \A t \in Threads : target[t] = NoFeed
    BY <1>22 DEF StopCurl, ShutdownOK
  <2> QED BY <1>22, <2>1 DEF StopCurl, DestroyQueue, workerVars
<1>23. CASE StopDatabase
  BY <1>23 DEF StopDatabase, workerVars, entryVars, dbVars
<1>24. CASE Signal
  BY <1>24 DEF Signal, workerVars, entryVars, dbVars
<1> QED BY <1>a, <1>b, <1>c, <1>1, <1>2, <1>3, <1>4, <1>5, <1>6, <1>7, <1>8, <1>9, <1>10, <1>11,
    <1>12, <1>13, <1>14, <1>15, <1>16, <1>17, <1>18, <1>19, <1>20, <1>21, <1>22, <1>23, <1>24
    DEF Step

(* Every step keeps flags to queued entries, and finished entries judged.  *)
LEMMA EntriesNext ==
    ASSUME Typed, Typed', PointersOK, EntriesOK, ShutdownOK, Step
    PROVE  EntriesOK'
<1> USE QueueAssumption DEF Typed, TypeOK, PlacesOK, Threads, Holding, Flag, Verdict,
    PointersOK, EntriesOK, Finished, Is
<1>a. ASSUME NEW t \in Threads, Exit(t) PROVE EntriesOK'
  BY <1>a DEF Exit, Goto, workerVars, entryVars, dbVars
<1>b. ASSUME NEW t \in Threads, Engage(t) PROVE EntriesOK'
  BY <1>b DEF Engage, Goto, Waiting, Pulls, workerVars, entryVars, dbVars
<1>c. ASSUME NEW t \in Threads, Idle(t) PROVE EntriesOK'
  BY <1>c DEF Idle, Goto, Pulls, workerVars, entryVars, dbVars
<1>1. CASE StartTransfer
  BY <1>1 DEF StartTransfer, Drop, Goto, workerVars, entryVars, dbVars
<1>2. CASE SkipTransfer
  BY <1>2, RaiseEffect DEF SkipTransfer, Drop, Goto, workerVars, entryVars, dbVars
<1>3. ASSUME NEW f \in Feeds, Receive(f) PROVE EntriesOK'
  BY <1>3 DEF Receive, Goto, workerVars, entryVars, dbVars
<1>4. CASE NoMoreMessages
  BY <1>4 DEF NoMoreMessages, Goto, workerVars, entryVars, dbVars
<1>5. CASE NoteCurlResult
  BY <1>5, RaiseEffect DEF NoteCurlResult, Keep, Goto, workerVars, entryVars, dbVars
<1>6. CASE ParseRest
  BY <1>6, RaiseEffect DEF ParseRest, Keep, Goto, workerVars, entryVars, dbVars
<1>7. CASE ExecuteFeed
  BY <1>7, RaiseEffect DEF ExecuteFeed, Keep, Goto, workerVars, entryVars, dbVars
<1>8. CASE MarkDownloaded("downloader")
  BY <1>8, RaiseEffect DEF MarkDownloaded, Drop, Goto, workerVars, entryVars, dbVars
<1>9. CASE MarkDownloaded("executor")
  BY <1>9, RaiseEffect DEF MarkDownloaded, Drop, Goto, workerVars, entryVars, dbVars
<1>10. CASE StartAutoUpdate
  BY <1>10 DEF StartAutoUpdate, Goto, workerVars, entryVars, dbVars
<1>11. CASE AutoUpdate
  BY <1>11 DEF AutoUpdate, AddToQueue, Goto, workerVars, entryVars, dbVars
<1>12. CASE InsertFeed
  BY <1>12, RaiseEffect DEF InsertFeed, WriteFeed, Keep, Goto, workerVars, entryVars, dbVars
<1>13. CASE AccountErrors
  BY <1>13 DEF AccountErrors, Goto, workerVars, entryVars, dbVars
<1>14. CASE FinishFeed
  BY <1>14, RaiseEffect DEF FinishFeed, Drop, Goto, workerVars, entryVars, dbVars
<1>15. CASE InserterExamine
  BY <1>15 DEF InserterExamine, ExamineQueue, Commit, DestroyQueue, Goto, workerVars, entryVars,
      dbVars
<1>16. CASE Reload
  BY <1>16 DEF Reload, AddToQueue, workerVars, entryVars, dbVars
<1>17. CASE EditItems
  BY <1>17 DEF EditItems, workerVars, entryVars, dbVars
<1>18. CASE MainExamine
  BY <1>18 DEF MainExamine, ExamineQueue, Commit, DestroyQueue, workerVars, entryVars, dbVars
<1>19. CASE WaitFinish
  BY <1>19 DEF WaitFinish, workerVars, entryVars, dbVars
<1>20. CASE Quit
  BY <1>20 DEF Quit, workerVars, entryVars, dbVars
<1>21. CASE JoinThreads
  BY <1>21 DEF JoinThreads, workerVars, entryVars, dbVars
<1>22. CASE StopCurl
  <2>1. \A t \in Threads : target[t] = NoFeed
    BY <1>22 DEF StopCurl, ShutdownOK
  <2> QED BY <1>22, <2>1 DEF StopCurl, DestroyQueue, workerVars
<1>23. CASE StopDatabase
  BY <1>23 DEF StopDatabase, workerVars, entryVars, dbVars
<1>24. CASE Signal
  BY <1>24 DEF Signal, workerVars, entryVars, dbVars
<1> QED BY <1>a, <1>b, <1>c, <1>1, <1>2, <1>3, <1>4, <1>5, <1>6, <1>7, <1>8, <1>9, <1>10, <1>11,
    <1>12, <1>13, <1>14, <1>15, <1>16, <1>17, <1>18, <1>19, <1>20, <1>21, <1>22, <1>23, <1>24
    DEF Step

(* Every step keeps the order of shutdown: join the threads, free, close.  *)
LEMMA ShutdownNext ==
    ASSUME Typed, Typed', PointersOK, ShutdownOK, Step
    PROVE  ShutdownOK'
<1> USE QueueAssumption DEF Typed, TypeOK, PlacesOK, Threads, Holding, PointersOK, ShutdownOK
<1>a. ASSUME NEW t \in Threads, Exit(t) PROVE ShutdownOK'
  BY <1>a DEF Exit, Goto, workerVars, entryVars, dbVars
<1>b. ASSUME NEW t \in Threads, Engage(t) PROVE ShutdownOK'
  BY <1>b DEF Engage, Goto, Waiting, Pulls, workerVars, entryVars, dbVars
<1>c. ASSUME NEW t \in Threads, Idle(t) PROVE ShutdownOK'
  BY <1>c DEF Idle, Goto, Pulls, workerVars, entryVars, dbVars
<1>1. CASE StartTransfer
  BY <1>1 DEF StartTransfer, Drop, Goto, workerVars, entryVars, dbVars
<1>2. CASE SkipTransfer
  BY <1>2, RaiseEffect DEF SkipTransfer, Drop, Goto, workerVars, entryVars, dbVars
<1>3. ASSUME NEW f \in Feeds, Receive(f) PROVE ShutdownOK'
  BY <1>3 DEF Receive, Goto, workerVars, entryVars, dbVars
<1>4. CASE NoMoreMessages
  BY <1>4 DEF NoMoreMessages, Goto, workerVars, entryVars, dbVars
<1>5. CASE NoteCurlResult
  BY <1>5, RaiseEffect DEF NoteCurlResult, Keep, Goto, workerVars, entryVars, dbVars
<1>6. CASE ParseRest
  BY <1>6, RaiseEffect DEF ParseRest, Keep, Goto, workerVars, entryVars, dbVars
<1>7. CASE ExecuteFeed
  BY <1>7, RaiseEffect DEF ExecuteFeed, Keep, Goto, workerVars, entryVars, dbVars
<1>8. CASE MarkDownloaded("downloader")
  BY <1>8, RaiseEffect DEF MarkDownloaded, Drop, Goto, workerVars, entryVars, dbVars
<1>9. CASE MarkDownloaded("executor")
  BY <1>9, RaiseEffect DEF MarkDownloaded, Drop, Goto, workerVars, entryVars, dbVars
<1>10. CASE StartAutoUpdate
  BY <1>10 DEF StartAutoUpdate, Goto, workerVars, entryVars, dbVars
<1>11. CASE AutoUpdate
  BY <1>11 DEF AutoUpdate, AddToQueue, Goto, workerVars, entryVars, dbVars
<1>12. CASE InsertFeed
  BY <1>12, RaiseEffect DEF InsertFeed, WriteFeed, Keep, Goto, workerVars, entryVars, dbVars
<1>13. CASE AccountErrors
  BY <1>13 DEF AccountErrors, Goto, workerVars, entryVars, dbVars
<1>14. CASE FinishFeed
  BY <1>14, RaiseEffect DEF FinishFeed, Drop, Goto, workerVars, entryVars, dbVars
<1>15. CASE InserterExamine
  BY <1>15 DEF InserterExamine, ExamineQueue, Commit, DestroyQueue, Goto, workerVars, entryVars,
      dbVars
<1>16. CASE Reload
  BY <1>16 DEF Reload, AddToQueue, workerVars, entryVars, dbVars
<1>17. CASE EditItems
  BY <1>17 DEF EditItems, workerVars, entryVars, dbVars
<1>18. CASE MainExamine
  BY <1>18 DEF MainExamine, ExamineQueue, Commit, DestroyQueue, workerVars, entryVars, dbVars
<1>19. CASE WaitFinish
  BY <1>19 DEF WaitFinish, workerVars, entryVars, dbVars
<1>20. CASE Quit
  BY <1>20 DEF Quit, workerVars, entryVars, dbVars
<1>21. CASE JoinThreads
  BY <1>21 DEF JoinThreads, workerVars, entryVars, dbVars
<1>22. CASE StopCurl
  BY <1>22 DEF StopCurl, DestroyQueue, workerVars, entryVars, dbVars
<1>23. CASE StopDatabase
  BY <1>23 DEF StopDatabase, workerVars, entryVars, dbVars
<1>24. CASE Signal
  BY <1>24 DEF Signal, workerVars, entryVars, dbVars
<1> QED BY <1>a, <1>b, <1>c, <1>1, <1>2, <1>3, <1>4, <1>5, <1>6, <1>7, <1>8, <1>9, <1>10, <1>11,
    <1>12, <1>13, <1>14, <1>15, <1>16, <1>17, <1>18, <1>19, <1>20, <1>21, <1>22, <1>23, <1>24
    DEF Step

(* Every step keeps the transaction open exactly as long as the batch runs.*)
LEMMA TransactionNext ==
    ASSUME Typed, Typed', ShutdownOK, ShutdownOK', TransactionBracketsQueue, Step
    PROVE  TransactionBracketsQueue'
<1> USE QueueAssumption DEF Typed, TypeOK, PlacesOK, Threads, Holding, ShutdownOK,
    TransactionBracketsQueue
<1>a. ASSUME NEW t \in Threads, Exit(t) PROVE TransactionBracketsQueue'
  BY <1>a DEF Exit, Goto, workerVars, entryVars, dbVars
<1>b. ASSUME NEW t \in Threads, Engage(t) PROVE TransactionBracketsQueue'
  BY <1>b DEF Engage, Goto, Waiting, Pulls, workerVars, entryVars, dbVars
<1>c. ASSUME NEW t \in Threads, Idle(t) PROVE TransactionBracketsQueue'
  BY <1>c DEF Idle, Goto, Pulls, workerVars, entryVars, dbVars
<1>1. CASE StartTransfer
  BY <1>1 DEF StartTransfer, Drop, Goto, workerVars, entryVars, dbVars
<1>2. CASE SkipTransfer
  BY <1>2 DEF SkipTransfer, Raise, Drop, Goto, workerVars, entryVars, dbVars
<1>3. ASSUME NEW f \in Feeds, Receive(f) PROVE TransactionBracketsQueue'
  BY <1>3 DEF Receive, Goto, workerVars, entryVars, dbVars
<1>4. CASE NoMoreMessages
  BY <1>4 DEF NoMoreMessages, Goto, workerVars, entryVars, dbVars
<1>5. CASE NoteCurlResult
  BY <1>5 DEF NoteCurlResult, Raise, Keep, Goto, workerVars, entryVars, dbVars
<1>6. CASE ParseRest
  BY <1>6 DEF ParseRest, Raise, Keep, Goto, workerVars, entryVars, dbVars
<1>7. CASE ExecuteFeed
  BY <1>7 DEF ExecuteFeed, Raise, Keep, Goto, workerVars, entryVars, dbVars
<1>8. CASE MarkDownloaded("downloader")
  BY <1>8 DEF MarkDownloaded, Raise, Drop, Goto, workerVars, entryVars, dbVars
<1>9. CASE MarkDownloaded("executor")
  BY <1>9 DEF MarkDownloaded, Raise, Drop, Goto, workerVars, entryVars, dbVars
<1>10. CASE StartAutoUpdate
  BY <1>10 DEF StartAutoUpdate, Goto, workerVars, entryVars, dbVars
<1>11. CASE AutoUpdate
  BY <1>11 DEF AutoUpdate, AddToQueue, Goto, workerVars, entryVars, dbVars
<1>12. CASE InsertFeed
  BY <1>12 DEF InsertFeed, Raise, WriteFeed, Keep, Goto, workerVars, entryVars, dbVars
<1>13. CASE AccountErrors
  BY <1>13 DEF AccountErrors, Goto, workerVars, entryVars, dbVars
<1>14. CASE FinishFeed
  BY <1>14 DEF FinishFeed, Raise, Drop, Goto, workerVars, entryVars, dbVars
<1>15. CASE InserterExamine
  BY <1>15 DEF InserterExamine, ExamineQueue, Commit, DestroyQueue, Goto, workerVars, entryVars,
      dbVars
<1>16. CASE Reload
  BY <1>16 DEF Reload, AddToQueue, workerVars, entryVars, dbVars
<1>17. CASE EditItems
  BY <1>17 DEF EditItems, workerVars, entryVars, dbVars
<1>18. CASE MainExamine
  BY <1>18 DEF MainExamine, Finished, ExamineQueue, Commit, DestroyQueue, workerVars, entryVars,
      dbVars
<1>19. CASE WaitFinish
  BY <1>19 DEF WaitFinish, workerVars, entryVars, dbVars
<1>20. CASE Quit
  BY <1>20 DEF Quit, workerVars, entryVars, dbVars
<1>21. CASE JoinThreads
  BY <1>21 DEF JoinThreads, workerVars, entryVars, dbVars
<1>22. CASE StopCurl
  BY <1>22 DEF StopCurl, DestroyQueue, workerVars, entryVars, dbVars
<1>23. CASE StopDatabase
  BY <1>23 DEF StopDatabase, workerVars, entryVars, dbVars
<1>24. CASE Signal
  BY <1>24 DEF Signal, workerVars, entryVars, dbVars
<1> QED BY <1>a, <1>b, <1>c, <1>1, <1>2, <1>3, <1>4, <1>5, <1>6, <1>7, <1>8, <1>9, <1>10, <1>11,
    <1>12, <1>13, <1>14, <1>15, <1>16, <1>17, <1>18, <1>19, <1>20, <1>21, <1>22, <1>23, <1>24
    DEF Step

(* Every step keeps what is not committed within the queue.                *)
LEMMA SavedNext ==
    ASSUME Typed, Typed', PointersOK, ShutdownOK, SavedWhenDequeued, Step
    PROVE  SavedWhenDequeued'
<1> USE QueueAssumption DEF Typed, TypeOK, PlacesOK, Threads, Holding, PointersOK, ShutdownOK,
    SavedWhenDequeued
<1>a. ASSUME NEW t \in Threads, Exit(t) PROVE SavedWhenDequeued'
  BY <1>a DEF Exit, Goto, workerVars, entryVars, dbVars
<1>b. ASSUME NEW t \in Threads, Engage(t) PROVE SavedWhenDequeued'
  BY <1>b DEF Engage, Goto, Waiting, Pulls, workerVars, entryVars, dbVars
<1>c. ASSUME NEW t \in Threads, Idle(t) PROVE SavedWhenDequeued'
  BY <1>c DEF Idle, Goto, Pulls, workerVars, entryVars, dbVars
<1>1. CASE StartTransfer
  BY <1>1 DEF StartTransfer, Drop, Goto, workerVars, entryVars, dbVars
<1>2. CASE SkipTransfer
  BY <1>2 DEF SkipTransfer, Raise, Drop, Goto, workerVars, entryVars, dbVars
<1>3. ASSUME NEW f \in Feeds, Receive(f) PROVE SavedWhenDequeued'
  BY <1>3 DEF Receive, Goto, workerVars, entryVars, dbVars
<1>4. CASE NoMoreMessages
  BY <1>4 DEF NoMoreMessages, Goto, workerVars, entryVars, dbVars
<1>5. CASE NoteCurlResult
  BY <1>5 DEF NoteCurlResult, Raise, Keep, Goto, workerVars, entryVars, dbVars
<1>6. CASE ParseRest
  BY <1>6 DEF ParseRest, Raise, Keep, Goto, workerVars, entryVars, dbVars
<1>7. CASE ExecuteFeed
  BY <1>7 DEF ExecuteFeed, Raise, Keep, Goto, workerVars, entryVars, dbVars
<1>8. CASE MarkDownloaded("downloader")
  BY <1>8 DEF MarkDownloaded, Raise, Drop, Goto, workerVars, entryVars, dbVars
<1>9. CASE MarkDownloaded("executor")
  BY <1>9 DEF MarkDownloaded, Raise, Drop, Goto, workerVars, entryVars, dbVars
<1>10. CASE StartAutoUpdate
  BY <1>10 DEF StartAutoUpdate, Goto, workerVars, entryVars, dbVars
<1>11. CASE AutoUpdate
  BY <1>11 DEF AutoUpdate, AddToQueue, Goto, workerVars, entryVars, dbVars
<1>12. CASE InsertFeed
  BY <1>12 DEF InsertFeed, Raise, WriteFeed, Keep, Goto, workerVars, entryVars, dbVars
<1>13. CASE AccountErrors
  BY <1>13 DEF AccountErrors, Goto, workerVars, entryVars, dbVars
<1>14. CASE FinishFeed
  BY <1>14 DEF FinishFeed, Raise, Drop, Goto, workerVars, entryVars, dbVars
<1>15. CASE InserterExamine
  BY <1>15 DEF InserterExamine, ExamineQueue, Commit, DestroyQueue, Goto, workerVars, entryVars,
      dbVars
<1>16. CASE Reload
  BY <1>16 DEF Reload, AddToQueue, workerVars, entryVars, dbVars
<1>17. CASE EditItems
  BY <1>17 DEF EditItems, workerVars, entryVars, dbVars
<1>18. CASE MainExamine
  BY <1>18 DEF MainExamine, ExamineQueue, Commit, DestroyQueue, workerVars, entryVars, dbVars
<1>19. CASE WaitFinish
  BY <1>19 DEF WaitFinish, workerVars, entryVars, dbVars
<1>20. CASE Quit
  BY <1>20 DEF Quit, workerVars, entryVars, dbVars
<1>21. CASE JoinThreads
  BY <1>21 DEF JoinThreads, workerVars, entryVars, dbVars
<1>22. CASE StopCurl
  BY <1>22 DEF StopCurl, DestroyQueue, workerVars, entryVars, dbVars
<1>23. CASE StopDatabase
  BY <1>23 DEF StopDatabase, workerVars, entryVars, dbVars
<1>24. CASE Signal
  BY <1>24 DEF Signal, workerVars, entryVars, dbVars
<1> QED BY <1>a, <1>b, <1>c, <1>1, <1>2, <1>3, <1>4, <1>5, <1>6, <1>7, <1>8, <1>9, <1>10, <1>11,
    <1>12, <1>13, <1>14, <1>15, <1>16, <1>17, <1>18, <1>19, <1>20, <1>21, <1>22, <1>23, <1>24
    DEF Step

(* The record of a use after free is never erased.                         *)
LEMMA UseIsRemembered == ASSUME Typed, Step, ~used_after_free' PROVE ~used_after_free
BY DEF Step, Typed, TypeOK, PlacesOK, Exit, Engage, Idle, StartTransfer, SkipTransfer, Receive,
    NoMoreMessages, NoteCurlResult, ParseRest, ExecuteFeed, MarkDownloaded, StartAutoUpdate,
    AutoUpdate, InsertFeed, AccountErrors, FinishFeed, InserterExamine, Reload, EditItems,
    MainExamine, WaitFinish, Quit, JoinThreads, StopCurl, StopDatabase, Signal, Raise,
    AddToQueue, ExamineQueue, DestroyQueue, entryVars, workerVars

(* Until a use after free, a fetching worker is the only one in its entry. *)
LEMMA OwnersNext ==
    ASSUME Typed, Typed', PointersOK, PointersOK', EntriesOK, OwnersOK, ~used_after_free, Step,
        ~used_after_free'
    PROVE  OwnersOK'
<1> USE QueueAssumption DEF Typed, TypeOK, PlacesOK, Threads, Holding, Flag, ReplyType,
    PointersOK, EntriesOK, OwnersOK, Owns, Untouched, Is, Finished, Verdict
<1>a. ASSUME NEW t \in Threads, Exit(t) PROVE OwnersOK'
  BY <1>a DEF Exit, Goto, workerVars, entryVars, dbVars
<1>b. ASSUME NEW t \in Threads, Engage(t) PROVE OwnersOK'
  BY <1>b DEF Engage, Goto, Waiting, Pulls, workerVars, entryVars, dbVars
<1>c. ASSUME NEW t \in Threads, Idle(t) PROVE OwnersOK'
  BY <1>c DEF Idle, Goto, Pulls, workerVars, entryVars, dbVars
<1>1. CASE StartTransfer
  BY <1>1 DEF StartTransfer, Drop, Goto, workerVars, entryVars, dbVars
<1>2. CASE SkipTransfer
  BY <1>2, RaiseEffect DEF SkipTransfer, Drop, Goto, workerVars, entryVars, dbVars
<1>3. ASSUME NEW f \in Feeds, Receive(f) PROVE OwnersOK'
  BY <1>3 DEF Receive, Goto, workerVars, entryVars, dbVars
<1>4. CASE NoMoreMessages
  BY <1>4 DEF NoMoreMessages, Goto, workerVars, entryVars, dbVars
<1>5. CASE NoteCurlResult
  BY <1>5, RaiseEffect DEF NoteCurlResult, Keep, Goto, workerVars, entryVars, dbVars
<1>6. CASE ParseRest
  BY <1>6, RaiseEffect DEF ParseRest, Keep, Goto, workerVars, entryVars, dbVars
<1>7. CASE ExecuteFeed
  BY <1>7, RaiseEffect DEF ExecuteFeed, Keep, Goto, workerVars, entryVars, dbVars
<1>8. CASE MarkDownloaded("downloader")
  BY <1>8, RaiseEffect DEF MarkDownloaded, Drop, Goto, workerVars, entryVars, dbVars
<1>9. CASE MarkDownloaded("executor")
  BY <1>9, RaiseEffect DEF MarkDownloaded, Drop, Goto, workerVars, entryVars, dbVars
<1>10. CASE StartAutoUpdate
  BY <1>10 DEF StartAutoUpdate, Goto, workerVars, entryVars, dbVars
<1>11. CASE AutoUpdate
  BY <1>11 DEF AutoUpdate, AddToQueue, Goto, workerVars, entryVars, dbVars
<1>12. CASE InsertFeed
  BY <1>12, RaiseEffect DEF InsertFeed, WriteFeed, Keep, Goto, workerVars, entryVars, dbVars
<1>13. CASE AccountErrors
  BY <1>13 DEF AccountErrors, Goto, workerVars, entryVars, dbVars
<1>14. CASE FinishFeed
  BY <1>14, RaiseEffect DEF FinishFeed, Drop, Goto, workerVars, entryVars, dbVars
<1>15. CASE InserterExamine
  BY <1>15 DEF InserterExamine, ExamineQueue, Commit, DestroyQueue, Goto, workerVars, entryVars,
      dbVars
<1>16. CASE Reload
  BY <1>16 DEF Reload, AddToQueue, workerVars, entryVars, dbVars
<1>17. CASE EditItems
  BY <1>17 DEF EditItems, workerVars, entryVars, dbVars
<1>18. CASE MainExamine
  BY <1>18 DEF MainExamine, ExamineQueue, Commit, DestroyQueue, workerVars, entryVars, dbVars
<1>19. CASE WaitFinish
  BY <1>19 DEF WaitFinish, workerVars, entryVars, dbVars
<1>20. CASE Quit
  BY <1>20 DEF Quit, workerVars, entryVars, dbVars
<1>21. CASE JoinThreads
  BY <1>21 DEF JoinThreads, workerVars, entryVars, dbVars
<1>22. CASE StopCurl
  BY <1>22 DEF StopCurl, DestroyQueue, workerVars, entryVars, dbVars
<1>23. CASE StopDatabase
  BY <1>23 DEF StopDatabase, workerVars, entryVars, dbVars
<1>24. CASE Signal
  BY <1>24 DEF Signal, workerVars, entryVars, dbVars
<1> QED BY <1>a, <1>b, <1>c, <1>1, <1>2, <1>3, <1>4, <1>5, <1>6, <1>7, <1>8, <1>9, <1>10, <1>11,
    <1>12, <1>13, <1>14, <1>15, <1>16, <1>17, <1>18, <1>19, <1>20, <1>21, <1>22, <1>23, <1>24
    DEF Step

(* Until a use after free, a failed entry is on its way to an error text.  *)
LEMMA FailuresNext ==
    ASSUME Typed, Typed', PointersOK, PointersOK', EntriesOK, EntriesOK', ShutdownOK, OwnersOK,
        FailuresOK, Step, ~used_after_free, ~used_after_free'
    PROVE  FailuresOK'
<1> USE QueueAssumption DEF Typed, TypeOK, PlacesOK, Threads, Holding, Flag, ReplyType,
    PointersOK, EntriesOK, OwnersOK, Owns, Untouched, Is, Finished, Verdict, FailuresOK
<1>a. ASSUME NEW t \in Threads, Exit(t) PROVE FailuresOK'
  BY <1>a DEF Exit, Goto, workerVars, entryVars, dbVars
<1>b. ASSUME NEW t \in Threads, Engage(t) PROVE FailuresOK'
  BY <1>b DEF Engage, Goto, Waiting, Pulls, workerVars, entryVars, dbVars
<1>c. ASSUME NEW t \in Threads, Idle(t) PROVE FailuresOK'
  BY <1>c DEF Idle, Goto, Pulls, workerVars, entryVars, dbVars
<1>1. CASE StartTransfer
  BY <1>1 DEF StartTransfer, Drop, Goto, workerVars, entryVars, dbVars
<1>2. CASE SkipTransfer
  BY <1>2, RaiseEffect DEF SkipTransfer, Drop, Goto, workerVars, entryVars, dbVars
<1>3. ASSUME NEW f \in Feeds, Receive(f) PROVE FailuresOK'
  BY <1>3 DEF Receive, Goto, workerVars, entryVars, dbVars
<1>4. CASE NoMoreMessages
  BY <1>4 DEF NoMoreMessages, Goto, workerVars, entryVars, dbVars
<1>5. CASE NoteCurlResult
  BY <1>5, RaiseEffect DEF NoteCurlResult, Keep, Goto, workerVars, entryVars, dbVars
<1>6. CASE ParseRest
  BY <1>6, RaiseEffect DEF ParseRest, Keep, Goto, workerVars, entryVars, dbVars
<1>7. CASE ExecuteFeed
  BY <1>7, RaiseEffect DEF ExecuteFeed, Keep, Goto, workerVars, entryVars, dbVars
<1>8. CASE MarkDownloaded("downloader")
  BY <1>8, RaiseEffect DEF MarkDownloaded, Drop, Goto, workerVars, entryVars, dbVars
<1>9. CASE MarkDownloaded("executor")
  BY <1>9, RaiseEffect DEF MarkDownloaded, Drop, Goto, workerVars, entryVars, dbVars
<1>10. CASE StartAutoUpdate
  BY <1>10 DEF StartAutoUpdate, Goto, workerVars, entryVars, dbVars
<1>11. CASE AutoUpdate
  BY <1>11 DEF AutoUpdate, AddToQueue, Goto, workerVars, entryVars, dbVars
<1>12. CASE InsertFeed
  BY <1>12, RaiseEffect DEF InsertFeed, WriteFeed, Keep, Goto, workerVars, entryVars, dbVars
<1>13. CASE AccountErrors
  BY <1>13 DEF AccountErrors, Goto, workerVars, entryVars, dbVars
<1>14. CASE FinishFeed
  BY <1>14, RaiseEffect DEF FinishFeed, Drop, Goto, workerVars, entryVars, dbVars
<1>15. CASE InserterExamine
  BY <1>15 DEF InserterExamine, ExamineQueue, Commit, DestroyQueue, Goto, workerVars, entryVars,
      dbVars
<1>16. CASE Reload
  BY <1>16 DEF Reload, AddToQueue, workerVars, entryVars, dbVars
<1>17. CASE EditItems
  BY <1>17 DEF EditItems, workerVars, entryVars, dbVars
<1>18. CASE MainExamine
  BY <1>18 DEF MainExamine, ExamineQueue, Commit, DestroyQueue, workerVars, entryVars, dbVars
<1>19. CASE WaitFinish
  BY <1>19 DEF WaitFinish, workerVars, entryVars, dbVars
<1>20. CASE Quit
  BY <1>20 DEF Quit, workerVars, entryVars, dbVars
<1>21. CASE JoinThreads
  BY <1>21 DEF JoinThreads, workerVars, entryVars, dbVars
<1>22. CASE StopCurl
  BY <1>22 DEF StopCurl, DestroyQueue, workerVars, entryVars, dbVars
<1>23. CASE StopDatabase
  BY <1>23 DEF StopDatabase, workerVars, entryVars, dbVars
<1>24. CASE Signal
  BY <1>24 DEF Signal, workerVars, entryVars, dbVars
<1> QED BY <1>a, <1>b, <1>c, <1>1, <1>2, <1>3, <1>4, <1>5, <1>6, <1>7, <1>8, <1>9, <1>10, <1>11,
    <1>12, <1>13, <1>14, <1>15, <1>16, <1>17, <1>18, <1>19, <1>20, <1>21, <1>22, <1>23, <1>24
    DEF Step

-----------------------------------------------------------------------------
(* The inductive invariant holds initially.                                *)
LEMMA InvariantInit == Init => InductiveInvariant
<1> SUFFICES ASSUME Init PROVE InductiveInvariant
  OBVIOUS
<1>1. Typed
  BY TypedInit
<1>2. PointersOK /\ EntriesOK /\ ShutdownOK
  BY QueueAssumption DEF Init, PointersOK, EntriesOK, ShutdownOK, Threads, Finished
<1>3. TransactionBracketsQueue /\ SavedWhenDequeued
  BY DEF Init, TransactionBracketsQueue, SavedWhenDequeued
<1>4. OwnersOK /\ FailuresOK
  BY DEF Init, OwnersOK, FailuresOK, Owns, Is, Threads, Finished
<1> QED BY <1>1, <1>2, <1>3, <1>4 DEF InductiveInvariant, Typed

(* Every step preserves the inductive invariant.                           *)
LEMMA InvariantNext == InductiveInvariant /\ [Next]_vars => InductiveInvariant'
<1> SUFFICES ASSUME InductiveInvariant, [Next]_vars PROVE InductiveInvariant'
  OBVIOUS
<1> USE DEF InductiveInvariant, Typed
<1>1. CASE UNCHANGED vars
  BY <1>1 DEF vars, entryVars, workerVars, dbVars, TypeOK, PlacesOK, PointersOK, EntriesOK,
      ShutdownOK,
     TransactionBracketsQueue, SavedWhenDequeued, OwnersOK, FailuresOK, Owns, Untouched, Is,
         Finished
<1>2. CASE Step
  <2>1. Typed'
    BY <1>2, TypedNext
  <2>2. PointersOK'
    BY <1>2, <2>1, PointersNext
  <2>3. EntriesOK'
    BY <1>2, <2>1, EntriesNext
  <2>4. ShutdownOK'
    BY <1>2, <2>1, ShutdownNext
  <2>5. TransactionBracketsQueue'
    BY <1>2, <2>1, <2>4, TransactionNext
  <2>6. SavedWhenDequeued'
    BY <1>2, <2>1, SavedNext
  <2>7. ASSUME ~used_after_free' PROVE OwnersOK' /\ FailuresOK'
    <3>1. ~used_after_free
      BY <1>2, <2>7, UseIsRemembered
    <3>2. OwnersOK'
      BY <1>2, <2>1, <2>2, <2>7, <3>1, OwnersNext
    <3>3. FailuresOK'
      BY <1>2, <2>1, <2>2, <2>3, <2>7, <3>1, FailuresNext
    <3> QED BY <3>2, <3>3
  <2> QED BY <2>1, <2>2, <2>3, <2>4, <2>5, <2>6, <2>7
<1> QED BY <1>1, <1>2, NextIsStep

(* The inductive invariant holds in every reachable state, whatever the    *)
(* feeds and the settings are.                                             *)
THEOREM Invariance == Spec => []InductiveInvariant
BY InvariantInit, InvariantNext, PTL DEF Spec

(* Every variable keeps its type.                                          *)
THEOREM TypeCorrect == Spec => []TypeOK
<1>1. InductiveInvariant => TypeOK
  BY DEF InductiveInvariant
<1> QED BY <1>1, Invariance, PTL

(* BEGIN and COMMIT bracket the life of the queue (db.c, queue.c).         *)
THEOREM TransactionsBracket == Spec => []TransactionBracketsQueue
<1>1. InductiveInvariant => TransactionBracketsQueue
  BY DEF InductiveInvariant
<1> QED BY <1>1, Invariance, PTL

(* What an update has written is durable once its entry is gone.           *)
THEOREM DequeuedIsSaved == Spec => []SavedWhenDequeued
<1>1. InductiveInvariant => SavedWhenDequeued
  BY DEF InductiveInvariant
<1> QED BY <1>1, Invariance, PTL

(* CURLOPT_PRIVATE of a running transfer is an entry of the queue that     *)
(* neither its worker nor the inserter is done with.                       *)
THEOREM LiveTransfers == Spec => []TransfersAreLive
<1>1. InductiveInvariant => TransfersAreLive
  BY DEF InductiveInvariant, TransfersAreLive, PointersOK, OwnersOK, Untouched
<1> QED BY <1>1, Invariance, PTL

(* A failure the status line counts has an error text to show.             *)
THEOREM FailuresCanBeLookedUp == Spec => []FailuresHaveErrors
<1>1. InductiveInvariant => FailuresHaveErrors
  BY DEF InductiveInvariant, FailuresHaveErrors, FailuresOK
<1> QED BY <1>1, Invariance, PTL

-----------------------------------------------------------------------------
(* Only three steps free entries: the two queue_examine and curl_stop. *)
LEMMA WhoFrees ==
    ASSUME Typed, Step
    PROVE  \/ dangling' \subseteq dangling
           \/ (InserterExamine \/ MainExamine) /\ Finished = queue /\ DestroyQueue
           \/ StopCurl
BY DEF Step, Typed, TypeOK, Exit, Engage, Idle, StartTransfer, SkipTransfer, Receive,
    NoMoreMessages,
   NoteCurlResult, ParseRest, ExecuteFeed, MarkDownloaded, StartAutoUpdate, AutoUpdate,
       InsertFeed,
   AccountErrors, FinishFeed, InserterExamine, Reload, EditItems, MainExamine, WaitFinish, Quit,
   JoinThreads, StopDatabase, Signal, Raise, Keep, Drop, AddToQueue, ExamineQueue, entryVars,
       workerVars

(* An entry is freed under the worker that points to it only after this    *)
(* worker gave its verdict on it, and never under the inserter.            *)
THEOREM FreedAfterVerdict == Spec => FreedOnlyAfterVerdict
<1> DEFINE Guarded ==
      \A t \in dangling' \ dangling :
          /\ t # "inserter"
          /\ used_after_free \/ flags[target[t]] \cap {"canceled", "failed"} # {}
<1>1. ASSUME InductiveInvariant, [Next]_vars PROVE Guarded
  <2> USE <1>1 DEF InductiveInvariant, Typed
  <2>1. CASE dangling' \subseteq dangling
    BY <2>1
  <2>2. CASE Finished = queue /\ DestroyQueue
    <3> SUFFICES ASSUME NEW t \in dangling' \ dangling
                 PROVE  /\ t # "inserter"
                        /\ used_after_free \/ flags[target[t]] \cap {"canceled", "failed"} # {}
      OBVIOUS
    <3>1. t \in Threads /\ target[t] \in Finished /\ Owns(t)
      BY <2>2 DEF DestroyQueue, PointersOK, Owns, TypeOK
    <3>2. t # "inserter"
      BY <3>1 DEF EntriesOK, Finished, Owns
    <3>3. flags[target[t]] \cap Verdict # {}
      BY <3>1 DEF EntriesOK
    <3>4. OwnersOK => ~Is(target[t], "downloaded")
      BY <3>1, <3>2 DEF OwnersOK, Threads
    <3> QED BY <3>2, <3>3, <3>4 DEF Is, Verdict
  <2>3. CASE StopCurl
    <3>1. \A t \in Threads : target[t] = NoFeed
      BY <2>3 DEF StopCurl, ShutdownOK, PlacesOK, Holding
    <3> QED BY <2>3, <3>1 DEF StopCurl, DestroyQueue
  <2>4. CASE UNCHANGED vars
    BY <2>4 DEF vars, entryVars
  <2> QED BY <2>1, <2>2, <2>3, <2>4, NextIsStep, WhoFrees
<1>2. InductiveInvariant /\ [Next]_vars => [Guarded]_vars
  BY <1>1
<1> QED BY <1>2, Invariance, PTL DEF Spec, FreedOnlyAfterVerdict

-----------------------------------------------------------------------------
(* A write of any flag but is_finished finishes no entry.                  *)
LEMMA FinishedKept ==
    ASSUME Typed, PointersOK, NEW t \in Threads, NEW raised \in SUBSET (Flag \ {"finished"}),
        Raise(t, raised)
    PROVE  Finished' = Finished
BY RaiseEffect DEF Finished, Is, Typed, TypeOK, PointersOK, Flag

(* queue_updates requests the feeds from the abstract batch.               *)
LEMMA AddRequests ==
    ASSUME Typed, EntriesOK, NEW S \in SUBSET Feeds, AddToQueue(S)
    PROVE  Batch!Request(S)
<1>1. Finished' = Finished
  BY DEF AddToQueue, Finished, Is, EntriesOK, Typed, TypeOK
<1> QED BY <1>1 DEF AddToQueue, Batch!Request, Finished

(* queue_examine completes the abstract batch, or changes nothing of it.   *)
LEMMA ExamineCompletes ==
    ASSUME Typed, ExamineQueue
    PROVE  Batch!Complete \/ UNCHANGED Batch!vars
<1>1. CASE Finished = queue /\ Commit /\ DestroyQueue
  BY <1>1 DEF Commit, DestroyQueue, Finished, Batch!Complete
<1>2. CASE UNCHANGED <<entryVars, dbVars>>
  BY <1>2 DEF entryVars, dbVars, Finished, Is, Batch!vars
<1> QED BY <1>1, <1>2 DEF ExamineQueue

(* Every step of a thread is a step of the abstract batch, or none at all. *)
LEMMA StepImplements ==
    ASSUME InductiveInvariant, Step
    PROVE  Batch!Next \/ UNCHANGED Batch!vars
<1> USE QueueAssumption DEF InductiveInvariant, Typed
<1> DEFINE Stutter == UNCHANGED Batch!vars
<1>a. ASSUME NEW t \in Threads, Exit(t) PROVE Stutter
  BY <1>a DEF Exit, Finished, Is, Batch!vars, workerVars, entryVars, dbVars
<1>b. ASSUME NEW t \in Threads, Engage(t) PROVE Stutter
  BY <1>b DEF Engage, TypeOK, Finished, Is, Batch!vars, workerVars, entryVars, dbVars
<1>c. ASSUME NEW t \in Threads, Idle(t) PROVE Stutter
  BY <1>c DEF Idle, Finished, Is, Batch!vars, workerVars, entryVars, dbVars
<1>1. ASSUME StartTransfer PROVE Stutter
  BY <1>1 DEF StartTransfer, Finished, Is, Batch!vars, workerVars, entryVars, dbVars
<1>2. ASSUME SkipTransfer PROVE Stutter
  BY <1>2, FinishedKept, RaiseEffect DEF SkipTransfer, Threads, Flag, Batch!vars, workerVars,
      entryVars, dbVars
<1>3. ASSUME NEW f \in Feeds, Receive(f) PROVE Stutter
  BY <1>3 DEF Receive, TypeOK, Finished, Is, Batch!vars, workerVars, entryVars, dbVars
<1>4. ASSUME NoMoreMessages PROVE Stutter
  BY <1>4 DEF NoMoreMessages, Finished, Is, Batch!vars, workerVars, entryVars, dbVars
<1>5. ASSUME NoteCurlResult PROVE Stutter
  <2>1. CASE UNCHANGED <<queue, flags>>
    BY <1>5, <2>1 DEF NoteCurlResult, Finished, Is, Batch!vars, dbVars
  <2>2. ASSUME NEW raised \in SUBSET (Flag \ {"finished"}), Raise("downloader", raised) PROVE
      Stutter
    <3>1. Finished' = Finished /\ queue' = queue
      BY <2>2, FinishedKept DEF Raise, Threads
    <3> QED BY <1>5, <3>1 DEF NoteCurlResult, Batch!vars, dbVars
  <2> QED BY <1>5, <2>1, <2>2 DEF NoteCurlResult, Flag, entryVars
<1>6. ASSUME ParseRest PROVE Stutter
  <2>1. CASE UNCHANGED <<queue, flags>>
    BY <1>6, <2>1 DEF ParseRest, Finished, Is, Batch!vars, dbVars
  <2>2. ASSUME NEW raised \in SUBSET (Flag \ {"finished"}), Raise("downloader", raised) PROVE
      Stutter
    <3>1. Finished' = Finished /\ queue' = queue
      BY <2>2, FinishedKept DEF Raise, Threads
    <3> QED BY <1>6, <3>1 DEF ParseRest, Batch!vars, dbVars
  <2> QED BY <1>6, <2>1, <2>2 DEF ParseRest, Flag, entryVars
<1>7. ASSUME ExecuteFeed PROVE Stutter
  <2>1. CASE UNCHANGED <<queue, flags>>
    BY <1>7, <2>1 DEF ExecuteFeed, Finished, Is, Batch!vars, dbVars
  <2>2. ASSUME NEW raised \in SUBSET (Flag \ {"finished"}), Raise("executor", raised) PROVE
      Stutter
    <3>1. Finished' = Finished /\ queue' = queue
      BY <2>2, FinishedKept DEF Raise, Threads
    <3> QED BY <1>7, <3>1 DEF ExecuteFeed, Batch!vars, dbVars
  <2> QED BY <1>7, <2>1, <2>2 DEF ExecuteFeed, Flag, entryVars
<1>8. ASSUME MarkDownloaded("downloader") PROVE Stutter
  BY <1>8, FinishedKept, RaiseEffect DEF MarkDownloaded, Threads, Flag, Batch!vars, workerVars,
      entryVars, dbVars
<1>9. ASSUME MarkDownloaded("executor") PROVE Stutter
  BY <1>9, FinishedKept, RaiseEffect DEF MarkDownloaded, Threads, Flag, Batch!vars, workerVars,
      entryVars, dbVars
<1>10. ASSUME StartAutoUpdate PROVE Stutter
  BY <1>10 DEF StartAutoUpdate, Finished, Is, Batch!vars, workerVars, entryVars, dbVars
<1>11. ASSUME AutoUpdate PROVE Batch!Next \/ UNCHANGED Batch!vars
  <2>1. CASE UNCHANGED <<due, entryVars, dbVars>>
    BY <2>1 DEF Finished, Is, Batch!vars, workerVars, entryVars, dbVars
  <2>2. ASSUME NEW f \in due, AddToQueue({f}) PROVE Batch!Next
    <3>1. {f} \in SUBSET Feeds
      BY DEF TypeOK
    <3> QED BY <2>2, <3>1, AddRequests DEF Batch!Next
  <2> QED BY <1>11, <2>1, <2>2 DEF AutoUpdate
<1>12. ASSUME InsertFeed PROVE Batch!Next \/ UNCHANGED Batch!vars
  <2> DEFINE f == target["inserter"]
  <2>1. f \in queue \ Finished
    BY <1>12 DEF InsertFeed, PlacesOK, PointersOK, EntriesOK, Threads, Holding, Finished
  <2>2. Finished' = Finished /\ queue' = queue
    <3>1. CASE UNCHANGED <<queue, flags>>
      BY <3>1 DEF Finished, Is
    <3>2. ASSUME NEW raised \in SUBSET (Flag \ {"finished"}), Raise("inserter", raised)
          PROVE  Finished' = Finished /\ queue' = queue
      BY <3>2, FinishedKept DEF Raise, Threads
    <3> QED BY <1>12, <3>1, <3>2 DEF InsertFeed, Flag
  <2>3. uncommitted' = uncommitted \/ uncommitted' = uncommitted \cup {f}
    BY <1>12 DEF InsertFeed, WriteFeed, dbVars
  <2>4. CASE uncommitted' = uncommitted
    BY <2>2, <2>4 DEF Batch!vars
  <2>5. CASE uncommitted' = uncommitted \cup {f}
    <3>1. Batch!Store(f)
      BY <2>1, <2>2, <2>5 DEF Batch!Store
    <3> QED BY <2>1, <3>1 DEF Batch!Next, TypeOK
  <2> QED BY <2>3, <2>4, <2>5
<1>13. ASSUME AccountErrors PROVE Stutter
  BY <1>13 DEF AccountErrors, Finished, Is, Batch!vars, workerVars, entryVars, dbVars
<1>14. ASSUME FinishFeed PROVE Batch!Next \/ UNCHANGED Batch!vars
  <2> DEFINE f == target["inserter"]
  <2>1. f \in queue \ Finished /\ f \in Feeds
    BY <1>14 DEF FinishFeed, TypeOK, PlacesOK, PointersOK, EntriesOK, Threads, Holding, Finished
  <2>2. queue' = queue /\ Finished' = Finished \cup {f}
    BY <1>14, <2>1, RaiseEffect DEF FinishFeed, Finished, Is, Threads, Flag, PointersOK, TypeOK
  <2>3. Batch!Settle(f)
    BY <1>14, <2>1, <2>2 DEF FinishFeed, Batch!Settle, dbVars
  <2> QED BY <2>1, <2>3 DEF Batch!Next
<1>15. ASSUME InserterExamine PROVE Batch!Next \/ UNCHANGED Batch!vars
  BY <1>15, ExamineCompletes DEF InserterExamine, Batch!Next
<1>16. ASSUME Reload PROVE Batch!Next \/ UNCHANGED Batch!vars
  <2>1. PICK S \in SUBSET Feeds : AddToQueue(S)
    BY <1>16 DEF Reload
  <2> QED BY <2>1, AddRequests DEF Batch!Next
<1>17. ASSUME EditItems PROVE Stutter
  BY <1>17 DEF EditItems, Finished, Is, Batch!vars, workerVars, entryVars, dbVars
<1>18. ASSUME MainExamine PROVE Batch!Next \/ UNCHANGED Batch!vars
  BY <1>18, ExamineCompletes DEF MainExamine, Batch!Next
<1>19. ASSUME WaitFinish PROVE Stutter
  BY <1>19 DEF WaitFinish, Finished, Is, Batch!vars, workerVars, entryVars, dbVars
<1>20. ASSUME Quit PROVE Stutter
  BY <1>20 DEF Quit, Finished, Is, Batch!vars, workerVars, entryVars, dbVars
<1>21. ASSUME JoinThreads PROVE Stutter
  BY <1>21 DEF JoinThreads, Finished, Is, Batch!vars, workerVars, entryVars, dbVars
<1>22. ASSUME StopCurl PROVE Batch!Next \/ UNCHANGED Batch!vars
  BY <1>22 DEF StopCurl, DestroyQueue, Finished, dbVars, Batch!Next, Batch!Abandon
<1>23. ASSUME StopDatabase PROVE Batch!Next \/ UNCHANGED Batch!vars
  BY <1>23 DEF StopDatabase, ShutdownOK, Finished, Is, entryVars, Batch!Next, Batch!Forget
<1>24. ASSUME Signal PROVE Stutter
  BY <1>24 DEF Signal, Finished, Is, Batch!vars, workerVars, entryVars, dbVars
<1> QED BY <1>a, <1>b, <1>c, <1>1, <1>2, <1>3, <1>4, <1>5, <1>6, <1>7, <1>8, <1>9, <1>10, <1>11,
    <1>12, <1>13, <1>14, <1>15, <1>16, <1>17, <1>18, <1>19, <1>20, <1>21, <1>22, <1>23, <1>24
    DEF Step

(* The four threads with their queue implement the batch of FeedUpdates:   *)
(* whatever order they run in, the requested feeds are settled once each,  *)
(* and the batch ends, durable, only when all of them are.                 *)
THEOREM QueueImplementsBatch == Spec => ImplementsBatch
<1>1. Init => Batch!Init
  BY DEF Init, Batch!Init, Finished
<1>2. InductiveInvariant /\ [Next]_vars => [Batch!Next]_(Batch!vars)
  <2>1. ASSUME UNCHANGED vars PROVE UNCHANGED Batch!vars
    BY <2>1 DEF vars, entryVars, dbVars, Finished, Is, Batch!vars
  <2> QED BY <2>1, NextIsStep, StepImplements
<1> QED BY <1>1, <1>2, Invariance, PTL DEF Spec, Batch!Spec, ImplementsBatch

=============================================================================
