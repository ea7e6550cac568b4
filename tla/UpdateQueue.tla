----------------------------- MODULE UpdateQueue -----------------------------
(***************************************************************************)
(* The update queue of newsraft and the four threads that share it: the    *)
(* main thread, which asks for reloads (queue.c, sections.c, newsraft.c),  *)
(* and the downloader, executor and inserter workers (downloader.c,        *)
(* executor.c, inserter.c).                                                *)
(*                                                                         *)
(* An entry of the queue (struct feed_update_state) is identified with its *)
(* feed: queue_updates never adds a feed which is already present.  Every  *)
(* section of code under update_queue_lock is one action; the writes that  *)
(* workers make to an entry without the lock are one action each.          *)
(*                                                                         *)
(* Workers keep a pointer to an entry after queue_pull has released the    *)
(* lock.  When the queue is destroyed meanwhile the pointer dangles, and a *)
(* write through it is either lost or lands in an entry that was allocated *)
(* since then, i.e. in any entry of the present queue.                     *)
(***************************************************************************)
EXTENDS Naturals, FiniteSets

CONSTANTS
    Feeds,              \* feeds of the global section
    ShellFeeds,         \* those whose URL is a command, "$(...)"
    AutoFeeds,          \* those with a nonzero reload-period
    NoFeed,             \* the NULL target of a worker
    Replies,            \* how a transfer may end, see ReplyType
    ShellFailures,      \* can a command of a shell feed fail?
    BatchTransactions,  \* the database-batch-transactions setting
    Mode,               \* "regular" or "reload" (-e reload-all)
    Signals,            \* can SIGINT, SIGQUIT or SIGTERM arrive?
    UserEdits,          \* does the user edit items meanwhile?
    BlockReuse          \* does the allocator hand freed entries out again?

ReplyType == [code : {"success", "not_modified", "too_many", "error"}, ok : BOOLEAN]

(* The value of reply while no message is being processed. *)
NoReply == [code |-> "success", ok |-> TRUE]

ASSUME QueueAssumption ==
    /\ ShellFeeds \subseteq Feeds
    /\ AutoFeeds \subseteq Feeds
    /\ NoFeed \notin Feeds
    /\ Replies \subseteq ReplyType
    /\ ShellFailures \in BOOLEAN
    /\ BatchTransactions \in BOOLEAN
    /\ Mode \in {"regular", "reload"}
    /\ Signals \in BOOLEAN
    /\ UserEdits \in BOOLEAN
    /\ BlockReuse \in BOOLEAN

Threads == {"downloader", "executor", "inserter"}

Flag == {"in_progress", "downloaded", "canceled", "failed", "finished", "errors"}

(* Any of these hands an entry over to the inserter. *)
Verdict == {"downloaded", "canceled", "failed"}

VARIABLES
    main,               \* where the main thread is
    stop,               \* they_want_us_to_stop
    pc,                 \* where each worker is in its loop
    target,             \* the entry a worker points to
    reply,              \* the message the downloader is processing
    due,                \* feeds left to queue in process_auto_updating_feeds
    queue,              \* feeds that have an entry in update_queue
    flags,              \* flags raised in the entry of each feed
    transfers,          \* entries whose transfer runs in the curl multi stack
    errors,             \* feeds whose error text is not empty
    dangling,           \* workers whose target has been freed
    used_after_free,    \* has a dangling target been used?
    transaction,        \* is there an open database transaction?
    uncommitted,        \* feeds written to the database in this transaction
    unsaved_edits,      \* are there edits of the user in this transaction?
    lost_edits          \* have edits of the user been rolled back?

entryVars == <<queue, flags, transfers, dangling, used_after_free>>
dbVars == <<transaction, uncommitted, unsaved_edits, lost_edits>>
workerVars == <<pc, target, reply, due>>
vars == <<main, stop, workerVars, entryVars, errors, dbVars>>

-----------------------------------------------------------------------------
Is(f, flag) == flag \in flags[f]

(* Mutant: an entry counts as finished as soon as it is handed over. *)
FinishedEarly == {f \in queue : Is(f, "downloaded") \/ Is(f, "canceled") \/ Is(f, "failed")}

Finished == {f \in queue : Is(f, "finished")}

(* Entries in which a write through t's pointer can end up. *)
Landing(t) ==
    IF t \notin dangling THEN {{target[t]}}
    ELSE {{}} \cup {{g} : g \in IF BlockReuse THEN queue ELSE {}}

(* t sets the given flags through its pointer. *)
Raise(t, raised) ==
    /\ \E hit \in Landing(t) :
        flags' = [f \in Feeds |-> IF f \in hit THEN flags[f] \cup raised ELSE flags[f]]
    /\ used_after_free' = (used_after_free \/ t \in dangling)
    /\ UNCHANGED <<queue, transfers>>

Keep(t) == dangling' = dangling

(* t forgets its pointer. *)
Drop(t) ==
    /\ target' = [target EXCEPT ![t] = NoFeed]
    /\ dangling' = dangling \ {t}

Goto(t, place) == pc' = [pc EXCEPT ![t] = place]

(* Mutant: queue_updates does not look for the feed in the queue, but      *)
(* starts its update all over.                                             *)
AddToQueueAgain(S) ==
    /\ queue' = queue \cup S
    /\ flags' = [f \in Feeds |-> IF f \in S THEN {} ELSE flags[f]]
    /\ transaction' = (transaction \/ (BatchTransactions /\ queue = {}))
    /\ UNCHANGED <<transfers, dangling, used_after_free>>
    /\ UNCHANGED <<uncommitted, unsaved_edits, lost_edits>>

(* queue_updates up to the point where it releases update_queue_lock. *)
AddToQueue(S) ==
    /\ queue' = queue \cup S
    /\ transaction' = (transaction \/ (BatchTransactions /\ queue = {}))
    /\ UNCHANGED <<flags, transfers, dangling, used_after_free>>
    /\ UNCHANGED <<uncommitted, unsaved_edits, lost_edits>>

(* Mutant: the handles of unfinished transfers are not removed. *)
DestroyEntriesOnly ==
    /\ queue' = {}
    /\ flags' = [f \in Feeds |-> {}]
    /\ dangling' = dangling \cup {t \in Threads : target[t] # NoFeed}
    /\ UNCHANGED <<transfers, used_after_free>>

(* queue_destroy_unprotected *)
DestroyQueue ==
    /\ queue' = {}
    /\ flags' = [f \in Feeds |-> {}]
    /\ transfers' = {}
    /\ dangling' = dangling \cup {t \in Threads : target[t] # NoFeed}
    /\ UNCHANGED used_after_free

Commit ==
    /\ transaction' = FALSE
    /\ uncommitted' = {}
    /\ unsaved_edits' = FALSE
    /\ UNCHANGED lost_edits

(* Mutant: what is finished is committed without waiting for the rest. *)
ExamineCommittingEach ==
    /\ IF Finished # {} THEN Commit ELSE UNCHANGED dbVars
    /\ IF Finished = queue THEN DestroyQueue ELSE UNCHANGED entryVars

(* Mutant: the queue is destroyed without a commit. *)
ExamineWithoutCommit ==
    /\ IF Finished = queue THEN DestroyQueue ELSE UNCHANGED entryVars
    /\ UNCHANGED dbVars

(* queue_examine: an empty queue counts as finished, too. *)
ExamineQueue ==
    \/ /\ Finished = queue
       /\ Commit
       /\ DestroyQueue
    \/ /\ Finished # queue
       /\ UNCHANGED <<entryVars, dbVars>>

-----------------------------------------------------------------------------
(* Entries each worker would engage with in queue_pull. *)
Waiting(t) ==
    CASE t = "downloader" -> {f \in queue \ ShellFeeds : ~Is(f, "finished") /\ ~Is(f, "in_progress")}
      [] t = "executor" -> {f \in queue \cap ShellFeeds : ~Is(f, "finished") /\ ~Is(f, "in_progress")}
      [] t = "inserter" -> {f \in queue : ~Is(f, "finished") /\ flags[f] \cap Verdict # {}}

(* Mutant: a worker stops only when there is nothing left in the queue. *)
ExitWhenDrained(t) ==
    /\ pc[t] = "loop"
    /\ stop
    /\ queue = {}
    /\ Goto(t, "exited")
    /\ UNCHANGED <<main, stop, target, reply, due, entryVars, errors, dbVars>>

(* The head of a worker's loop. *)
Exit(t) ==
    /\ pc[t] = "loop"
    /\ stop
    /\ Goto(t, "exited")
    /\ UNCHANGED <<main, stop, target, reply, due, entryVars, errors, dbVars>>

(* A worker that need not stop calls queue_pull.  The check and the call   *)
(* are one step: a stop set between them might as well be set after them.  *)
(* The inserter has no check between its automatic updates and its pull.   *)
Pulls(t) == (pc[t] = "loop" /\ ~stop) \/ pc[t] = "pull"

(* queue_pull finds something to do; the inserter does not mark its target. *)
Engage(t) ==
    /\ Pulls(t)
    /\ \E f \in Waiting(t) :
        /\ target' = [target EXCEPT ![t] = f]
        /\ flags' = IF t = "inserter" THEN flags
                    ELSE [flags EXCEPT ![f] = @ \cup {"in_progress"}]
    /\ Goto(t, "work")
    /\ UNCHANGED <<main, stop, reply, due, queue, transfers, dangling, used_after_free>>
    /\ UNCHANGED <<errors, dbVars>>

(* queue_pull finds nothing: a nap, or a poll of the running transfers. *)
Idle(t) ==
    /\ Pulls(t)
    /\ Waiting(t) = {}
    /\ Goto(t, IF t = "downloader" THEN "perform" ELSE "loop")
    /\ UNCHANGED <<main, stop, target, reply, due, entryVars, errors, dbVars>>

-----------------------------------------------------------------------------
(* prepare_feed_update_state_for_download and curl_multi_add_handle.  (The *)
(* target dangles here only in the wake of an earlier use after free; what *)
(* curl makes of it then is not followed any further.)                     *)
StartTransfer ==
    /\ pc["downloader"] = "work"
    /\ transfers' = IF "downloader" \in dangling THEN transfers
                    ELSE transfers \cup {target["downloader"]}
    /\ Drop("downloader")
    /\ Goto("downloader", "perform")
    /\ UNCHANGED <<main, stop, reply, due, queue, flags, used_after_free, errors, dbVars>>

(* Mutant: an update which is skipped is not marked as canceled. *)
SkipTransferSilently ==
    /\ pc["downloader"] = "work"
    /\ Drop("downloader")
    /\ Goto("downloader", "perform")
    /\ UNCHANGED <<main, stop, reply, due, queue, flags, transfers, used_after_free, errors, dbVars>>

(* The stored Expires date or the ttl element forbids the download, or a  *)
(* stored date or curl itself is broken.                                   *)
SkipTransfer ==
    /\ pc["downloader"] = "work"
    /\ \E raised \in {"canceled", "failed"} : Raise("downloader", {raised})
    /\ Drop("downloader")
    /\ Goto("downloader", "perform")
    /\ UNCHANGED <<main, stop, reply, due, errors, dbVars>>

(* A DONE message of the multi stack: its response code is examined. *)
Receive(f) ==
    /\ pc["downloader"] = "perform"
    /\ f \in transfers
    /\ transfers' = transfers \ {f}
    /\ target' = [target EXCEPT !["downloader"] = f]
    /\ reply' \in Replies
    /\ flags' = [flags EXCEPT ![f] = IF reply'.code \in {"not_modified", "too_many"}
                                     THEN @ \cup {"canceled"} ELSE @]
    /\ Goto("downloader", "result")
    /\ UNCHANGED <<main, stop, due, queue, dangling, used_after_free, errors, dbVars>>

NoMoreMessages ==
    /\ pc["downloader"] = "perform"
    /\ Goto("downloader", "loop")
    /\ UNCHANGED <<main, stop, target, reply, due, entryVars, errors, dbVars>>

(* A transfer that curl reports as failed: its error text, then is_failed. *)
NoteCurlResult ==
    /\ pc["downloader"] = "result"
    /\ \/ reply.ok /\ UNCHANGED entryVars
       \/ ~reply.ok /\ Raise("downloader", {"errors", "failed"}) /\ Keep("downloader")
    /\ Goto("downloader", "final")
    /\ UNCHANGED <<main, stop, target, reply, due, errors, dbVars>>

(* The final parsing call, unless the entry is failed or canceled; what a  *)
(* freed entry seems to say is arbitrary.                                  *)
ParseRest ==
    LET f == target["downloader"]
        settledBefore == Is(f, "failed") \/ Is(f, "canceled")
    IN  /\ pc["downloader"] = "final"
        /\ \/ /\ "downloader" \in dangling \/ settledBefore
              /\ used_after_free' = (used_after_free \/ "downloader" \in dangling)
              /\ UNCHANGED <<queue, flags, transfers>>
           \/ /\ "downloader" \in dangling \/ ~settledBefore
              /\ \E raised \in {{}, {"errors", "failed"}} : Raise("downloader", raised)
        /\ Keep("downloader")
        /\ Goto("downloader", "mark")
        /\ UNCHANGED <<main, stop, target, reply, due, errors, dbVars>>

(* execute_feed: the command is run and its output is parsed. *)
ExecuteFeed ==
    /\ pc["executor"] = "work"
    /\ \/ UNCHANGED entryVars
       \/ /\ ShellFailures
          /\ \E raised \in {{"failed"}, {"errors", "failed"}} : Raise("executor", raised)
          /\ Keep("executor")
    /\ Goto("executor", "mark")
    /\ UNCHANGED <<main, stop, target, reply, due, errors, dbVars>>

(* is_downloaded = true, the last access of a fetching worker. *)
MarkDownloaded(t) ==
    /\ pc[t] = "mark"
    /\ Raise(t, {"downloaded"})
    /\ Drop(t)
    /\ Goto(t, IF t = "downloader" THEN "perform" ELSE "loop")
    /\ reply' = IF t = "downloader" THEN NoReply ELSE reply
    /\ UNCHANGED <<main, stop, due, errors, dbVars>>

-----------------------------------------------------------------------------
(* The inserter's loop begins with process_auto_updating_feeds once a      *)
(* minute: any feeds with a reload period may have become due.             *)
StartAutoUpdate ==
    /\ pc["inserter"] = "loop"
    /\ ~stop
    /\ due' \in SUBSET AutoFeeds
    /\ Goto("inserter", "auto")
    /\ UNCHANGED <<main, stop, target, reply, entryVars, errors, dbVars>>

AutoUpdate ==
    /\ pc["inserter"] = "auto"
    /\ \/ /\ due = {}
          /\ Goto("inserter", "pull")
          /\ UNCHANGED <<due, entryVars, dbVars>>
       \/ \E f \in due :
          /\ AddToQueue({f})
          /\ due' = due \ {f}
          /\ Goto("inserter", "auto_examine")
    /\ UNCHANGED <<main, stop, target, reply, errors>>

(* Writes of feed content; without a transaction they are durable at once. *)
WriteFeed(f) ==
    /\ uncommitted' = IF transaction THEN uncommitted \cup {f} ELSE uncommitted
    /\ UNCHANGED <<transaction, unsaved_edits, lost_edits>>

(* What the inserter does with an entry depends on its flags: a failed one *)
(* gets an error text, a canceled one gets its dates updated, the content  *)
(* of any other is inserted, which may fail.                               *)
InsertFeed ==
    LET f == target["inserter"]
    IN  /\ pc["inserter"] = "work"
        /\ \/ /\ Is(f, "failed")
              /\ Raise("inserter", {"errors"})
              /\ UNCHANGED dbVars
           \/ /\ ~Is(f, "failed")
              /\ Is(f, "canceled")
              /\ WriteFeed(f)
              /\ UNCHANGED <<queue, flags, transfers, used_after_free>>
           \/ /\ ~Is(f, "failed")
              /\ ~Is(f, "canceled")
              /\ WriteFeed(f)
              /\ \E raised \in {{}, {"errors"}} : Raise("inserter", raised)
        /\ Keep("inserter")
        /\ Goto("inserter", "account")
        /\ UNCHANGED <<main, stop, target, reply, due, errors>>

(* Mutant: the feed does not take over the errors of its update. *)
AccountNothing ==
    /\ pc["inserter"] = "account"
    /\ Goto("inserter", "finish")
    /\ UNCHANGED <<main, stop, target, reply, due, entryVars, errors, dbVars>>

(* Under interface_lock: the feed takes over the errors of its update; when *)
(* its items cannot be counted that is an error of the feed, too.          *)
AccountErrors ==
    LET f == target["inserter"]
    IN  /\ pc["inserter"] = "account"
        /\ \/ errors' = IF Is(f, "errors") THEN errors \cup {f} ELSE errors \ {f}
           \/ errors' = errors \cup {f}
        /\ Goto("inserter", "finish")
        /\ UNCHANGED <<main, stop, target, reply, due, entryVars, dbVars>>

FinishFeed ==
    /\ pc["inserter"] = "finish"
    /\ Raise("inserter", {"finished"})
    /\ Drop("inserter")
    /\ Goto("inserter", "examine")
    /\ UNCHANGED <<main, stop, reply, due, errors, dbVars>>

(* Mutant: the inserter leaves the examination of the queue to others. *)
InserterMoveOn ==
    /\ \/ pc["inserter"] = "examine" /\ Goto("inserter", "loop")
       \/ pc["inserter"] = "auto_examine" /\ Goto("inserter", "auto")
    /\ UNCHANGED <<main, stop, target, reply, due, errors, entryVars, dbVars>>

InserterExamine ==
    /\ \/ pc["inserter"] = "examine" /\ Goto("inserter", "loop")
       \/ pc["inserter"] = "auto_examine" /\ Goto("inserter", "auto")
    /\ ExamineQueue
    /\ UNCHANGED <<main, stop, target, reply, due, errors>>

-----------------------------------------------------------------------------
(* The user edits items: one UPDATE on the connection all threads share. *)
EditItems ==
    /\ UserEdits
    /\ main = "menu"
    /\ ~stop
    /\ unsaved_edits' = (unsaved_edits \/ transaction)
    /\ UNCHANGED <<main, stop, workerVars, entryVars, errors, transaction, uncommitted, lost_edits>>

(* queue_updates of a feed, of a section (which may be empty), or of all,  *)
(* after a menu loop of the regular mode has read the command for it; the  *)
(* reload mode asks for all feeds once.                                    *)
Reload ==
    /\ \/ /\ main = "menu"
          /\ ~stop
          /\ \E S \in SUBSET Feeds : AddToQueue(S)
       \/ /\ main = "reload"
          /\ AddToQueue(Feeds)
    /\ main' = "examine"
    /\ UNCHANGED <<stop, workerVars, errors>>

MainExamine ==
    /\ main = "examine"
    /\ ExamineQueue
    /\ main' = IF Mode = "regular" THEN "menu" ELSE "waiting"
    /\ UNCHANGED <<stop, workerVars, errors>>

(* queue_wait_finish polls until the queue is empty, whatever stop says. *)
WaitFinish ==
    /\ main = "waiting"
    /\ queue = {}
    /\ main' = "joining"
    /\ stop' = TRUE
    /\ UNCHANGED <<workerVars, entryVars, errors, dbVars>>

(* The user quits, or the menu loop notices that it has to stop. *)
Quit ==
    /\ main = "menu"
    /\ main' = "joining"
    /\ stop' = TRUE
    /\ UNCHANGED <<workerVars, entryVars, errors, dbVars>>

(* Mutant: the threads are told to stop but not joined. *)
JoinNobody ==
    /\ main = "joining"
    /\ main' = "joined"
    /\ UNCHANGED <<stop, workerVars, entryVars, errors, dbVars>>

(* threads_stop *)
JoinThreads ==
    /\ main = "joining"
    /\ \A t \in Threads : pc[t] = "exited"
    /\ main' = "joined"
    /\ UNCHANGED <<stop, workerVars, entryVars, errors, dbVars>>

(* curl_stop *)
StopCurl ==
    /\ main = "joined"
    /\ DestroyQueue
    /\ main' = "freed"
    /\ UNCHANGED <<stop, workerVars, errors, dbVars>>

(* db_stop: closing the connection rolls an open transaction back. *)
StopDatabase ==
    /\ main = "freed"
    /\ main' = "closed"
    /\ lost_edits' = (lost_edits \/ unsaved_edits)
    /\ transaction' = FALSE
    /\ uncommitted' = {}
    /\ unsaved_edits' = FALSE
    /\ UNCHANGED <<stop, workerVars, entryVars, errors>>

(* tell_program_to_terminate_safely_and_quickly *)
Signal ==
    /\ Signals
    /\ main # "closed"
    /\ ~stop
    /\ stop' = TRUE
    /\ UNCHANGED <<main, workerVars, entryVars, errors, dbVars>>

Terminated == main = "closed" /\ UNCHANGED vars

-----------------------------------------------------------------------------
Init ==
    /\ main = IF Mode = "regular" THEN "menu" ELSE "reload"
    /\ stop = FALSE
    /\ pc = [t \in Threads |-> "loop"]
    /\ target = [t \in Threads |-> NoFeed]
    /\ reply = NoReply
    /\ due = {}
    /\ queue = {}
    /\ flags = [f \in Feeds |-> {}]
    /\ transfers = {}
    /\ errors = {}
    /\ dangling = {}
    /\ used_after_free = FALSE
    /\ transaction = FALSE
    /\ uncommitted = {}
    /\ unsaved_edits = FALSE
    /\ lost_edits = FALSE

Worker(t) == Exit(t) \/ Engage(t) \/ Idle(t)

Downloader ==
    \/ Worker("downloader")
    \/ StartTransfer \/ SkipTransfer
    \/ \E f \in Feeds : Receive(f)
    \/ NoMoreMessages
    \/ NoteCurlResult \/ ParseRest
    \/ MarkDownloaded("downloader")

Executor == Worker("executor") \/ ExecuteFeed \/ MarkDownloaded("executor")

Inserter ==
    \/ Worker("inserter")
    \/ StartAutoUpdate \/ AutoUpdate
    \/ InsertFeed \/ AccountErrors \/ FinishFeed
    \/ InserterExamine

(* What the main thread does on its own, once it has something to do. *)
MainProgress ==
    \/ main = "reload" /\ Reload
    \/ MainExamine \/ WaitFinish
    \/ stop /\ Quit
    \/ JoinThreads \/ StopCurl \/ StopDatabase

Main == Reload \/ EditItems \/ Quit \/ MainProgress

Next == Main \/ Downloader \/ Executor \/ Inserter \/ Signal \/ Terminated

(* Every thread keeps running: naps and polls are timed, a command of a    *)
(* shell feed ends, and a transfer ends at the latest with its timeout.    *)
Fairness ==
    /\ WF_vars(MainProgress)
    /\ WF_vars(Downloader)
    /\ WF_vars(Executor)
    /\ WF_vars(Inserter)
    /\ \A f \in Feeds : SF_vars(Receive(f))

Spec == Init /\ [][Next]_vars
FairSpec == Spec /\ Fairness
-----------------------------------------------------------------------------
TypeOK ==
    /\ main \in {"menu", "reload", "examine", "waiting", "joining", "joined", "freed", "closed"}
    /\ stop \in BOOLEAN
    /\ pc \in [Threads -> {"loop", "pull", "work", "perform", "result", "final", "mark",
                           "auto", "auto_examine", "account", "finish", "examine", "exited"}]
    /\ target \in [Threads -> Feeds \cup {NoFeed}]
    /\ reply \in ReplyType
    /\ due \in SUBSET AutoFeeds
    /\ queue \in SUBSET Feeds
    /\ flags \in [Feeds -> SUBSET Flag]
    /\ transfers \in SUBSET Feeds
    /\ errors \in SUBSET Feeds
    /\ dangling \in SUBSET Threads
    /\ used_after_free \in BOOLEAN
    /\ transaction \in BOOLEAN
    /\ uncommitted \in SUBSET Feeds
    /\ unsaved_edits \in BOOLEAN
    /\ lost_edits \in BOOLEAN

(* Threads use their entries without the lock, so the queue can be freed   *)
(* under them.  That never happens to the inserter, nor to a download or a *)
(* command that is still going on: it takes an entry which its worker has  *)
(* flagged as canceled or failed before being through with it.             *)
FreedOnlyAfterVerdict ==
    [][\A t \in dangling' \ dangling :
          /\ t # "inserter"
          /\ used_after_free \/ flags[target[t]] \cap {"canceled", "failed"} # {}]_vars

(* The pointer stored with CURLOPT_PRIVATE stays valid: an entry whose     *)
(* transfer is running is in the queue, and the inserter leaves it alone.  *)
TransfersAreLive ==
    used_after_free \/
    \A f \in transfers : f \in queue /\ flags[f] = {"in_progress"}

(* With batch transactions every update of a nonempty queue happens inside *)
(* a transaction, whichever threads add to the queue and examine it, and   *)
(* no transaction stays open once the queue is gone: BEGIN and COMMIT      *)
(* bracket the life of the queue.                                          *)
TransactionBracketsQueue ==
    /\ BatchTransactions /\ queue # {} => transaction
    /\ transaction => queue # {} \/ main \in {"examine", "freed"}

(* What an update has written is durable when its entry is gone, unless    *)
(* the program was closed in the middle of the batch.                      *)
SavedWhenDequeued == main = "freed" \/ uncommitted \subseteq queue

(* A failure that queue_examine counts can be looked up: the feed has an   *)
(* error text.  Only a 429 response can be counted without one, because it *)
(* is canceled before it is failed.                                        *)
FailuresHaveErrors ==
    used_after_free \/
    \A f \in Finished : Is(f, "failed") => f \in errors \/ Is(f, "canceled")

-----------------------------------------------------------------------------
(* The inductive invariant behind these properties, part by part.          *)

(* The places in which a worker holds a target. *)
Holding == {"work", "result", "final", "mark", "account", "finish"}

PlacesOK ==
    /\ pc["downloader"] \in {"loop", "work", "perform", "result", "final", "mark", "exited"}
    /\ pc["executor"] \in {"loop", "work", "mark", "exited"}
    /\ pc["inserter"] \in {"loop", "pull", "auto", "auto_examine", "work", "account", "finish",
                           "examine", "exited"}
    /\ \A t \in Threads : target[t] # NoFeed <=> pc[t] \in Holding

PointersOK ==
    /\ \A t \in dangling : target[t] # NoFeed
    /\ \A t \in Threads : target[t] # NoFeed /\ t \notin dangling => target[t] \in queue
    /\ "inserter" \notin dangling
    /\ transfers \subseteq queue \ ShellFeeds
    /\ target["downloader"] \notin ShellFeeds
    /\ target["executor"] # NoFeed => target["executor"] \in ShellFeeds

EntriesOK ==
    /\ \A f \in Feeds \ queue : flags[f] = {}
    /\ \A f \in Finished : flags[f] \cap Verdict # {}
    /\ target["inserter"] # NoFeed =>
        /\ flags[target["inserter"]] \cap Verdict # {}
        /\ ~Is(target["inserter"], "finished")

ShutdownOK ==
    /\ main \in {"joined", "freed", "closed"} => \A t \in Threads : pc[t] = "exited"
    /\ main \in {"freed", "closed"} => queue = {}

(* The fetching worker t holds an entry which has not been freed. *)
Owns(t) == target[t] # NoFeed /\ t \notin dangling

Untouched(f) == flags[f] = {"in_progress"}

OwnersOK ==
    /\ \A f \in Feeds : ~Is(f, "in_progress") => flags[f] = {}
    /\ \A t \in {"downloader", "executor"} : Owns(t) =>
        /\ Is(target[t], "in_progress") /\ ~Is(target[t], "downloaded")
        /\ pc[t] = "work" => Untouched(target[t])
    /\ \A f \in transfers : Untouched(f)
    /\ Owns("downloader") => target["downloader"] \notin transfers
    /\ Owns("downloader") /\ pc["downloader"] \in {"result", "final"} =>
        \/ Untouched(target["downloader"]) /\ (pc["downloader"] = "final" => reply.ok)
        \/ Is(target["downloader"], "canceled")
        \/ Is(target["downloader"], "failed") /\ pc["downloader"] = "final"

FailuresOK ==
    /\ \A f \in Finished : Is(f, "failed") => f \in errors \/ Is(f, "canceled")
    /\ LET f == target["inserter"]
       IN  /\ pc["inserter"] = "account" /\ Is(f, "failed") => Is(f, "errors") \/ Is(f, "canceled")
           /\ pc["inserter"] = "finish" /\ Is(f, "failed") => f \in errors \/ Is(f, "canceled")

InductiveInvariant ==
    /\ TypeOK
    /\ PlacesOK
    /\ PointersOK
    /\ EntriesOK
    /\ ShutdownOK
    /\ TransactionBracketsQueue
    /\ SavedWhenDequeued
    /\ used_after_free \/ (OwnersOK /\ FailuresOK)

-----------------------------------------------------------------------------
(* No thread touches an entry after queue_destroy_unprotected freed it.    *)
NoUseAfterFree == ~used_after_free

(* Closing the program loses fetched content at most, not what the user    *)
(* did to items.                                                           *)
UserEditsSurvive == ~lost_edits

(* The queue implements a batch of feed updates.                           *)
Batch == INSTANCE FeedUpdates WITH
    pending <- queue \ Finished,
    settled <- Finished,
    unsaved <- uncommitted

ImplementsBatch == Batch!Spec

(* A queue always drains, even if the user and the timer keep adding feeds *)
(* to it: a feed cannot be queued again before the whole queue is done.    *)
QueueDrains == queue # {} ~> queue = {} \/ stop

(* Once something tells the program to stop, it gets to its end.           *)
ShutdownCompletes == stop ~> main = "closed"

(* Reloading all feeds from the command line ends by itself.               *)
ReloadCompletes == main = "reload" ~> main = "closed"
=============================================================================
