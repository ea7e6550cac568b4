----------------------------- MODULE FeedUpdates -----------------------------
(***************************************************************************)
(* What the update machinery of newsraft promises to whoever asks for feed *)
(* reloads, with no thread, lock or flag in it.  Requested feeds form one  *)
(* batch.  Every feed of the batch is settled once, feeds may join while   *)
(* the batch runs, and the batch ends only as a whole, when nothing in it  *)
(* is pending; that is the moment at which its content becomes durable.    *)
(* UpdateQueue is shown to implement this module.                          *)
(***************************************************************************)
CONSTANT Feeds

VARIABLES
    pending,    \* requested feeds which are not settled yet
    settled,    \* feeds of the running batch that are done
    unsaved     \* feeds whose content is written but not durable yet

vars == <<pending, settled, unsaved>>

TypeOK ==
    /\ pending \in SUBSET Feeds
    /\ settled \in SUBSET Feeds
    /\ unsaved \in SUBSET Feeds

Init == pending = {} /\ settled = {} /\ unsaved = {}

(* Feeds of the batch, settled ones included, are not requested again. *)
Request(S) ==
    /\ pending' = pending \cup (S \ settled)
    /\ UNCHANGED <<settled, unsaved>>

Store(f) ==
    /\ f \in pending
    /\ unsaved' = unsaved \cup {f}
    /\ UNCHANGED <<pending, settled>>

Settle(f) ==
    /\ f \in pending
    /\ pending' = pending \ {f}
    /\ settled' = settled \cup {f}
    /\ UNCHANGED unsaved

(* The whole batch ends and everything it wrote is durable. *)
Complete ==
    /\ pending = {}
    /\ settled' = {}
    /\ unsaved' = {}
    /\ UNCHANGED pending

(* The program is closed: the batch is dropped, what is not durable is lost. *)
Abandon ==
    /\ pending' = {}
    /\ settled' = {}
    /\ UNCHANGED unsaved

Forget ==
    /\ pending = {} /\ settled = {}
    /\ unsaved' = {}
    /\ UNCHANGED <<pending, settled>>

Next ==
    \/ \E S \in SUBSET Feeds : Request(S)
    \/ \E f \in Feeds : Store(f) \/ Settle(f)
    \/ Complete
    \/ Abandon
    \/ Forget

Spec == Init /\ [][Next]_vars

=============================================================================
