------------------------------ MODULE Embedder ------------------------------
(***************************************************************************)
(* The text embedder: a bounded channel of jobs, one task that takes them  *)
(* from the channel in order and waits for a permit for each, and as many  *)
(* blocking tasks as there are permits.  A job is known by the request     *)
(* that waits for its answer.                                              *)
(***************************************************************************)
EXTENDS Naturals, Sequences, SequencesExt

CONSTANTS
  Proc,       \* the requests in progress
  QueueSize,  \* the jobs the channel holds
  Permits     \* embedding_pool_size

ASSUME QueueSizeType == QueueSize \in Nat \ {0}
ASSUME PermitsType == Permits \in Nat \ {0}

VARIABLES
  queue,      \* the channel
  hand,       \* the job the task has taken and has no permit for yet
  running     \* the jobs that are computed, one permit each

embedder == <<queue, hand, running>>

Orphan == "Orphan"  \* a job whose request has ended: nobody takes the answer
NoJob == "NoJob"
ASSUME ProcNotJob == Orphan \notin Proc /\ NoJob \notin Proc

Job == Proc \cup {Orphan}

EmbedderTypeOK ==
  /\ queue \in Seq(Job) /\ Len(queue) <= QueueSize
  /\ hand \in Job \cup {NoJob}
  /\ running \in Seq(Job) /\ Len(running) <= Permits

EmbedderInit ==
  /\ queue = <<>>
  /\ hand = NoJob
  /\ running = <<>>

(* embed: the sender waits for room in the channel. *)
Ask(p) ==
  /\ Len(queue) < QueueSize
  /\ queue' = Append(queue, p)
  /\ UNCHANGED <<hand, running>>

Receive ==
  /\ hand = NoJob
  /\ queue # <<>>
  /\ hand' = Head(queue)
  /\ queue' = Tail(queue)
  /\ UNCHANGED running

(* A mutant of Acquire: only a full set of permits starts a job.  *)
MutAcquire ==
  /\ hand # NoJob
  /\ Len(running) + 1 < Permits
  /\ running' = Append(running, hand)
  /\ hand' = NoJob
  /\ UNCHANGED queue

Acquire ==
  /\ hand # NoJob
  /\ Len(running) < Permits
  /\ running' = Append(running, hand)
  /\ hand' = NoJob
  /\ UNCHANGED queue

(* A blocking task ends, well or with a panic, and its permit is free. *)
Respond(i) ==
  /\ running' = RemoveAt(running, i)
  /\ UNCHANGED <<queue, hand>>

(* A mutant of Abandon: the job under way is forgotten.  *)
MutAbandon(p) ==
  LET Of(j) == IF j = p THEN Orphan ELSE j
  IN /\ queue' = [i \in DOMAIN queue |-> Of(queue[i])]
     /\ hand' = Of(hand)
     /\ UNCHANGED running

(* A request that is dropped takes nothing back: its job is done for nobody. *)
Abandon(p) ==
  LET Of(j) == IF j = p THEN Orphan ELSE j
  IN /\ queue' = [i \in DOMAIN queue |-> Of(queue[i])]
     /\ hand' = Of(hand)
     /\ running' = [i \in DOMAIN running |-> Of(running[i])]

=============================================================================
