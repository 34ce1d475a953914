--------------------------- MODULE PagerDutyQueue ---------------------------
(***************************************************************************)
(* The queue that carries nagios notifications to PagerDuty                *)
(* (src/files/pagerduty_nagios.py).                                        *)
(*                                                                         *)
(* For every notification nagios starts a process that writes the event to *)
(* a file of its own in the queue directory and then flushes the queue;    *)
(* cron starts a process every minute that flushes the queue.  Flushing is *)
(* done under a lock, writing is not.  A process may be cut off anywhere:  *)
(* nagios kills a notification command that takes too long, and the disk   *)
(* may be full.                                                            *)
(***************************************************************************)
EXTENDS Naturals, Sequences, FiniteSets, SequencesExt

CONSTANTS
    Events,     \* notifications; each has one process of its own, named alike
    Flushers,   \* cron's processes; one that ends may be started again
    Mortal,     \* the processes that may be cut off
    Nobody,
    MaxTime     \* bound on the clock, in seconds

ASSUME ProcessAssumption == /\ IsFiniteSet(Events)
                            /\ Events \cap Flushers = {}
                            /\ Mortal \subseteq Events \cup Flushers
                            /\ Nobody \notin Events \cup Flushers
                            /\ MaxTime \in Nat

Processes == Events \cup Flushers

\* What a file holds: Python writes the event out when its buffer is full and on
\* close, so the file is empty at first and may be cut off in a line for a while.
Contents == {"empty", "torn", "full"}

VARIABLES
    now,        \* int(time.time())
    pc,         \* where each process is
    file,       \* content of the file of each event, "none" when there is none
    stamp,      \* the second in its name
    born,       \* the second it was created in
    lock,       \* the process that holds the lock on lockfile
    queue,      \* the rest of the listing a flushing process goes through
    reading,    \* the content it has read of the first file of that
    answered,   \* what the server has given a final answer for of each event
    deferred,   \* events it has answered "retry later" for
    unconfirmed \* events it answered for and the sender did not get to know

clock == <<now, stamp, born>>
flush == <<queue, reading>>
server == <<answered, deferred, unconfirmed>>
vars == <<now, pc, file, stamp, born, lock, queue, reading,
          answered, deferred, unconfirmed>>

\* Broken variant of Ended: the process of a notification does not end.
Bug_NeverEnded(p) == "idle"

Ended(p) == IF p \in Events THEN "done" ELSE "idle"
-----------------------------------------------------------------------------
(***************************************************************************)
(* enqueue_event: the steps of the process of event e.                     *)
(***************************************************************************)
Tick ==
    /\ now < MaxTime
    /\ now' = now + 1
    /\ UNCHANGED <<pc, file, stamp, born, lock, flush, server>>

\* The name of the file is made of the time and the process.
NameFile(e) ==
    /\ pc[e] = "start"
    /\ pc' = [pc EXCEPT ![e] = "named"]
    /\ stamp' = [stamp EXCEPT ![e] = now]
    /\ UNCHANGED <<now, file, born, lock, flush, server>>

CreateFile(e) ==
    /\ pc[e] = "named"
    /\ pc' = [pc EXCEPT ![e] = "writing"]
    /\ file' = [file EXCEPT ![e] = "empty"]
    /\ born' = [born EXCEPT ![e] = now]
    /\ UNCHANGED <<now, stamp, lock, flush, server>>

\* The buffer is full before the event is complete.  When the file has been
\* removed in the meantime its writer writes on to a file without a name.
WritePart(e) ==
    /\ pc[e] = "writing"
    /\ file[e] = "empty"
    /\ file' = [file EXCEPT ![e] = "torn"]
    /\ UNCHANGED <<pc, clock, lock, flush, server>>

CloseFile(e) ==
    /\ pc[e] = "writing"
    /\ pc' = [pc EXCEPT ![e] = "waiting"]
    /\ file' = [file EXCEPT ![e] = IF @ = "none" THEN "none" ELSE "full"]
    /\ UNCHANGED <<clock, lock, flush, server>>
-----------------------------------------------------------------------------
(***************************************************************************)
(* lock_and_flush_queue: the steps of any process.                         *)
(***************************************************************************)
StartFlush(p) ==
    /\ p \in Flushers
    /\ pc[p] = "idle"
    /\ pc' = [pc EXCEPT ![p] = "waiting"]
    /\ UNCHANGED <<clock, file, lock, flush, server>>

\* Broken variant of Acquire: the lock is not waited for.
Bug_AcquireAnyway(p) ==
    /\ pc[p] = "waiting"
    /\ lock' = p
    /\ pc' = [pc EXCEPT ![p] = "listing"]
    /\ UNCHANGED <<clock, file, flush, server>>

Acquire(p) ==
    /\ pc[p] = "waiting"
    /\ lock = Nobody
    /\ lock' = p
    /\ pc' = [pc EXCEPT ![p] = "listing"]
    /\ UNCHANGED <<clock, file, flush, server>>

\* Broken variant of Listed: only the files of this second.
Bug_ListedNow == {e \in Events : file[e] # "none" /\ stamp[e] = now}

\* get_queue_from_dir: the files there are, by the second in their names; files
\* of one second come in any order.
Listed == {e \in Events : file[e] # "none"}

\* Broken variant of Listings: the listing is not sorted.
Bug_Unsorted == SetToSeqs(Listed)

Listings ==
    {q \in SetToSeqs(Listed) :
        \A i, j \in 1 .. Len(q) : i < j => stamp[q[i]] <= stamp[q[j]]}

ListQueue(p) ==
    /\ pc[p] = "listing"
    /\ \E q \in Listings : queue' = [queue EXCEPT ![p] = q]
    /\ pc' = [pc EXCEPT ![p] = "flushing"]
    /\ UNCHANGED <<clock, file, lock, reading, server>>

\* The lock goes with the file descriptor, however the process gets here.
Finish(p) ==
    /\ pc' = [pc EXCEPT ![p] = Ended(p)]
    /\ lock' = IF lock = p THEN Nobody ELSE lock
    /\ queue' = [queue EXCEPT ![p] = << >>]
    /\ reading' = [reading EXCEPT ![p] = "empty"]

Flushed(p) ==
    /\ pc[p] = "flushing"
    /\ queue[p] = << >>
    /\ Finish(p)
    /\ UNCHANGED <<clock, file, server>>

ReadEvent(p) ==
    /\ pc[p] = "flushing"
    /\ queue[p] # << >>
    /\ file[Head(queue[p])] # "none"
    /\ reading' = [reading EXCEPT ![p] = file[Head(queue[p])]]
    /\ pc' = [pc EXCEPT ![p] = "sending"]
    /\ UNCHANGED <<clock, file, lock, queue, server>>

\* A line without "=" raises, and main only logs that.
ReadRaises(p) ==
    /\ pc[p] = "flushing"
    /\ queue[p] # << >>
    /\ file[Head(queue[p])] \in {"torn", "none"}
    /\ Finish(p)
    /\ UNCHANGED <<clock, file, server>>

GoOn(p) ==
    /\ pc' = [pc EXCEPT ![p] = "flushing"]
    /\ queue' = [queue EXCEPT ![p] = Tail(@)]
    /\ reading' = [reading EXCEPT ![p] = "empty"]

\* The server accepts the event or refuses it for good (a client error); of an
\* event that was cut off it judges what there is.
Answered(p, e) ==
    /\ pc[p] = "sending"
    /\ e = Head(queue[p])
    /\ answered' = [answered EXCEPT ![e] = IF @ = "full" THEN @ ELSE reading[p]]
    /\ pc' = [pc EXCEPT ![p] = "removing"]
    /\ UNCHANGED <<clock, file, lock, flush, deferred, unconfirmed>>

\* Broken variant of RetryLater: the file is removed as after any client error.
Bug_RetryNever(p) ==
    /\ pc[p] = "sending"
    /\ deferred' = deferred \cup {Head(queue[p])}
    /\ file' = [file EXCEPT ![Head(queue[p])] = "none"]
    /\ GoOn(p)
    /\ UNCHANGED <<clock, lock, answered, unconfirmed>>

\* A client error with "retry later" leaves the file and goes on to the next.
RetryLater(p) ==
    /\ pc[p] = "sending"
    /\ deferred' = deferred \cup {Head(queue[p])}
    /\ GoOn(p)
    /\ UNCHANGED <<clock, file, lock, answered, unconfirmed>>

\* A server error ends the flush, a network error or a timeout raises: the lock
\* is released and the file stays.
SendFails(p) ==
    /\ pc[p] = "sending"
    /\ Finish(p)
    /\ UNCHANGED <<clock, file, server>>

\* The server accepts the event and its answer comes too late or never.
AnswerLost(p) ==
    /\ pc[p] = "sending"
    /\ unconfirmed' = unconfirmed \cup {Head(queue[p])}
    /\ Finish(p)
    /\ UNCHANGED <<clock, file, answered, deferred>>

\* Broken variant of RemoveFile: the unlink is missing.
Bug_KeepFile(p) ==
    /\ pc[p] = "removing"
    /\ GoOn(p)
    /\ UNCHANGED <<clock, file, lock, server>>

RemoveFile(p) ==
    /\ pc[p] = "removing"
    /\ file' = [file EXCEPT ![Head(queue[p])] = "none"]
    /\ GoOn(p)
    /\ UNCHANGED <<clock, lock, server>>

\* The process is killed, or its write fails: what it wrote stays as it is.
CutOff(p) ==
    /\ p \in Mortal
    /\ pc[p] \notin {"done", "idle"}
    /\ unconfirmed' = IF pc[p] = "removing" THEN unconfirmed \cup {Head(queue[p])}
                      ELSE unconfirmed
    /\ Finish(p)
    /\ UNCHANGED <<clock, file, answered, deferred>>
-----------------------------------------------------------------------------
Init ==
    /\ now = 0
    /\ pc = [p \in Processes |-> IF p \in Events THEN "start" ELSE "idle"]
    /\ file = [e \in Events |-> "none"]
    /\ stamp = [e \in Events |-> 0]
    /\ born = [e \in Events |-> 0]
    /\ lock = Nobody
    /\ queue = [p \in Processes |-> << >>]
    /\ reading = [p \in Processes |-> "empty"]
    /\ answered = [e \in Events |-> "nothing"]
    /\ deferred = {} /\ unconfirmed = {}

Enqueue(e) == NameFile(e) \/ CreateFile(e) \/ WritePart(e) \/ CloseFile(e)

Send(p) ==
    \/ RetryLater(p) \/ SendFails(p) \/ AnswerLost(p)
    \/ \E e \in Events : Answered(p, e)

Flush(p) ==
    \/ StartFlush(p) \/ ListQueue(p) \/ Flushed(p)
    \/ ReadEvent(p) \/ ReadRaises(p) \/ Send(p) \/ RemoveFile(p)

Next == \/ Tick
        \/ \E e \in Events : Enqueue(e)
        \/ \E p \in Processes : Acquire(p) \/ Flush(p) \/ CutOff(p)

Spec == Init /\ [][Next]_vars

\* Processes run, cron starts its own again and again, and PagerDuty gives a
\* final answer some time when it is asked about an event again and again.
FairSpec ==
    /\ Spec
    /\ \A e \in Events : WF_vars(Enqueue(e)) /\ SF_vars(\E p \in Processes : Answered(p, e))
    /\ WF_vars(\E p \in Processes : Acquire(p))
    /\ \A p \in Processes : WF_vars(Flush(p))
-----------------------------------------------------------------------------
Steps == {"start", "named", "writing", "idle", "waiting", "listing", "flushing",
          "sending", "removing", "done"}

TypeOK ==
    /\ now \in 0 .. MaxTime
    /\ pc \in [Processes -> Steps]
    /\ \A e \in Events : pc[e] # "idle"
    /\ \A p \in Flushers : pc[p] \notin {"start", "named", "writing", "done"}
    /\ file \in [Events -> Contents \cup {"none"}]
    /\ stamp \in [Events -> 0 .. MaxTime] /\ born \in [Events -> 0 .. MaxTime]
    /\ lock \in Processes \cup {Nobody}
    /\ queue \in [Processes -> Seq(Events)]
    /\ reading \in [Processes -> Contents]
    /\ answered \in [Events -> Contents \cup {"nothing"}]
    /\ deferred \subseteq Events /\ unconfirmed \subseteq Events

Busy == {"listing", "flushing", "sending", "removing"}

\* The process that flushes holds the lock.
LockHeld == \A p \in Processes : pc[p] \in Busy => lock = p

\* A flush never meets a file that is gone: nobody else removes files between its
\* listing and its reading or removing them.
QueueOnDisk == \A p \in Processes : \A i \in 1 .. Len(queue[p]) :
                  file[queue[p][i]] # "none"

\* The server has given a final answer for what was read of the event.
IsAnswered(e) == answered[e] # "nothing"

\* The process of the event has written it out and is still there.
Enqueued(e) == pc[e] \in Busy \cup {"waiting"}

\* An event that its process has written is in its file, or the server has
\* answered for it: no crash, lost answer or second flush drops it in silence.
NoSilentLoss == \A e \in Events : Enqueued(e) /\ file[e] # "full" => IsAnswered(e)

\* The directory, its lock and its processes, whatever happens to them, are a queue that
\* delivers: an event comes into it once, is answered for while it is there and goes only
\* when the server has answered for it.
Delivery == INSTANCE AlertDelivery WITH
                queued <- {e \in Events : file[e] # "none"},
                answered <- {e \in Events : IsAnswered(e)}

AlertsDelivered == Delivery!Spec

\* The event a notification handler has loaded "into the event queue" stays there
\* until the server has answered for the whole of it.
EventNotLost ==
    \A e \in Events : Enqueued(e) => file[e] = "full" \/ answered[e] = "full"

\* The server answers for an event only after all those whose files are older by
\* a second, but for the ones it asked to have again later.
OrderKept ==
    \A d, e \in Events :
        born[d] < stamp[e] /\ file[d] # "none" /\ d \notin deferred => ~IsAnswered(e)

\* An event that the server has answered for is sent again only when its first
\* sender was cut off or never got the answer: the lock keeps two flushes from
\* sending one event.
NoDuplicates ==
    \A p \in Processes :
        pc[p] = "sending" /\ IsAnswered(Head(queue[p])) => Head(queue[p]) \in unconfirmed

\* What cron's flush is for: an event in the queue is answered for in the end,
\* whatever kept it from being sent before.
EventuallyAnswered == \A e \in Events : file[e] = "full" ~> IsAnswered(e)

\* The file of a writer that was cut off in the middle of a line, where every flush raises,
\* comes before that of the event, or may.
BehindTorn(e) == \E d \in Events : file[d] = "torn" /\ pc[d] = "done" /\ stamp[d] <= stamp[e]

\* Only such a file keeps an event from being answered for: not the lock of a process that
\* was cut off, an answer that was lost, a server error or an event before it.
AnsweredUnlessTorn ==
    \A e \in Events : file[e] = "full" ~> IsAnswered(e) \/ BehindTorn(e)
=============================================================================
