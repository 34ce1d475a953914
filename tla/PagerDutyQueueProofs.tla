------------------------ MODULE PagerDutyQueueProofs ------------------------
(***************************************************************************)
(* Invariants of the queue to PagerDuty, and that it delivers, for all     *)
(* finite sets of events and all sets of processes.                        *)
(***************************************************************************)
EXTENDS PagerDutyQueue, FiniteSetTheorems, TLAPS

\* A listing names the files there are, each once, older ones first.
LEMMA ListingsAre ==
    ASSUME NEW q \in Listings
    PROVE  /\ q \in Seq(Events)
           /\ \A i \in 1 .. Len(q) : q[i] \in Listed
           /\ \A i, j \in 1 .. Len(q) : i # j => q[i] # q[j]
           /\ \A i, j \in 1 .. Len(q) : i < j => stamp[q[i]] <= stamp[q[j]]
           /\ \A e \in Listed : \E i \in 1 .. Len(q) : q[i] = e
<1>1. IsFiniteSet(Listed) /\ Cardinality(Listed) \in Nat
    BY ProcessAssumption, FS_Subset, FS_CardinalityType DEF Listed
<1> DEFINE n == Cardinality(Listed)
<1>2. /\ q \in [1 .. n -> Listed]
      /\ \A i, j \in 1 .. n : i # j => q[i] # q[j]
      /\ \A i, j \in 1 .. Len(q) : i < j => stamp[q[i]] <= stamp[q[j]]
    BY DEF Listings, SetToSeqs
<1>3. q \in Seq(Listed) /\ Len(q) = n
    BY <1>1, <1>2
<1>4. q \in Seq(Events)
    BY <1>3 DEF Listed
<1>5. \A e \in Listed : \E i \in 1 .. n : q[i] = e
    <2> DEFINE T == {q[i] : i \in 1 .. n}
    <2>1. T \subseteq Listed
        BY <1>2
    <2>2. q \in Bijection(1 .. n, T)
        BY <1>2 DEF Bijection, Injection, Surjection, IsInjective
    <2>3. IsFiniteSet(1 .. n) /\ Cardinality(1 .. n) = n
        BY <1>1, FS_Interval
    <2>4. Cardinality(T) = n
        BY <2>2, <2>3, FS_Bijection DEF ExistsBijection
    <2>5. T = Listed
        BY <1>1, <2>1, <2>4, FS_Subset
    <2> QED BY <2>5
<1> QED BY <1>2, <1>3, <1>4, <1>5

\* Going on to the next event of a listing.
LEMMA TailIs ==
    ASSUME NEW q \in Seq(Events), q # << >>
    PROVE  /\ Head(q) = q[1] /\ Head(q) \in Events
           /\ 1 \in 1 .. Len(q)
           /\ Tail(q) \in Seq(Events) /\ Len(Tail(q)) = Len(q) - 1
           /\ \A i \in 1 .. Len(Tail(q)) : i + 1 \in 1 .. Len(q) /\ Tail(q)[i] = q[i + 1]
OBVIOUS
-----------------------------------------------------------------------------
\* Who flushes holds the lock, and has a listing just then: a rest of it when it sends.
Flushes ==
    /\ LockHeld
    /\ \A p \in Processes :
          /\ pc[p] \notin {"flushing", "sending", "removing"} => queue[p] = << >>
          /\ pc[p] \in {"sending", "removing"} => queue[p] # << >>

\* The ways in which a process ends or its flush does, which leave the files alone.
Ends(p) ==
    /\ Finish(p)
    /\ UNCHANGED <<clock, file, answered, deferred>>
    /\ \/ unconfirmed' = unconfirmed /\ pc[p] # "removing"
       \/ unconfirmed' = unconfirmed \cup {Head(queue[p])} /\ queue[p] # << >>

LEMMA StepsAre ==
    ASSUME Flushes, [Next]_vars
    PROVE  \/ Tick \/ UNCHANGED vars
           \/ \E e \in Events : NameFile(e) \/ CreateFile(e) \/ WritePart(e) \/ CloseFile(e)
           \/ \E p \in Processes : \/ Acquire(p) \/ StartFlush(p) \/ ListQueue(p) \/ ReadEvent(p)
                                   \/ RetryLater(p) \/ RemoveFile(p) \/ Ends(p)
           \/ \E p \in Processes, e \in Events : Answered(p, e)
<1>1. ASSUME NEW p \in Processes, Flushed(p) \/ ReadRaises(p) \/ SendFails(p) PROVE Ends(p)
    BY <1>1 DEF Flushed, ReadRaises, SendFails, Ends, server
<1>2. ASSUME NEW p \in Processes, AnswerLost(p) PROVE Ends(p)
    BY <1>2 DEF AnswerLost, Ends, Flushes
<1>3. ASSUME NEW p \in Processes, CutOff(p) PROVE Ends(p)
    BY <1>3 DEF CutOff, Ends, Flushes
<1> QED BY <1>1, <1>2, <1>3 DEF Next, Enqueue, Flush, Send

LEMMA FlushesInit == Init => Flushes
BY ProcessAssumption DEF Init, Flushes, LockHeld, Busy, Processes

LEMMA FlushesNext == TypeOK /\ Flushes /\ [Next]_vars => Flushes'
<1> SUFFICES ASSUME TypeOK, Flushes, [Next]_vars PROVE Flushes'
    OBVIOUS
<1> USE ProcessAssumption DEF Flushes, LockHeld, Busy
<1>1. /\ pc \in [Processes -> Steps] /\ queue \in [Processes -> Seq(Events)]
      /\ Events \subseteq Processes /\ Nobody \notin Processes
    BY DEF TypeOK, Processes
<1>2. CASE Tick \/ UNCHANGED vars
    BY <1>2 DEF Tick, vars, flush
<1>3. ASSUME NEW e \in Events, NameFile(e) \/ CreateFile(e) \/ WritePart(e) \/ CloseFile(e)
      PROVE  Flushes'
    BY <1>1, <1>3 DEF NameFile, CreateFile, WritePart, CloseFile, flush
<1>4. ASSUME NEW p \in Processes,
             Acquire(p) \/ StartFlush(p) \/ ListQueue(p) \/ ReadEvent(p)
      PROVE  Flushes'
    BY <1>1, <1>4 DEF Acquire, StartFlush, ListQueue, ReadEvent, flush
<1>5. ASSUME NEW p \in Processes, RetryLater(p) \/ RemoveFile(p) PROVE Flushes'
    BY <1>1, <1>5 DEF RetryLater, RemoveFile, GoOn
<1>6. ASSUME NEW p \in Processes, Ends(p) PROVE Flushes'
    BY <1>1, <1>6 DEF Ends, Finish, Ended
<1>7. ASSUME NEW p \in Processes, NEW e \in Events, Answered(p, e) PROVE Flushes'
    BY <1>1, <1>7 DEF Answered, flush
<1> QED BY <1>2, <1>3, <1>4, <1>5, <1>6, <1>7, StepsAre
-----------------------------------------------------------------------------
LEMMA TypeInit == Init => TypeOK
BY ProcessAssumption DEF Init, TypeOK, Processes, Steps, Contents

LEMMA TypeNext == TypeOK /\ Flushes /\ [Next]_vars => TypeOK'
<1> SUFFICES ASSUME TypeOK, Flushes, [Next]_vars PROVE TypeOK'
    OBVIOUS
<1> USE ProcessAssumption
    DEF TypeOK, Processes, Steps, Contents, clock, flush, server, GoOn
<1>1. CASE Tick \/ UNCHANGED vars
    BY <1>1 DEF Tick, vars
<1>2. ASSUME NEW e \in Events, NameFile(e) PROVE TypeOK'
    BY <1>2 DEF NameFile
<1>3. ASSUME NEW e \in Events, CreateFile(e) PROVE TypeOK'
    BY <1>3 DEF CreateFile
<1>4. ASSUME NEW e \in Events, WritePart(e) PROVE TypeOK'
    BY <1>4 DEF WritePart
<1>5. ASSUME NEW e \in Events, CloseFile(e) PROVE TypeOK'
    BY <1>5 DEF CloseFile
<1>6. ASSUME NEW p \in Processes, Acquire(p) PROVE TypeOK'
    BY <1>6 DEF Acquire
<1>7. ASSUME NEW p \in Processes, StartFlush(p) PROVE TypeOK'
    BY <1>7 DEF StartFlush
<1>8. ASSUME NEW p \in Processes, ListQueue(p) PROVE TypeOK'
    BY <1>8, ListingsAre DEF ListQueue
<1>9. ASSUME NEW p \in Processes, Ends(p) PROVE TypeOK'
    <2>1. queue[p] # << >> => Head(queue[p]) \in Events
        BY TailIs
    <2>2. unconfirmed' \subseteq Events
        BY <1>9, <2>1 DEF Ends
    <2>3. CASE p \in Events
        BY <1>9, <2>2, <2>3 DEF Ends, Finish, Ended
    <2>4. CASE p \in Flushers
        BY <1>9, <2>2, <2>4 DEF Ends, Finish, Ended
    <2> QED BY <2>3, <2>4
<1>10. ASSUME NEW p \in Processes, ReadEvent(p) PROVE TypeOK'
    BY <1>10, TailIs DEF ReadEvent
<1>11. ASSUME NEW p \in Processes, NEW e \in Events, Answered(p, e) PROVE TypeOK'
    BY <1>11 DEF Answered
<1>12. ASSUME NEW p \in Processes, RetryLater(p) PROVE TypeOK'
    <2>1. queue[p] # << >>
        BY <1>12 DEF RetryLater, Flushes
    <2> QED BY <1>12, <2>1, TailIs DEF RetryLater
<1>13. ASSUME NEW p \in Processes, RemoveFile(p) PROVE TypeOK'
    <2>1. queue[p] # << >>
        BY <1>13 DEF RemoveFile, Flushes
    <2> QED BY <1>13, <2>1, TailIs DEF RemoveFile
<1> QED BY <1>1, <1>2, <1>3, <1>4, <1>5, <1>6, <1>7, <1>8, <1>9, <1>10, <1>11, <1>12,
           <1>13, StepsAre

\* Every reachable state is well typed.
THEOREM TypeCorrect == Spec => []TypeOK
BY TypeInit, FlushesInit, TypeNext, FlushesNext, PTL DEF Spec

\* The lock is held for the whole of a flush, whoever is cut off meanwhile.
THEOREM LockIsHeld == Spec => []LockHeld
<1>1. Flushes => LockHeld
    BY DEF Flushes
<1> QED BY <1>1, TypeInit, FlushesInit, TypeNext, FlushesNext, PTL DEF Spec
-----------------------------------------------------------------------------
\* Where the files are and why one is gone: the process has not come to it, or the
\* server has answered for what was in it.
Files ==
    /\ QueueOnDisk
    /\ \A p \in Processes : \A i, j \in 1 .. Len(queue[p]) :
          i # j => queue[p][i] # queue[p][j]
    /\ \A p \in Processes : pc[p] = "removing" => IsAnswered(Head(queue[p]))
    /\ \A e \in Events :
          /\ pc[e] \in {"start", "named"} => file[e] = "none" /\ ~IsAnswered(e)
          /\ pc[e] = "writing" \/ Enqueued(e) => file[e] # "none" \/ IsAnswered(e)
          /\ Enqueued(e) => file[e] \in {"full", "none"}

LEMMA FilesInit == Init => Files
BY ProcessAssumption
   DEF Init, Files, QueueOnDisk, Processes, IsAnswered, Enqueued, Busy

\* Of two processes one at most has a listing.
LEMMA OneListing ==
    ASSUME Flushes, NEW p \in Processes, NEW r \in Processes, r # p, pc[p] \in Busy
    PROVE  queue[r] = << >> /\ pc[r] \notin Busy
BY DEF Flushes, LockHeld, Busy

LEMMA FilesNext == TypeOK /\ Flushes /\ Files /\ [Next]_vars => Files'
<1> SUFFICES ASSUME TypeOK, Flushes, Files, [Next]_vars PROVE Files'
    OBVIOUS
<1> USE ProcessAssumption DEF Files, QueueOnDisk, IsAnswered, Enqueued, Busy
<1>1. /\ pc \in [Processes -> Steps] /\ queue \in [Processes -> Seq(Events)]
      /\ file \in [Events -> Contents \cup {"none"}]
      /\ answered \in [Events -> Contents \cup {"nothing"}]
      /\ reading \in [Processes -> Contents]
      /\ Events \subseteq Processes
    BY DEF TypeOK, Processes
<1>2. CASE Tick \/ UNCHANGED vars
    BY <1>2 DEF Tick, vars, flush, server
<1>3. ASSUME NEW e \in Events, NameFile(e) PROVE Files'
    BY <1>1, <1>3 DEF NameFile, flush, server
<1>4. ASSUME NEW e \in Events, CreateFile(e) PROVE Files'
    BY <1>1, <1>4 DEF CreateFile, flush, server
<1>5. ASSUME NEW e \in Events, WritePart(e) PROVE Files'
    BY <1>1, <1>5 DEF WritePart, flush, server
<1>6. ASSUME NEW e \in Events, CloseFile(e) PROVE Files'
    BY <1>1, <1>6 DEF CloseFile, flush, server, Contents
<1>7. ASSUME NEW p \in Processes, Acquire(p) PROVE Files'
    BY <1>1, <1>7 DEF Acquire, flush, server
<1>8. ASSUME NEW p \in Processes, StartFlush(p) PROVE Files'
    BY <1>1, <1>8 DEF StartFlush, flush, server, Processes, TypeOK
<1>9. ASSUME NEW p \in Processes, ListQueue(p) PROVE Files'
    BY <1>1, <1>9, ListingsAre DEF ListQueue, server, Listed
<1>10. ASSUME NEW p \in Processes, ReadEvent(p) PROVE Files'
    BY <1>1, <1>10 DEF ReadEvent, server
<1>11. ASSUME NEW p \in Processes, Ends(p) PROVE Files'
    BY <1>1, <1>11 DEF Ends, Finish, Ended
<1>12. ASSUME NEW p \in Processes, NEW e \in Events, Answered(p, e) PROVE Files'
    <2>1. file[e] # "none"
        BY <1>1, <1>12, TailIs DEF Answered, Flushes
    <2>2. answered'[e] # "nothing" /\ \A d \in Events : d # e => answered'[d] = answered[d]
        BY <1>1, <1>12 DEF Answered, Contents
    <2> QED BY <1>1, <1>12, <2>1, <2>2 DEF Answered, flush
<1>13. ASSUME NEW p \in Processes, RetryLater(p) PROVE Files'
    BY <1>1, <1>13, TailIs DEF RetryLater, GoOn, Flushes
<1>14. ASSUME NEW p \in Processes, RemoveFile(p) PROVE Files'
    BY <1>1, <1>14, TailIs, OneListing DEF RemoveFile, GoOn, Flushes, server
<1> QED BY <1>2, <1>3, <1>4, <1>5, <1>6, <1>7, <1>8, <1>9, <1>10, <1>11, <1>12, <1>13,
           <1>14, StepsAre

\* What makes the invariant of the queue: types, the lock and the files.
IInv == TypeOK /\ Flushes /\ Files

LEMMA IInvHolds == Spec => []IInv
<1>1. Init => IInv
    BY TypeInit, FlushesInit, FilesInit DEF IInv
<1>2. IInv /\ [Next]_vars => IInv'
    BY TypeNext, FlushesNext, FilesNext DEF IInv
<1> QED BY <1>1, <1>2, PTL DEF Spec

\* A flush finds every file of its listing: nobody else removes one in between.
THEOREM FilesAreThere == Spec => []QueueOnDisk
<1>1. IInv => QueueOnDisk
    BY DEF IInv, Files
<1> QED BY <1>1, IInvHolds, PTL

\* An event that was written out is in its file until the server has answered for it,
\* whichever processes are cut off, whatever the server answers or fails to answer.
THEOREM NothingLost == Spec => []NoSilentLoss
<1>1. IInv => NoSilentLoss
    BY DEF IInv, Files, NoSilentLoss, Enqueued
<1> QED BY <1>1, IInvHolds, PTL
-----------------------------------------------------------------------------
\* The queue delivers: each of its steps is one of a queue that drops nothing the server
\* has not answered for and takes no event twice, or changes nothing of that.
THEOREM DeliveryImplemented == Spec => AlertsDelivered
<1>1. Init => Delivery!Init
    BY DEF Init, Delivery!Init, IsAnswered
<1>2. ASSUME IInv, [Next]_vars PROVE [Delivery!Next]_(Delivery!vars)
    <2> DEFINE queued == {e \in Events : file[e] # "none"}
               final == {e \in Events : answered[e] # "nothing"}
    <2> SUFFICES \/ UNCHANGED <<queued, final>>
                 \/ \E e \in Events :
                       \/ /\ e \notin queued \cup final
                          /\ queued' = queued \cup {e} /\ final' = final
                       \/ e \in queued /\ final' = final \cup {e} /\ queued' = queued
                       \/ /\ e \in queued \cap final
                          /\ queued' = queued \ {e} /\ final' = final
        BY DEF Delivery!Next, Delivery!vars, Delivery!Put, Delivery!Answer, Delivery!Remove,
               IsAnswered
    <2>1. /\ file \in [Events -> Contents \cup {"none"}]
          /\ answered \in [Events -> Contents \cup {"nothing"}]
          /\ reading \in [Processes -> Contents]
          /\ queue \in [Processes -> Seq(Events)]
        BY <1>2 DEF IInv, TypeOK
    <2>2. ASSUME NEW p \in Processes, pc[p] \in {"sending", "removing"}
          PROVE  /\ Head(queue[p]) \in queued
                 /\ pc[p] = "removing" => Head(queue[p]) \in final
        BY <1>2, <2>1, <2>2, TailIs DEF IInv, Flushes, Files, QueueOnDisk, IsAnswered
    <2>3. CASE UNCHANGED <<file, answered>>
        BY <2>3
    <2>4. ASSUME NEW e \in Events, CreateFile(e)
          PROVE  /\ e \notin queued \cup final
                 /\ queued' = queued \cup {e} /\ final' = final
        BY <1>2, <2>1, <2>4 DEF CreateFile, IInv, Files, IsAnswered, server, Contents
    <2>5. ASSUME NEW e \in Events, WritePart(e) \/ CloseFile(e)
          PROVE  UNCHANGED <<queued, final>>
        BY <2>1, <2>5 DEF WritePart, CloseFile, server, Contents
    <2>6. ASSUME NEW p \in Processes, NEW e \in Events, Answered(p, e)
          PROVE  e \in queued /\ final' = final \cup {e} /\ queued' = queued
        BY <2>1, <2>2, <2>6 DEF Answered, Contents
    <2>7. ASSUME NEW p \in Processes, RemoveFile(p)
          PROVE  \E e \in Events : /\ e \in queued \cap final
                                  /\ queued' = queued \ {e} /\ final' = final
        BY <2>1, <2>2, <2>7 DEF RemoveFile, server
    <2>8. ASSUME NEW p \in Processes,
                 \/ Acquire(p) \/ StartFlush(p) \/ ListQueue(p) \/ ReadEvent(p)
                 \/ RetryLater(p) \/ Ends(p)
          PROVE  UNCHANGED <<file, answered>>
        BY <2>8 DEF Acquire, StartFlush, ListQueue, ReadEvent, RetryLater, Ends, server
    <2>9. ASSUME Tick \/ UNCHANGED vars \/ \E e \in Events : NameFile(e)
          PROVE  UNCHANGED <<file, answered>>
        BY <2>9 DEF Tick, vars, NameFile, server
    <2> HIDE DEF queued, final
    <2> QED BY <1>2, <2>3, <2>4, <2>5, <2>6, <2>7, <2>8, <2>9, StepsAre DEF IInv
<1> QED BY <1>1, <1>2, IInvHolds, PTL DEF Spec, AlertsDelivered, Delivery!Spec
-----------------------------------------------------------------------------
\* Whose file is still there though it has been answered for: the flush under way is
\* about to remove it, or its sender was cut off before it could.
Answers ==
    \A e \in Events :
        file[e] # "none" /\ IsAnswered(e) =>
            \/ e \in unconfirmed
            \/ \E p \in Processes : pc[p] = "removing" /\ Head(queue[p]) = e

LEMMA AnswersNext == IInv /\ Answers /\ [Next]_vars => Answers'
<1> SUFFICES ASSUME IInv, Answers, [Next]_vars PROVE Answers'
    OBVIOUS
<1> USE DEF Answers, IsAnswered
<1>1. /\ pc \in [Processes -> Steps] /\ queue \in [Processes -> Seq(Events)]
      /\ file \in [Events -> Contents \cup {"none"}]
      /\ answered \in [Events -> Contents \cup {"nothing"}]
      /\ Events \subseteq Processes
    BY DEF IInv, TypeOK, Processes
<1>2. CASE Tick \/ UNCHANGED vars
    BY <1>2 DEF Tick, vars, flush, server
<1>3. ASSUME NEW e \in Events, NameFile(e) \/ CreateFile(e) PROVE Answers'
    <2>1. \A p \in Processes : pc[p] = "removing" => pc'[p] = "removing"
        BY <1>1, <1>3 DEF NameFile, CreateFile
    <2>2. \A d \in Events : file'[d] # "none" /\ answered[d] # "nothing" => file[d] # "none"
        BY <1>1, <1>3 DEF NameFile, CreateFile, IInv, Files
    <2>3. UNCHANGED <<queue, answered, unconfirmed>>
        BY <1>3 DEF NameFile, CreateFile, flush, server
    <2> QED BY <2>1, <2>2, <2>3
<1>4. ASSUME NEW e \in Events, WritePart(e) \/ CloseFile(e) PROVE Answers'
    BY <1>1, <1>4 DEF WritePart, CloseFile, flush, server, Contents
<1>5. ASSUME NEW p \in Processes, Acquire(p) \/ StartFlush(p) \/ ReadEvent(p) PROVE Answers'
    BY <1>1, <1>5 DEF Acquire, StartFlush, ReadEvent, flush, server
<1>6. ASSUME NEW p \in Processes, ListQueue(p) PROVE Answers'
    BY <1>1, <1>6 DEF ListQueue, server
<1>7. ASSUME NEW p \in Processes, Ends(p) PROVE Answers'
    BY <1>1, <1>7 DEF Ends, Finish, Ended
<1>8. ASSUME NEW p \in Processes, NEW e \in Events, Answered(p, e) PROVE Answers'
    BY <1>1, <1>8 DEF Answered, flush
<1>9. ASSUME NEW p \in Processes, RetryLater(p) PROVE Answers'
    BY <1>1, <1>9 DEF RetryLater, GoOn
<1>10. ASSUME NEW p \in Processes, RemoveFile(p) PROVE Answers'
    BY <1>1, <1>10, OneListing DEF RemoveFile, GoOn, server
<1> QED BY <1>2, <1>3, <1>4, <1>5, <1>6, <1>7, <1>8, <1>9, <1>10, StepsAre DEF IInv

\* No event is sent again that the server has answered for, except one whose sender was
\* cut off or did not hear of the answer.
THEOREM NothingTwice == Spec => []NoDuplicates
<1>1. Init => Answers
    BY DEF Init, Answers
<1>2. ASSUME IInv, Answers, NEW p \in Processes, pc[p] = "sending", IsAnswered(Head(queue[p]))
      PROVE  Head(queue[p]) \in unconfirmed
    <2>1. queue[p] # << >> /\ queue[p] \in Seq(Events)
        BY <1>2 DEF IInv, TypeOK, Flushes
    <2>2. Head(queue[p]) \in Events /\ file[Head(queue[p])] # "none"
        BY <1>2, <2>1, TailIs DEF IInv, Files, QueueOnDisk
    <2>3. \A r \in Processes : pc[r] # "removing"
        BY <1>2 DEF IInv, Flushes, LockHeld, Busy
    <2> QED BY <1>2, <2>2, <2>3 DEF Answers
<1>3. IInv /\ Answers => NoDuplicates
    BY <1>2 DEF NoDuplicates
<1> QED BY <1>1, <1>3, AnswersNext, IInvHolds, PTL DEF Spec
-----------------------------------------------------------------------------
\* The older files that are there come before an event in every listing, so none is left
\* when the event is answered for.
Order ==
    /\ \A e \in Events : stamp[e] <= now /\ (file[e] # "none" => stamp[e] <= born[e])
    /\ \A p \in Processes : \A i \in 1 .. Len(queue[p]), d \in Events :
          born[d] < stamp[queue[p][i]] /\ file[d] # "none" /\ d \notin deferred =>
              \E j \in 1 .. Len(queue[p]) : j < i /\ queue[p][j] = d
    /\ OrderKept

LEMMA OrderNext == IInv /\ Order /\ [Next]_vars => Order'
<1> SUFFICES ASSUME IInv, Order, [Next]_vars PROVE Order'
    OBVIOUS
<1> USE DEF Order, OrderKept, IsAnswered
<1>1. /\ pc \in [Processes -> Steps] /\ queue \in [Processes -> Seq(Events)]
      /\ file \in [Events -> Contents \cup {"none"}]
      /\ answered \in [Events -> Contents \cup {"nothing"}]
      /\ stamp \in [Events -> Nat] /\ born \in [Events -> Nat] /\ now \in Nat
      /\ deferred \subseteq Events
    BY ProcessAssumption DEF IInv, TypeOK
<1>2. ASSUME NEW p \in Processes, NEW i \in 1 .. Len(queue[p])
      PROVE  queue[p][i] \in Events /\ file[queue[p][i]] # "none"
    BY <1>1 DEF IInv, Files, QueueOnDisk
<1>3. ASSUME UNCHANGED <<stamp, born, queue, answered, deferred>>, now' \in Nat, now <= now',
             \A d \in Events : file'[d] # "none" => file[d] # "none"
      PROVE  Order'
    <2>1. \A e \in Events : stamp'[e] <= now' /\ (file'[e] # "none" => stamp'[e] <= born'[e])
        BY <1>1, <1>3
    <2>2. \A p \in Processes : \A i \in 1 .. Len(queue[p]), d \in Events :
             born[d] < stamp[queue[p][i]] /\ file'[d] # "none" /\ d \notin deferred =>
                \E j \in 1 .. Len(queue[p]) : j < i /\ queue[p][j] = d
        BY <1>3
    <2>3. OrderKept'
        BY <1>3
    <2> QED BY <1>3, <2>1, <2>2, <2>3
<1>4. ASSUME NEW e \in Events, NameFile(e) PROVE Order'
    BY <1>1, <1>2, <1>4 DEF NameFile, IInv, Files, flush, server
<1>5. ASSUME NEW e \in Events, CreateFile(e) PROVE Order'
    BY <1>1, <1>2, <1>5 DEF CreateFile, IInv, Files, flush, server
<1>6. ASSUME NEW e \in Events, WritePart(e) \/ CloseFile(e) PROVE Order'
    BY <1>1, <1>3, <1>6 DEF WritePart, CloseFile, clock, flush, server
<1>7. ASSUME NEW p \in Processes, Acquire(p) \/ StartFlush(p) \/ ReadEvent(p) PROVE Order'
    BY <1>1, <1>3, <1>7 DEF Acquire, StartFlush, ReadEvent, clock, flush, server
<1>8. ASSUME NEW p \in Processes, ListQueue(p) PROVE Order'
    <2>1. PICK q \in Listings : queue' = [queue EXCEPT ![p] = q]
        BY <1>8 DEF ListQueue
    <2>2. ASSUME NEW i \in 1 .. Len(q), NEW d \in Events, born[d] < stamp[q[i]], file[d] # "none"
          PROVE  \E j \in 1 .. Len(q) : j < i /\ q[j] = d
        <3>1. PICK j \in 1 .. Len(q) : q[j] = d
            BY <2>2, ListingsAre DEF Listed
        <3>2. q[i] \in Events /\ (i < j => stamp[q[i]] <= stamp[d])
            BY <3>1, ListingsAre DEF Listed
        <3>3. stamp[d] < stamp[q[i]]
            BY <1>1, <2>2, <3>2
        <3> QED BY <1>1, <3>1, <3>2, <3>3
    <2> QED BY <1>1, <1>8, <2>1, <2>2 DEF ListQueue, clock, server
<1>9. ASSUME NEW p \in Processes, Ends(p) PROVE Order'
    BY <1>1, <1>9 DEF Ends, Finish, clock
<1>10. ASSUME NEW p \in Processes, NEW e \in Events, Answered(p, e) PROVE Order'
    <2>1. e = queue[p][1] /\ 1 \in 1 .. Len(queue[p])
        BY <1>1, <1>10, TailIs DEF Answered, IInv, Flushes
    <2>2. \A d \in Events : born[d] < stamp[e] /\ file[d] # "none" => d \in deferred
        BY <2>1
    <2> QED BY <1>1, <1>10, <2>2 DEF Answered, clock, flush
<1>11. ASSUME NEW p \in Processes, RetryLater(p) \/ RemoveFile(p) PROVE Order'
    <2>1. queue[p] # << >> /\ queue[p] \in Seq(Events)
        BY <1>1, <1>11 DEF RetryLater, RemoveFile, IInv, Flushes
    <2> DEFINE q == queue[p]
    <2>2. /\ \A d \in Events : file'[d] # "none" => file[d] # "none"
          /\ deferred \subseteq deferred'
          /\ file'[q[1]] = "none" \/ q[1] \in deferred'
          /\ queue' = [queue EXCEPT ![p] = Tail(q)]
          /\ UNCHANGED <<clock, answered>>
        <3>1. Head(q) = q[1] /\ q[1] \in Events
            BY <2>1, TailIs
        <3>2. CASE RetryLater(p)
            BY <1>1, <3>1, <3>2 DEF RetryLater, GoOn
        <3>3. CASE RemoveFile(p)
            BY <1>1, <3>1, <3>3 DEF RemoveFile, GoOn, server
        <3> QED BY <1>11, <3>2, <3>3
    <2>3. ASSUME NEW i \in 1 .. Len(Tail(q)), NEW d \in Events,
                 born[d] < stamp[Tail(q)[i]], file'[d] # "none", d \notin deferred'
          PROVE  \E j \in 1 .. Len(Tail(q)) : j < i /\ Tail(q)[j] = d
        <3>1. i + 1 \in 1 .. Len(q) /\ Tail(q)[i] = q[i + 1]
            BY <2>1, TailIs
        <3>2. PICK j \in 1 .. Len(q) : j < i + 1 /\ q[j] = d
            BY <2>2, <2>3, <3>1
        <3>3. j # 1
            BY <2>2, <2>3, <3>2
        <3>4. j - 1 \in 1 .. Len(Tail(q)) /\ j - 1 < i /\ Tail(q)[j - 1] = d
            BY <2>1, <3>2, <3>3, TailIs
        <3> QED BY <3>4
    <2>4. \A e \in Events : stamp'[e] <= now' /\ (file'[e] # "none" => stamp'[e] <= born'[e])
        BY <2>2 DEF clock
    <2>5. OrderKept'
        BY <2>2 DEF clock
    <2>6. ASSUME NEW r \in Processes, NEW i \in 1 .. Len(queue'[r]), NEW d \in Events,
                 born[d] < stamp[queue'[r][i]], file'[d] # "none", d \notin deferred'
          PROVE  \E j \in 1 .. Len(queue'[r]) : j < i /\ queue'[r][j] = d
        <3>1. CASE r = p
            <4>1. queue'[r] = Tail(q)
                BY <1>1, <2>2, <3>1
            <4> QED BY <2>3, <2>6, <4>1
        <3>2. CASE r # p
            <4>1. queue'[r] = queue[r] /\ file[d] # "none" /\ d \notin deferred
                BY <1>1, <2>2, <2>6, <3>2
            <4> QED BY <2>6, <4>1
        <3> QED BY <3>1, <3>2
    <2>7. \A r \in Processes : \A i \in 1 .. Len(queue'[r]), d \in Events :
             born'[d] < stamp'[queue'[r][i]] /\ file'[d] # "none" /\ d \notin deferred' =>
                \E j \in 1 .. Len(queue'[r]) : j < i /\ queue'[r][j] = d
        <3>1. stamp' = stamp /\ born' = born
            BY <2>2 DEF clock
        <3> QED BY <2>6, <3>1
    <2> QED BY <2>4, <2>5, <2>7
<1>12. CASE Tick
    BY <1>1, <1>3, <1>12 DEF Tick, flush, server
<1>13. CASE UNCHANGED vars
    BY <1>1, <1>3, <1>13 DEF vars
<1> QED BY <1>4, <1>5, <1>6, <1>7, <1>8, <1>9, <1>10, <1>11, <1>12, <1>13, StepsAre DEF IInv

\* Events are answered for in the order of the seconds their files were named in, but for
\* those the server asked to have again later.
THEOREM OrderIsKept == Spec => []OrderKept
<1>1. Init => Order
    BY ProcessAssumption DEF Init, Order, OrderKept, IsAnswered
<1>2. Order => OrderKept
    BY DEF Order
<1> QED BY <1>1, <1>2, OrderNext, IInvHolds, PTL DEF Spec
=============================================================================
