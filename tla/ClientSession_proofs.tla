-------------------------- MODULE ClientSession_proofs --------------------------
(***************************************************************************)
(* Proofs about ClientSession for every set of sessions, every set of pair *)
(* records with files of any size, and any number of requests.             *)
(***************************************************************************)
EXTENDS ClientSession, TLAPS

(* The inductive invariant *)

\* Where a session is not busy with a request.
Idle == {"read", "garbled", "listening", "bridge", "ended"}

\* A request that is being handled has had no answer yet, and its handler has not failed.
BusyUnanswered(s) == pc[s] \notin Idle => answers[s] = 0 /\ ~silent[s]

\* One answer, or one failure without an answer, for the last request of a session.
Answered(s) ==
    /\ answers[s] <= 1
    /\ pc[s] \in Idle /\ requests[s] > 0 /\ ~gone[s] => (answers[s] = 1 <=> ~silent[s])

\* A session that saves has a record to save, and the file it has open, if that still has
\* its name, is the one the others see.
SaverHasRecord ==
    /\ \A s \in Sessions : pc[s] \in {"saveopen", "savewrite"} => rec[s] \in Records
    /\ \A s \in Sessions : linked[s] => record \in Seq(Blocks)
                                        /\ \E r \in Records : Len(record) <= Size[r]

\* Between the two steps of a write that nobody disturbed the file is there and empty.
OpenedIsEmpty ==
    /\ \A s, t \in Sessions : undisturbed[s] /\ undisturbed[t] => s = t
    /\ \A s \in Sessions : pc[s] = "savewrite" /\ undisturbed[s] => linked[s] /\ record = <<>>

\* Without a race one session at a time creates SystemConfiguration.plist: the file is
\* missing until it opens it, and empty until it has written it.
OneCreator ==
    ~raced =>
        /\ \A s, t \in Sessions :
              pc[s] \in {"buidopen", "buidwrite"} /\ pc[t] \in {"buidopen", "buidwrite"} => s = t
        /\ \A s \in Sessions : pc[s] = "buidopen" => config = None
        /\ \A s \in Sessions : pc[s] = "buidwrite" => config = "empty"

\* The inductive invariant.
IInv ==
    /\ TypeOK /\ SaverHasRecord
    /\ \A s \in Sessions : BusyUnanswered(s) /\ Answered(s)
    /\ OpenedIsEmpty /\ OkMeansStored
    /\ OneCreator /\ BuidAgreed

--------------------------------------------------------------------------------
(* What the steps of a session share *)

\* Where a session can be.
Places == Starts \cup {"read", "garbled", "opening", "listening", "bridge", "ended",
                       "buidopen", "buidwrite", "buidfails", "readbuid", "savewrite", "paired", "ok"}

\* Only the session that takes the step moves.
LEMMA GotoEffect ==
    ASSUME TypeOK, NEW s \in Sessions, NEW l \in Places, Goto(s, l)
    PROVE  /\ pc' \in [Sessions -> Places] /\ pc'[s] = l
           /\ \A t \in Sessions \ {s} : pc'[t] = pc[t]
  BY DEF TypeOK, Places, Goto

\* An answer is counted, and the session goes on, unless the client is gone.
LEMMA AnswerEffect ==
    ASSUME TypeOK, NEW s \in Sessions, NEW l \in Places, Answer(s, l)
    PROVE  /\ pc' \in [Sessions -> Places] /\ answers' \in [Sessions -> Nat]
           /\ \A t \in Sessions \ {s} : pc'[t] = pc[t] /\ answers'[t] = answers[t]
           /\ gone[s] => pc'[s] = "ended" /\ answers'[s] = answers[s]
           /\ ~gone[s] => pc'[s] = l /\ answers'[s] = answers[s] + 1
  <1>1. CASE gone[s]
    <2>1. Goto(s, "ended") /\ "ended" \in Places
      BY <1>1 DEF Answer, Places
    <2> QED
      BY <1>1, <2>1, GotoEffect DEF Answer, TypeOK
  <1>2. CASE ~gone[s]
    BY <1>2, GotoEffect DEF Answer, TypeOK
  <1> QED
    BY <1>1, <1>2

\* A failure is no answer.
LEMMA FailEffect ==
    ASSUME TypeOK, NEW s \in Sessions, Fail(s)
    PROVE  /\ pc' \in [Sessions -> Places] /\ pc'[s] = "read" /\ answers' = answers
           /\ \A t \in Sessions \ {s} : pc'[t] = pc[t] /\ silent'[t] = silent[t]
           /\ silent' \in [Sessions -> BOOLEAN] /\ silent'[s]
  BY GotoEffect DEF Fail, TypeOK, Places

\* Whoever is not told otherwise keeps its count: the part of the argument that is the same
\* for every step of session s.
LEMMA OthersKeep ==
    ASSUME NEW s \in Sessions,
           \A t \in Sessions : BusyUnanswered(t) /\ Answered(t),
           \A t \in Sessions \ {s} :
              /\ pc'[t] = pc[t] /\ answers'[t] = answers[t] /\ silent'[t] = silent[t]
              /\ requests'[t] = requests[t] /\ gone'[t] = gone[t],
           BusyUnanswered(s)' /\ Answered(s)'
    PROVE  \A t \in Sessions : BusyUnanswered(t)' /\ Answered(t)'
  <1> SUFFICES ASSUME NEW t \in Sessions PROVE BusyUnanswered(t)' /\ Answered(t)'
    OBVIOUS
  <1>1. CASE t = s
    BY <1>1
  <1>2. CASE t # s
    BY <1>2 DEF BusyUnanswered, Answered
  <1> QED
    BY <1>1, <1>2

\* Moving on without an answer: within the handling of a request, or between requests.
LEMMA MoveCounts ==
    ASSUME TypeOK, \A t \in Sessions : BusyUnanswered(t) /\ Answered(t),
           NEW s \in Sessions, NEW l \in Places, Goto(s, l),
           pc[s] \in Idle <=> l \in Idle,
           UNCHANGED <<answers, silent, requests, gone>>
    PROVE  \A t \in Sessions : BusyUnanswered(t)' /\ Answered(t)'
  <1>1. pc'[s] = l /\ \A t \in Sessions \ {s} : pc'[t] = pc[t]
    BY GotoEffect
  <1>2. BusyUnanswered(s)' /\ Answered(s)'
    BY <1>1 DEF BusyUnanswered, Answered
  <1> QED
    BY <1>1, <1>2, OthersKeep

\* The answer that ends the handling of a request is the only one.
LEMMA AnswerCounts ==
    ASSUME TypeOK, \A t \in Sessions : BusyUnanswered(t) /\ Answered(t),
           NEW s \in Sessions, NEW l \in Places, Answer(s, l),
           pc[s] \notin Idle, l \in Idle,
           UNCHANGED <<silent, requests, gone>>
    PROVE  \A t \in Sessions : BusyUnanswered(t)' /\ Answered(t)'
  <1>1. /\ \A t \in Sessions \ {s} : pc'[t] = pc[t] /\ answers'[t] = answers[t]
        /\ gone[s] => pc'[s] = "ended" /\ answers'[s] = answers[s]
        /\ ~gone[s] => pc'[s] = l /\ answers'[s] = answers[s] + 1
    BY AnswerEffect
  <1>2. answers[s] = 0 /\ ~silent[s]
    BY DEF BusyUnanswered
  <1>3. BusyUnanswered(s)' /\ Answered(s)'
    BY <1>1, <1>2 DEF BusyUnanswered, Answered, Idle
  <1> QED
    BY <1>1, <1>3, OthersKeep

\* A failure ends the handling of a request that had no answer.
LEMMA FailCounts ==
    ASSUME TypeOK, \A t \in Sessions : BusyUnanswered(t) /\ Answered(t),
           NEW s \in Sessions, Fail(s), pc[s] \notin Idle,
           UNCHANGED <<requests, gone>>
    PROVE  \A t \in Sessions : BusyUnanswered(t)' /\ Answered(t)'
  <1>1. /\ pc'[s] = "read" /\ answers' = answers /\ silent'[s]
        /\ \A t \in Sessions \ {s} : pc'[t] = pc[t] /\ silent'[t] = silent[t]
    BY FailEffect
  <1>2. answers[s] = 0
    BY DEF BusyUnanswered
  <1>3. BusyUnanswered(s)' /\ Answered(s)'
    BY <1>1, <1>2 DEF BusyUnanswered, Answered, Idle
  <1> QED
    BY <1>1, <1>3, OthersKeep

\* A write makes a file of blocks, as long as the record or as what was there; into an empty
\* file it puts the record and nothing else.
LEMMA WrittenLemma ==
    ASSUME NEW r \in Records, NEW file \in Seq(Blocks), \E q \in Records : Len(file) <= Size[q]
    PROVE  /\ Written(r, file) \in Seq(Blocks)
           /\ \E q \in Records : Len(Written(r, file)) <= Size[q]
           /\ file = <<>> => Written(r, file) = Encoded(r)
  <1> DEFINE n == IF Size[r] > Len(file) THEN Size[r] ELSE Len(file)
  <1>1. /\ n \in Nat /\ n >= Len(file) /\ Size[r] \in Nat /\ Size[r] <= n
        /\ n = Size[r] \/ n = Len(file)
    BY ConstantsAssumption
  <1>2. \A i \in 1 .. n : (IF i <= Size[r] THEN Encoded(r)[i] ELSE file[i]) \in Blocks
    <2> SUFFICES ASSUME NEW i \in 1 .. n
                 PROVE  (IF i <= Size[r] THEN Encoded(r)[i] ELSE file[i]) \in Blocks
      OBVIOUS
    <2>1. CASE i <= Size[r]
      <3>1. i \in 1 .. Size[r]
        BY <1>1, <2>1
      <3> QED
        BY <2>1, <3>1 DEF Encoded, Blocks
    <2>2. CASE ~(i <= Size[r])
      BY <1>1, <2>2
    <2> QED
      BY <2>1, <2>2
  <1>3. Written(r, file) = [i \in 1 .. n |-> IF i <= Size[r] THEN Encoded(r)[i] ELSE file[i]]
    BY DEF Written
  <1> HIDE DEF n
  <1>4. Written(r, file) \in Seq(Blocks) /\ Len(Written(r, file)) = n
    BY <1>1, <1>2, <1>3
  <1>5. \E q \in Records : Len(Written(r, file)) <= Size[q]
    BY <1>1, <1>4, ConstantsAssumption
  <1>6. ASSUME file = <<>> PROVE Written(r, file) = Encoded(r)
    <2>1. n = Size[r]
      BY <1>1, <1>6 DEF n
    <2> QED
      BY <1>1, <1>3, <2>1 DEF Encoded
  <1> QED
    BY <1>4, <1>5, <1>6

\* Every handler answers once or fails without an answer, and only where it ends.
LEMMA AnswerStep ==
    ASSUME TypeOK, \A s \in Sessions : BusyUnanswered(s) /\ Answered(s), [Next]_vars
    PROVE  \A u \in Sessions : BusyUnanswered(u)' /\ Answered(u)'
  <1> USE DEF TypeOK, Starts, Places, Idle, sessionVars, recordVars, buidVars
  <1>1. CASE InitHotplug
    BY <1>1 DEF InitHotplug, BusyUnanswered, Answered
  <1>2. ASSUME NEW s \in Sessions, NEW l \in Starts, NEW r \in Records, Receive(s, l, r)
        PROVE  \A u \in Sessions : BusyUnanswered(u)' /\ Answered(u)'
    <2>1. /\ BusyUnanswered(s)' /\ Answered(s)'
          /\ \A t \in Sessions \ {s} :
                /\ pc'[t] = pc[t] /\ answers'[t] = answers[t] /\ silent'[t] = silent[t]
                /\ requests'[t] = requests[t] /\ gone'[t] = gone[t]
      BY <1>2 DEF Receive, Goto, BusyUnanswered, Answered
    <2> QED
      BY <2>1, OthersKeep
  <1>3. ASSUME NEW s \in Sessions, ClientEof(s)
        PROVE  \A u \in Sessions : BusyUnanswered(u)' /\ Answered(u)'
    BY <1>3, MoveCounts DEF ClientEof
  <1>4. ASSUME NEW s \in Sessions, Refuse(s)
        PROVE  \A u \in Sessions : BusyUnanswered(u)' /\ Answered(u)'
    BY <1>4, AnswerCounts DEF Refuse
  <1>5. ASSUME NEW s \in Sessions, ListDevices(s)
        PROVE  \A u \in Sessions : BusyUnanswered(u)' /\ Answered(u)'
    BY <1>5, AnswerCounts, FailCounts DEF ListDevices
  <1>6. ASSUME NEW s \in Sessions, ListListeners(s)
        PROVE  \A u \in Sessions : BusyUnanswered(u)' /\ Answered(u)'
    BY <1>6, AnswerCounts, FailCounts DEF ListListeners
  <1>7. ASSUME NEW s \in Sessions, Listen(s)
        PROVE  \A u \in Sessions : BusyUnanswered(u)' /\ Answered(u)'
    BY <1>7, AnswerCounts DEF Listen
  <1>8. ASSUME NEW s \in Sessions, Connect(s)
        PROVE  \A u \in Sessions : BusyUnanswered(u)' /\ Answered(u)'
    BY <1>8, AnswerCounts, MoveCounts DEF Connect
  <1>9. ASSUME NEW s \in Sessions, CheckBuid(s)
        PROVE  \A u \in Sessions : BusyUnanswered(u)' /\ Answered(u)'
    BY <1>9, MoveCounts DEF CheckBuid
  <1>10. ASSUME NEW s \in Sessions, BuidOpen(s)
        PROVE  \A u \in Sessions : BusyUnanswered(u)' /\ Answered(u)'
    BY <1>10, MoveCounts DEF BuidOpen
  <1>11. ASSUME NEW s \in Sessions, BuidWrite(s)
        PROVE  \A u \in Sessions : BusyUnanswered(u)' /\ Answered(u)'
    BY <1>11, MoveCounts DEF BuidWrite
  <1>12. ASSUME NEW s \in Sessions, BuidFails(s)
        PROVE  \A u \in Sessions : BusyUnanswered(u)' /\ Answered(u)'
    <2>1. answers[s] = 0 /\ ~silent[s]
      BY <1>12 DEF BuidFails, BusyUnanswered
    <2>2. pc'[s] = "read" /\ answers'[s] = IF gone[s] THEN 0 ELSE 1
      BY <1>12, <2>1 DEF BuidFails, Goto
    <2>3. \A t \in Sessions \ {s} : pc'[t] = pc[t] /\ answers'[t] = answers[t]
      BY <1>12 DEF BuidFails, Goto
    <2>4. UNCHANGED <<silent, requests, gone>>
      BY <1>12 DEF BuidFails
    <2>5. BusyUnanswered(s)' /\ Answered(s)'
      BY <2>1, <2>2, <2>4 DEF BusyUnanswered, Answered
    <2> QED
      BY <2>3, <2>4, <2>5, OthersKeep
  <1>13. ASSUME NEW s \in Sessions, ReadBuid(s)
        PROVE  \A u \in Sessions : BusyUnanswered(u)' /\ Answered(u)'
    BY <1>13, AnswerCounts, FailCounts DEF ReadBuid
  <1>14. ASSUME NEW s \in Sessions, SaveOpen(s)
        PROVE  \A u \in Sessions : BusyUnanswered(u)' /\ Answered(u)'
    BY <1>14, FailCounts, MoveCounts DEF SaveOpen
  <1>15. ASSUME NEW s \in Sessions, SaveWrite(s)
        PROVE  \A u \in Sessions : BusyUnanswered(u)' /\ Answered(u)'
    BY <1>15, FailCounts, MoveCounts DEF SaveWrite
  <1>16. ASSUME NEW s \in Sessions, SendPaired(s)
        PROVE  \A u \in Sessions : BusyUnanswered(u)' /\ Answered(u)'
    <2>1. answers[s] = 0 /\ ~silent[s]
      BY <1>16 DEF SendPaired, BusyUnanswered
    <2>2. answers'[s] = 0 /\ pc'[s] = IF gone[s] THEN "ended" ELSE "ok"
      BY <1>16, <2>1 DEF SendPaired, Goto
    <2>3. \A t \in Sessions \ {s} : pc'[t] = pc[t] /\ answers'[t] = answers[t]
      BY <1>16 DEF SendPaired, Goto
    <2>4. UNCHANGED <<silent, requests, gone>>
      BY <1>16 DEF SendPaired
    <2>5. BusyUnanswered(s)' /\ Answered(s)'
      BY <2>1, <2>2, <2>4 DEF BusyUnanswered, Answered
    <2> QED
      BY <2>3, <2>4, <2>5, OthersKeep
  <1>17. ASSUME NEW s \in Sessions, SendOk(s)
        PROVE  \A u \in Sessions : BusyUnanswered(u)' /\ Answered(u)'
    BY <1>17, AnswerCounts DEF SendOk
  <1>18. ASSUME NEW s \in Sessions, ReadPairRecord(s)
        PROVE  \A u \in Sessions : BusyUnanswered(u)' /\ Answered(u)'
    BY <1>18, AnswerCounts, FailCounts, MoveCounts DEF ReadPairRecord
  <1>19. ASSUME NEW s \in Sessions, DeletePairRecord(s)
        PROVE  \A u \in Sessions : BusyUnanswered(u)' /\ Answered(u)'
    BY <1>19, FailCounts, MoveCounts DEF DeletePairRecord
  <1>20. ASSUME NEW s \in Sessions, ParseFails(s)
        PROVE  \A u \in Sessions : BusyUnanswered(u)' /\ Answered(u)'
    <2>1. /\ BusyUnanswered(s)' /\ Answered(s)'
          /\ \A t \in Sessions \ {s} :
                /\ pc'[t] = pc[t] /\ answers'[t] = answers[t] /\ silent'[t] = silent[t]
                /\ requests'[t] = requests[t] /\ gone'[t] = gone[t]
      BY <1>20 DEF ParseFails, Goto, BusyUnanswered, Answered
    <2> QED
      BY <2>1, OthersKeep
  <1>21. ASSUME NEW s \in Sessions, HandedOffEnds(s)
        PROVE  \A u \in Sessions : BusyUnanswered(u)' /\ Answered(u)'
    BY <1>21, MoveCounts DEF HandedOffEnds
  <1>22. ASSUME NEW s \in Sessions, ClientCloses(s)
        PROVE  \A u \in Sessions : BusyUnanswered(u)' /\ Answered(u)'
    <2>1. /\ BusyUnanswered(s)' /\ Answered(s)'
          /\ \A t \in Sessions \ {s} :
                /\ pc'[t] = pc[t] /\ answers'[t] = answers[t] /\ silent'[t] = silent[t]
                /\ requests'[t] = requests[t] /\ gone'[t] = gone[t]
      BY <1>22 DEF ClientCloses, BusyUnanswered, Answered
    <2> QED
      BY <2>1, OthersKeep
  <1>23. CASE UNCHANGED vars
    BY <1>23 DEF vars, BusyUnanswered, Answered
  <1>24. ASSUME NEW s \in Sessions, Opened(s)
        PROVE  \A u \in Sessions : BusyUnanswered(u)' /\ Answered(u)'
    BY <1>24, AnswerCounts DEF Opened
  <1> QED
    BY <1>1, <1>2, <1>3, <1>4, <1>5, <1>6, <1>7, <1>8, <1>9, <1>10, <1>11, <1>12, <1>13, <1>14,
       <1>15, <1>16, <1>17, <1>18, <1>19, <1>20, <1>21, <1>22, <1>23, <1>24
       DEF Next, Handling

\* Every step keeps the types, and the record of a session that saves.
LEMMA TypeStep ==
    ASSUME TypeOK, SaverHasRecord, [Next]_vars
    PROVE  TypeOK' /\ SaverHasRecord'
  <1> USE DEF TypeOK, SaverHasRecord, Starts, Places, sessionVars, recordVars, buidVars
  <1>1. CASE InitHotplug
    BY <1>1 DEF InitHotplug
  <1>2. ASSUME NEW s \in Sessions, NEW l \in Starts, NEW r \in Records, Receive(s, l, r)
        PROVE  TypeOK' /\ SaverHasRecord'
    <2>1. pc' \in [Sessions -> Places] /\ pc'[s] = l /\ \A t \in Sessions \ {s} : pc'[t] = pc[t]
      BY <1>2, GotoEffect DEF Receive
    <2>2. /\ rec' \in [Sessions -> Records \cup {None}]
          /\ answers' \in [Sessions -> Nat] /\ requests' \in [Sessions -> 0 .. MaxRequests]
          /\ l = "saveopen" => rec'[s] \in Records
          /\ \A t \in Sessions \ {s} : rec'[t] = rec[t]
      BY <1>2, ConstantsAssumption DEF Receive
    <2>3. silent' \in [Sessions -> BOOLEAN]
      BY <1>2 DEF Receive
    <2>4. UNCHANGED <<gone, hotplug, recordVars, buidVars>>
      BY <1>2 DEF Receive
    <2>5. \A t \in Sessions : pc'[t] \in {"saveopen", "savewrite"} => rec'[t] \in Records
      BY <2>1, <2>2
    <2> QED
      BY <2>1, <2>2, <2>3, <2>4, <2>5
  <1>3. ASSUME NEW s \in Sessions, ClientEof(s)
        PROVE  TypeOK' /\ SaverHasRecord'
    BY <1>3, GotoEffect DEF ClientEof
  <1>4. ASSUME NEW s \in Sessions, Refuse(s)
        PROVE  TypeOK' /\ SaverHasRecord'
    BY <1>4, AnswerEffect DEF Refuse
  <1>5. ASSUME NEW s \in Sessions, ListDevices(s)
        PROVE  TypeOK' /\ SaverHasRecord'
    <2>1. /\ pc' \in [Sessions -> Places] /\ pc'[s] \in {"read", "ended"}
          /\ \A t \in Sessions \ {s} : pc'[t] = pc[t]
          /\ answers' \in [Sessions -> Nat] /\ silent' \in [Sessions -> BOOLEAN]
      BY <1>5, AnswerEffect, FailEffect DEF ListDevices
    <2>2. UNCHANGED <<rec, requests, gone, hotplug, recordVars, buidVars>>
      BY <1>5 DEF ListDevices
    <2> QED
      BY <2>1, <2>2
  <1>6. ASSUME NEW s \in Sessions, ListListeners(s)
        PROVE  TypeOK' /\ SaverHasRecord'
    <2>1. /\ pc' \in [Sessions -> Places] /\ pc'[s] \in {"read", "ended"}
          /\ \A t \in Sessions \ {s} : pc'[t] = pc[t]
          /\ answers' \in [Sessions -> Nat] /\ silent' \in [Sessions -> BOOLEAN]
      BY <1>6, AnswerEffect, FailEffect DEF ListListeners
    <2>2. UNCHANGED <<rec, requests, gone, hotplug, recordVars, buidVars>>
      BY <1>6 DEF ListListeners
    <2> QED
      BY <2>1, <2>2
  <1>7. ASSUME NEW s \in Sessions, Listen(s)
        PROVE  TypeOK' /\ SaverHasRecord'
    <2>1. /\ pc' \in [Sessions -> Places] /\ pc'[s] \in {"listening", "ended"}
          /\ \A t \in Sessions \ {s} : pc'[t] = pc[t]
          /\ answers' \in [Sessions -> Nat] /\ silent' \in [Sessions -> BOOLEAN]
      BY <1>7, AnswerEffect DEF Listen
    <2>2. UNCHANGED <<rec, requests, gone, hotplug, recordVars, buidVars>>
      BY <1>7 DEF Listen
    <2> QED
      BY <2>1, <2>2
  <1>8. ASSUME NEW s \in Sessions, Connect(s)
        PROVE  TypeOK' /\ SaverHasRecord'
    BY <1>8, AnswerEffect, GotoEffect DEF Connect
  <1>9. ASSUME NEW s \in Sessions, CheckBuid(s)
        PROVE  TypeOK' /\ SaverHasRecord'
    BY <1>9, GotoEffect DEF CheckBuid
  <1>10. ASSUME NEW s \in Sessions, BuidOpen(s)
        PROVE  TypeOK' /\ SaverHasRecord'
    BY <1>10, GotoEffect DEF BuidOpen
  <1>11. ASSUME NEW s \in Sessions, BuidWrite(s)
        PROVE  TypeOK' /\ SaverHasRecord'
    BY <1>11, GotoEffect DEF BuidWrite
  <1>12. ASSUME NEW s \in Sessions, BuidFails(s)
        PROVE  TypeOK' /\ SaverHasRecord'
    BY <1>12, GotoEffect DEF BuidFails
  <1>13. ASSUME NEW s \in Sessions, ReadBuid(s)
        PROVE  TypeOK' /\ SaverHasRecord'
    BY <1>13, AnswerEffect, FailEffect DEF ReadBuid
  <1>14. ASSUME NEW s \in Sessions, SaveOpen(s)
        PROVE  TypeOK' /\ SaverHasRecord'
    <2>1. /\ pc' \in [Sessions -> Places] /\ pc'[s] \in {"savewrite", "refuse", "read"}
          /\ \A t \in Sessions \ {s} : pc'[t] = pc[t]
          /\ answers' \in [Sessions -> Nat] /\ silent' \in [Sessions -> BOOLEAN]
      BY <1>14, GotoEffect, FailEffect DEF SaveOpen
    <2>2. UNCHANGED <<rec, requests, gone, hotplug, buidVars>> /\ pc[s] = "saveopen"
      BY <1>14 DEF SaveOpen
    <2>3. CASE UNCHANGED recordVars
      BY <2>1, <2>2, <2>3
    <2>4. CASE /\ record' = <<>> /\ linked' = [linked EXCEPT ![s] = TRUE]
               /\ undisturbed' = [t \in Sessions |-> t = s]
      <3>1. linked' \in [Sessions -> BOOLEAN] /\ undisturbed' \in [Sessions -> BOOLEAN]
        BY <2>4
      <3>2. record' \in Seq(Blocks) /\ \E r \in Records : Len(record') <= Size[r]
        <4>1. rec[s] \in Records /\ Size[rec[s]] \in Nat
          BY <2>2, ConstantsAssumption
        <4> QED
          BY <2>4, <4>1
      <3> QED
        BY <2>1, <2>2, <3>1, <3>2
    <2> QED
      BY <1>14, <2>3, <2>4 DEF SaveOpen
  <1>15. ASSUME NEW s \in Sessions, SaveWrite(s)
        PROVE  TypeOK' /\ SaverHasRecord'
    <2>1. /\ pc' \in [Sessions -> Places] /\ pc'[s] \in {"paired", "ok", "read"}
          /\ \A t \in Sessions \ {s} : pc'[t] = pc[t]
          /\ answers' \in [Sessions -> Nat] /\ silent' \in [Sessions -> BOOLEAN]
      BY <1>15, GotoEffect, FailEffect DEF SaveWrite
    <2>2. /\ UNCHANGED <<rec, requests, gone, hotplug, buidVars>> /\ pc[s] = "savewrite"
          /\ linked' = [linked EXCEPT ![s] = FALSE]
      BY <1>15 DEF SaveWrite
    <2>3. /\ linked' \in [Sessions -> BOOLEAN] /\ undisturbed' \in [Sessions -> BOOLEAN]
          /\ \A t \in Sessions : linked'[t] => linked[t]
      BY <1>15 DEF SaveWrite
    <2>4. CASE record' = record
      BY <2>1, <2>2, <2>3, <2>4
    <2>5. CASE linked[s] /\ record' = Written(rec[s], record)
      <3>1. record' \in Seq(Blocks) /\ \E r \in Records : Len(record') <= Size[r]
        BY <2>2, <2>5, WrittenLemma
      <3> QED
        BY <2>1, <2>2, <2>3, <3>1
    <2> QED
      BY <1>15, <2>4, <2>5 DEF SaveWrite
  <1>16. ASSUME NEW s \in Sessions, SendPaired(s)
        PROVE  TypeOK' /\ SaverHasRecord'
    BY <1>16, GotoEffect DEF SendPaired
  <1>17. ASSUME NEW s \in Sessions, SendOk(s)
        PROVE  TypeOK' /\ SaverHasRecord'
    BY <1>17, AnswerEffect DEF SendOk
  <1>18. ASSUME NEW s \in Sessions, ReadPairRecord(s)
        PROVE  TypeOK' /\ SaverHasRecord'
    BY <1>18, AnswerEffect, FailEffect, GotoEffect DEF ReadPairRecord
  <1>19. ASSUME NEW s \in Sessions, DeletePairRecord(s)
        PROVE  TypeOK' /\ SaverHasRecord'
    <2>1. /\ pc' \in [Sessions -> Places] /\ pc'[s] \in {"ok", "refuse", "read"}
          /\ \A t \in Sessions \ {s} : pc'[t] = pc[t]
          /\ answers' \in [Sessions -> Nat] /\ silent' \in [Sessions -> BOOLEAN]
      BY <1>19, GotoEffect, FailEffect DEF DeletePairRecord
    <2>2. UNCHANGED <<rec, requests, gone, hotplug, buidVars>>
      BY <1>19 DEF DeletePairRecord
    <2>3. CASE UNCHANGED recordVars
      BY <2>1, <2>2, <2>3
    <2>4. CASE /\ record' = None /\ linked' = [t \in Sessions |-> FALSE]
               /\ undisturbed' = [t \in Sessions |-> FALSE]
      BY <2>1, <2>2, <2>4
    <2> QED
      BY <1>19, <2>3, <2>4 DEF DeletePairRecord
  <1>20. ASSUME NEW s \in Sessions, ParseFails(s)
        PROVE  TypeOK' /\ SaverHasRecord'
    <2>1. /\ pc' \in [Sessions -> Places] /\ pc'[s] \in {"read", "garbled"}
          /\ \A t \in Sessions \ {s} : pc'[t] = pc[t]
      BY <1>20, GotoEffect DEF ParseFails
    <2>2. answers' \in [Sessions -> Nat] /\ requests' \in [Sessions -> 0 .. MaxRequests]
      BY <1>20, ConstantsAssumption DEF ParseFails
    <2>3. silent' \in [Sessions -> BOOLEAN]
      BY <1>20 DEF ParseFails
    <2>4. UNCHANGED <<rec, gone, hotplug, recordVars, buidVars>>
      BY <1>20 DEF ParseFails
    <2> QED
      BY <2>1, <2>2, <2>3, <2>4
  <1>21. ASSUME NEW s \in Sessions, HandedOffEnds(s)
        PROVE  TypeOK' /\ SaverHasRecord'
    BY <1>21, GotoEffect DEF HandedOffEnds
  <1>22. ASSUME NEW s \in Sessions, ClientCloses(s)
        PROVE  TypeOK' /\ SaverHasRecord'
    BY <1>22 DEF ClientCloses
  <1>23. CASE UNCHANGED vars
    BY <1>23 DEF vars
  <1>24. ASSUME NEW s \in Sessions, Opened(s)
        PROVE  TypeOK' /\ SaverHasRecord'
    BY <1>24, AnswerEffect DEF Opened
  <1> QED
    BY <1>1, <1>2, <1>3, <1>4, <1>5, <1>6, <1>7, <1>8, <1>9, <1>10, <1>11, <1>12, <1>13, <1>14,
       <1>15, <1>16, <1>17, <1>18, <1>19, <1>20, <1>21, <1>22, <1>23, <1>24
       DEF Next, Handling

\* Between the open and the write of an undisturbed save the file stays empty, and after the
\* write it stays as it was written.
LEMMA StoreStep ==
    ASSUME TypeOK, SaverHasRecord, OpenedIsEmpty, OkMeansStored, [Next]_vars
    PROVE  OpenedIsEmpty' /\ OkMeansStored'
  <1> USE DEF TypeOK, Starts, SaverHasRecord, OpenedIsEmpty, OkMeansStored, sessionVars,
          recordVars, buidVars
  <1>1. CASE InitHotplug
    BY <1>1 DEF InitHotplug
  <1>2. ASSUME NEW s \in Sessions, NEW l \in Starts, NEW r \in Records, Receive(s, l, r)
        PROVE  OpenedIsEmpty' /\ OkMeansStored'
    BY <1>2 DEF Receive, Goto
  <1>3. ASSUME NEW s \in Sessions, ClientEof(s)
        PROVE  OpenedIsEmpty' /\ OkMeansStored'
    BY <1>3 DEF ClientEof, Goto
  <1>4. ASSUME NEW s \in Sessions, Refuse(s)
        PROVE  OpenedIsEmpty' /\ OkMeansStored'
    BY <1>4 DEF Refuse, Answer, Goto
  <1>5. ASSUME NEW s \in Sessions, ListDevices(s)
        PROVE  OpenedIsEmpty' /\ OkMeansStored'
    BY <1>5 DEF ListDevices, Answer, Fail, Goto
  <1>6. ASSUME NEW s \in Sessions, ListListeners(s)
        PROVE  OpenedIsEmpty' /\ OkMeansStored'
    BY <1>6 DEF ListListeners, Answer, Fail, Goto
  <1>7. ASSUME NEW s \in Sessions, Listen(s)
        PROVE  OpenedIsEmpty' /\ OkMeansStored'
    BY <1>7 DEF Listen, Answer, Goto
  <1>8. ASSUME NEW s \in Sessions, Connect(s)
        PROVE  OpenedIsEmpty' /\ OkMeansStored'
    BY <1>8 DEF Connect, Answer, Goto
  <1>9. ASSUME NEW s \in Sessions, CheckBuid(s)
        PROVE  OpenedIsEmpty' /\ OkMeansStored'
    BY <1>9 DEF CheckBuid, Goto
  <1>10. ASSUME NEW s \in Sessions, BuidOpen(s)
        PROVE  OpenedIsEmpty' /\ OkMeansStored'
    BY <1>10 DEF BuidOpen, Goto
  <1>11. ASSUME NEW s \in Sessions, BuidWrite(s)
        PROVE  OpenedIsEmpty' /\ OkMeansStored'
    BY <1>11 DEF BuidWrite, Goto
  <1>12. ASSUME NEW s \in Sessions, BuidFails(s)
        PROVE  OpenedIsEmpty' /\ OkMeansStored'
    BY <1>12 DEF BuidFails, Goto
  <1>13. ASSUME NEW s \in Sessions, ReadBuid(s)
        PROVE  OpenedIsEmpty' /\ OkMeansStored'
    BY <1>13 DEF ReadBuid, Answer, Fail, Goto
  <1>14. ASSUME NEW s \in Sessions, SaveOpen(s)
        PROVE  OpenedIsEmpty' /\ OkMeansStored'
    <2>1. /\ rec' = rec /\ pc'[s] \in {"savewrite", "refuse", "read"}
          /\ \A t \in Sessions \ {s} : pc'[t] = pc[t]
      BY <1>14 DEF SaveOpen, Fail, Goto
    <2>2. CASE UNCHANGED recordVars /\ pc'[s] # "savewrite"
      BY <2>1, <2>2
    <2>3. CASE /\ record' = <<>> /\ linked' = [linked EXCEPT ![s] = TRUE]
               /\ undisturbed' = [t \in Sessions |-> t = s] /\ pc'[s] = "savewrite"
      BY <2>1, <2>3
    <2> QED
      BY <1>14, <2>2, <2>3 DEF SaveOpen, Fail, Goto
  <1>15. ASSUME NEW s \in Sessions, SaveWrite(s)
        PROVE  OpenedIsEmpty' /\ OkMeansStored'
    <2>1. /\ pc[s] = "savewrite" /\ rec' = rec
          /\ \A t \in Sessions \ {s} : pc'[t] = pc[t] /\ linked'[t] = linked[t]
          /\ pc'[s] \in {"paired", "ok", "read"}
      BY <1>15 DEF SaveWrite, Fail, Goto
    <2>2. CASE /\ linked[s] /\ record' = Written(rec[s], record)
               /\ undisturbed' = [t \in Sessions |-> t = s /\ undisturbed[s]]
      <3>1. undisturbed[s] => record' = Encoded(rec[s])
        BY <2>1, <2>2, WrittenLemma
      <3>2. \A t \in Sessions : undisturbed'[t] => t = s /\ undisturbed[s]
        BY <2>2
      <3> QED
        BY <2>1, <3>1, <3>2
    <2>3. CASE ~linked[s] /\ UNCHANGED <<record, undisturbed>>
      BY <2>1, <2>3
    <2>4. CASE pc'[s] = "read" /\ UNCHANGED <<record, undisturbed>>
      BY <2>1, <2>4
    <2> QED
      BY <1>15, <2>2, <2>3, <2>4 DEF SaveWrite, Fail, Goto
  <1>16. ASSUME NEW s \in Sessions, SendPaired(s)
        PROVE  OpenedIsEmpty' /\ OkMeansStored'
    BY <1>16 DEF SendPaired, Goto
  <1>17. ASSUME NEW s \in Sessions, SendOk(s)
        PROVE  OpenedIsEmpty' /\ OkMeansStored'
    BY <1>17 DEF SendOk, Answer, Goto
  <1>18. ASSUME NEW s \in Sessions, ReadPairRecord(s)
        PROVE  OpenedIsEmpty' /\ OkMeansStored'
    BY <1>18 DEF ReadPairRecord, Answer, Fail, Goto
  <1>19. ASSUME NEW s \in Sessions, DeletePairRecord(s)
        PROVE  OpenedIsEmpty' /\ OkMeansStored'
    BY <1>19 DEF DeletePairRecord, Fail, Goto
  <1>20. ASSUME NEW s \in Sessions, ParseFails(s)
        PROVE  OpenedIsEmpty' /\ OkMeansStored'
    BY <1>20 DEF ParseFails, Goto
  <1>21. ASSUME NEW s \in Sessions, HandedOffEnds(s)
        PROVE  OpenedIsEmpty' /\ OkMeansStored'
    BY <1>21 DEF HandedOffEnds, Goto
  <1>22. ASSUME NEW s \in Sessions, ClientCloses(s)
        PROVE  OpenedIsEmpty' /\ OkMeansStored'
    BY <1>22 DEF ClientCloses
  <1>23. CASE UNCHANGED vars
    BY <1>23 DEF vars
  <1>24. ASSUME NEW s \in Sessions, Opened(s)
        PROVE  OpenedIsEmpty' /\ OkMeansStored'
    BY <1>24 DEF Opened, Answer, Goto
  <1> QED
    BY <1>1, <1>2, <1>3, <1>4, <1>5, <1>6, <1>7, <1>8, <1>9, <1>10, <1>11, <1>12, <1>13, <1>14,
       <1>15, <1>16, <1>17, <1>18, <1>19, <1>20, <1>21, <1>22, <1>23, <1>24
       DEF Next, Handling

\* Without a race SystemConfiguration.plist is created by one session, and never changed after
\* anybody was told what is in it.
LEMMA BuidStep ==
    ASSUME TypeOK, OneCreator, BuidAgreed, [Next]_vars
    PROVE  OneCreator' /\ BuidAgreed'
  <1> USE ConstantsAssumption DEF TypeOK, Starts, OneCreator, BuidAgreed, sessionVars,
          recordVars, buidVars
  <1>1. CASE InitHotplug
    BY <1>1 DEF InitHotplug
  <1>2. ASSUME NEW s \in Sessions, NEW l \in Starts, NEW r \in Records, Receive(s, l, r)
        PROVE  OneCreator' /\ BuidAgreed'
    BY <1>2 DEF Receive, Goto
  <1>3. ASSUME NEW s \in Sessions, ClientEof(s)
        PROVE  OneCreator' /\ BuidAgreed'
    BY <1>3 DEF ClientEof, Goto
  <1>4. ASSUME NEW s \in Sessions, Refuse(s)
        PROVE  OneCreator' /\ BuidAgreed'
    BY <1>4 DEF Refuse, Answer, Goto
  <1>5. ASSUME NEW s \in Sessions, ListDevices(s)
        PROVE  OneCreator' /\ BuidAgreed'
    BY <1>5 DEF ListDevices, Answer, Fail, Goto
  <1>6. ASSUME NEW s \in Sessions, ListListeners(s)
        PROVE  OneCreator' /\ BuidAgreed'
    BY <1>6 DEF ListListeners, Answer, Fail, Goto
  <1>7. ASSUME NEW s \in Sessions, Listen(s)
        PROVE  OneCreator' /\ BuidAgreed'
    BY <1>7 DEF Listen, Answer, Goto
  <1>8. ASSUME NEW s \in Sessions, Connect(s)
        PROVE  OneCreator' /\ BuidAgreed'
    BY <1>8 DEF Connect, Answer, Goto
  <1>9. ASSUME NEW s \in Sessions, CheckBuid(s)
        PROVE  OneCreator' /\ BuidAgreed'
    BY <1>9 DEF CheckBuid, Goto
  <1>10. ASSUME NEW s \in Sessions, BuidOpen(s)
        PROVE  OneCreator' /\ BuidAgreed'
    <2>1. /\ pc[s] = "buidopen" /\ UNCHANGED <<told, raced>>
          /\ \A t \in Sessions \ {s} : pc'[t] = pc[t]
          /\ pc'[s] \in {"buidwrite", "buidfails"}
          /\ pc'[s] = "buidwrite" => config' = "empty"
          /\ pc'[s] = "buidfails" => config' = config
      BY <1>10 DEF BuidOpen, Goto
    <2>2. ~raced => config = None /\ told = {}
      BY <2>1
    <2> QED
      BY <2>1, <2>2
  <1>11. ASSUME NEW s \in Sessions, BuidWrite(s)
        PROVE  OneCreator' /\ BuidAgreed'
    <2>1. /\ pc[s] = "buidwrite" /\ UNCHANGED <<told, raced>>
          /\ \A t \in Sessions \ {s} : pc'[t] = pc[t]
          /\ pc'[s] \in {"readbuid", "buidfails"}
          /\ config' = config \/ config' = s
      BY <1>11 DEF BuidWrite, Goto
    <2>2. ~raced => told = {} /\ \A t \in Sessions : pc'[t] \notin {"buidopen", "buidwrite"}
      BY <2>1
    <2> QED
      BY <2>1, <2>2
  <1>12. ASSUME NEW s \in Sessions, BuidFails(s)
        PROVE  OneCreator' /\ BuidAgreed'
    BY <1>12 DEF BuidFails, Goto
  <1>13. ASSUME NEW s \in Sessions, ReadBuid(s)
        PROVE  OneCreator' /\ BuidAgreed'
    BY <1>13 DEF ReadBuid, Answer, Fail, Goto
  <1>14. ASSUME NEW s \in Sessions, SaveOpen(s)
        PROVE  OneCreator' /\ BuidAgreed'
    BY <1>14 DEF SaveOpen, Fail, Goto
  <1>15. ASSUME NEW s \in Sessions, SaveWrite(s)
        PROVE  OneCreator' /\ BuidAgreed'
    <2>1. /\ pc'[s] \in {"paired", "ok", "read"} /\ UNCHANGED buidVars
          /\ \A t \in Sessions \ {s} : pc'[t] = pc[t]
      BY <1>15 DEF SaveWrite, Fail, Goto
    <2> QED
      BY <2>1
  <1>16. ASSUME NEW s \in Sessions, SendPaired(s)
        PROVE  OneCreator' /\ BuidAgreed'
    BY <1>16 DEF SendPaired, Goto
  <1>17. ASSUME NEW s \in Sessions, SendOk(s)
        PROVE  OneCreator' /\ BuidAgreed'
    BY <1>17 DEF SendOk, Answer, Goto
  <1>18. ASSUME NEW s \in Sessions, ReadPairRecord(s)
        PROVE  OneCreator' /\ BuidAgreed'
    BY <1>18 DEF ReadPairRecord, Answer, Fail, Goto
  <1>19. ASSUME NEW s \in Sessions, DeletePairRecord(s)
        PROVE  OneCreator' /\ BuidAgreed'
    BY <1>19 DEF DeletePairRecord, Fail, Goto
  <1>20. ASSUME NEW s \in Sessions, ParseFails(s)
        PROVE  OneCreator' /\ BuidAgreed'
    <2>1. /\ pc'[s] \in {"read", "garbled"} /\ UNCHANGED buidVars
          /\ \A t \in Sessions \ {s} : pc'[t] = pc[t]
      BY <1>20 DEF ParseFails, Goto
    <2> QED
      BY <2>1
  <1>21. ASSUME NEW s \in Sessions, HandedOffEnds(s)
        PROVE  OneCreator' /\ BuidAgreed'
    BY <1>21 DEF HandedOffEnds, Goto
  <1>22. ASSUME NEW s \in Sessions, ClientCloses(s)
        PROVE  OneCreator' /\ BuidAgreed'
    BY <1>22 DEF ClientCloses
  <1>23. CASE UNCHANGED vars
    BY <1>23 DEF vars
  <1>24. ASSUME NEW s \in Sessions, Opened(s)
        PROVE  OneCreator' /\ BuidAgreed'
    BY <1>24 DEF Opened, Answer, Goto
  <1> QED
    BY <1>1, <1>2, <1>3, <1>4, <1>5, <1>6, <1>7, <1>8, <1>9, <1>10, <1>11, <1>12, <1>13, <1>14,
       <1>15, <1>16, <1>17, <1>18, <1>19, <1>20, <1>21, <1>22, <1>23, <1>24
       DEF Next, Handling

--------------------------------------------------------------------------------
(* The invariants the run checks *)

\* The per-session form of OneAnswerEach says the same.
LEMMA AnsweredIsOneAnswer == (\A s \in Sessions : Answered(s)) => OneAnswerEach
  BY DEF Answered, OneAnswerEach, Idle

\* The invariant holds before the first request.
LEMMA InitIInv == Init => IInv
  <1> SUFFICES ASSUME Init PROVE IInv
    OBVIOUS
  <1> USE ConstantsAssumption DEF Init
  <1>1. hotplug \in BOOLEAN /\ raced \in BOOLEAN
    BY Zenon
  <1>2. TypeOK
    BY <1>1 DEF TypeOK
  <1>3. SaverHasRecord /\ OpenedIsEmpty /\ OkMeansStored /\ OneCreator /\ BuidAgreed
    BY DEF SaverHasRecord, OpenedIsEmpty, OkMeansStored, OneCreator, BuidAgreed
  <1>4. \A s \in Sessions : BusyUnanswered(s) /\ Answered(s)
    BY DEF BusyUnanswered, Answered, Idle
  <1> QED
    BY <1>2, <1>3, <1>4 DEF IInv

\* The inductive invariant holds of every behaviour of the sessions.
THEOREM Inductive == Spec => []IInv
  <1>1. ASSUME IInv, [Next]_vars PROVE IInv'
    <2>1. TypeOK /\ SaverHasRecord /\ OpenedIsEmpty /\ OkMeansStored /\ OneCreator /\ BuidAgreed
      BY <1>1 DEF IInv
    <2>2. \A s \in Sessions : BusyUnanswered(s) /\ Answered(s)
      BY <1>1 DEF IInv
    <2>3. TypeOK' /\ SaverHasRecord'
      BY <1>1, <2>1, TypeStep
    <2>4. \A s \in Sessions : BusyUnanswered(s)' /\ Answered(s)'
      BY <1>1, <2>1, <2>2, AnswerStep
    <2>5. OpenedIsEmpty' /\ OkMeansStored'
      BY <1>1, <2>1, StoreStep
    <2>6. OneCreator' /\ BuidAgreed'
      BY <1>1, <2>1, BuidStep
    <2> QED
      BY <2>3, <2>4, <2>5, <2>6 DEF IInv
  <1> QED
    BY InitIInv, <1>1, PTL DEF Spec

\* The sessions and the two files stay in their types: a pair record's file is never longer
\* than some record that was saved.
THEOREM TypeCorrect == Spec => []TypeOK
  <1>1. IInv => TypeOK
    BY DEF IInv
  <1> QED
    BY Inductive, <1>1, PTL

\* handle_client gives every request one answer, or none where a handler fails without one.
THEOREM AnswersTheorem == Spec => []OneAnswerEach
  <1>1. IInv => OneAnswerEach
    BY AnsweredIsOneAnswer DEF IInv
  <1> QED
    BY Inductive, <1>1, PTL

\* The OK of save_pair_record stands for the record that was sent, whatever the file held
\* before and whatever other sessions do, as long as they leave this file alone.
THEOREM StoredTheorem == Spec => []OkMeansStored
  <1>1. IInv => OkMeansStored
    BY DEF IInv
  <1> QED
    BY Inductive, <1>1, PTL

\* Any number of sessions that ask for the BUID are told the same, unless two of them found
\* SystemConfiguration.plist missing before either had created it.
THEOREM BuidTheorem == Spec => []BuidAgreed
  <1>1. IInv => BuidAgreed
    BY DEF IInv
  <1> QED
    BY Inductive, <1>1, PTL
================================================================================
