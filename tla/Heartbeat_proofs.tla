---------------------------- MODULE Heartbeat_proofs ----------------------------
(***************************************************************************)
(* Proofs about Heartbeat for every renewal interval, every longer timeout *)
(* of the assertions and every bound on the waiting: its invariants, and   *)
(* that it does what Hotplug lets a network device do.                     *)
(***************************************************************************)
EXTENDS Heartbeat, TLAPS

(* The inductive invariant *)

\* Before NetworkDevice::new is through there is no device, no heartbeat and no renewal;
\* afterwards the task owns the device until it has inserted it.
AdderOwns ==
    /\ pc \in {"off", "check"} => id = 0
    /\ pc \in {"connect", "second", "assert", "asserted", "insert", "usb", "send"} => id = 1
    /\ pc \in {"off", "check", "connect", "second", "assert", "asserted"} => owner = "none"
    /\ pc \in {"usb", "send"} => owner \notin {"none", "adder"}
    /\ pc = "insert" <=> owner = "adder"
    /\ owner # "none" => id = 1
    /\ hb = "none" <=> owner = "none"
    /\ renewal = "none" <=> owner = "none"

\* Who took the device out of the registry is about to announce it; the device the mDNS
\* watcher is busy with is this one.
RemoverOwns ==
    /\ netw.pc = "send" <=> owner = "watcher"
    /\ hb = "removed" <=> owner = "heartbeat"
    /\ netw.pc # "idle" => netw.id = 1 /\ owner \notin {"none", "adder"}

\* The flag of the heartbeat stands for a failure since the last marco.
FlagCountsMisses ==
    /\ failed => misses >= 1
    /\ hb \in {"close", "removed"} => misses = 2

\* While the device is owned by its task or the registry nothing was aborted, and the
\* token is cancelled only by a heartbeat that closes the device or ended too early.
KeptIsAlive ==
    /\ owner = "none" => ~token
    /\ owner \in {"none", "adder", "registry"} => ~hbAborted /\ ~aborted
    /\ Kept /\ hb \in {"marco", "polo"} => ~token
    /\ Kept /\ hb = "gone" => missed /\ token
    /\ hb = "close" => token
    /\ renewal = "gone" => aborted

\* The assertion lasts for the rest of the sleep and the time that the timeout has on the
\* interval, less what the answers to the last two requests took.
HeldLongEnough ==
    /\ renewal = "sleep" => held + lag + RENEWAL_INTERVAL >= ASSERTION_TIMEOUT + timer
    /\ renewal = "create" => held + lag + waited + RENEWAL_INTERVAL >= ASSERTION_TIMEOUT
    /\ renewal = "reply" => fresh + waited >= ASSERTION_TIMEOUT

\* The inductive invariant.
IInv ==
    TypeOK /\ AdderOwns /\ RemoverOwns /\ FlagCountsMisses /\ KeptIsAlive /\ HeldLongEnough

\* It holds before the device is announced.
LEMMA InitIInv == Init => IInv
  <1> SUFFICES ASSUME Init PROVE IInv
    OBVIOUS
  <1>1. /\ token \in BOOLEAN /\ failed \in BOOLEAN /\ hbAborted \in BOOLEAN
        /\ aborted \in BOOLEAN /\ up \in BOOLEAN /\ missed \in BOOLEAN
    BY Zenon DEF Init
  <1>2. TypeOK
    BY <1>1, ConstantsAssumption DEF Init, TypeOK
  <1> QED
    BY <1>2 DEF Init, IInv, AdderOwns, RemoverOwns, FlagCountsMisses, KeptIsAlive, Kept,
                HeldLongEnough

\* Every step keeps the types: a sleep, an assertion and a wait stay within their bounds.
LEMMA TypeStep ==
    ASSUME TypeOK, [Next]_vars
    PROVE  TypeOK'
  <1> USE ConstantsAssumption DEF TypeOK, addVars, hbVars, paVars, endVars
  <1>1. CASE Resolved
    BY <1>1 DEF Resolved
  <1>2. CASE AddCheck
    BY <1>2 DEF AddCheck
  <1>3. CASE ConnectFirst
    BY <1>3 DEF ConnectFirst
  <1>4. CASE ConnectSecond
    BY <1>4 DEF ConnectSecond
  <1>5. CASE Created
    BY <1>5 DEF Created, Hold
  <1>6. CASE CreateFails
    BY <1>6 DEF CreateFails
  <1>7. CASE AddInsert
    BY <1>7 DEF AddInsert
  <1>8. CASE AddAttached
    BY <1>8 DEF AddAttached
  <1>9. CASE Marco
    <2>1. token' \in BOOLEAN /\ failed' \in BOOLEAN
      BY <1>9, Zenon DEF Marco, Miss
    <2>2. misses' \in 0 .. 2 /\ hb' \in {"polo", "marco", "close"}
      BY <1>9 DEF Marco, Miss
    <2> QED
      BY <1>9, <2>1, <2>2 DEF Marco
  <1>10. CASE Polo
    <2>1. token' \in BOOLEAN /\ failed' \in BOOLEAN
      BY <1>10, Zenon DEF Polo, Miss
    <2>2. misses' \in 0 .. 2 /\ hb' \in {"polo", "marco", "close"}
      BY <1>10 DEF Polo, Miss
    <2> QED
      BY <1>10, <2>1, <2>2 DEF Polo
  <1>11. CASE HeartbeatRemove
    BY <1>11 DEF HeartbeatRemove
  <1>12. CASE HeartbeatDetached
    BY <1>12 DEF HeartbeatDetached, Drop
  <1>13. CASE HeartbeatAborted
    BY <1>13 DEF HeartbeatAborted
  <1>14. CASE Wake
    BY <1>14 DEF Wake
  <1>15. CASE Renewed
    BY <1>15 DEF Renewed, Hold
  <1>16. CASE RenewalFails
    BY <1>16 DEF RenewalFails
  <1>17. CASE RenewalAborted
    BY <1>17 DEF RenewalAborted
  <1>18. CASE ClientConnect
    BY <1>18 DEF ClientConnect
  <1>19. CASE ClientConnected
    BY <1>19 DEF ClientConnected
  <1>20. CASE BridgeEnds
    BY <1>20 DEF BridgeEnds
  <1>21. CASE ServiceRemoved
    BY <1>21 DEF ServiceRemoved
  <1>22. CASE NetRemove
    <2>1. token' \in BOOLEAN
      BY <1>22, Zenon DEF NetRemove
    <2> QED
      BY <1>22, <2>1 DEF NetRemove
  <1>23. CASE NetDetached
    BY <1>23 DEF NetDetached, Drop
  <1>24. CASE DeviceAsserts
    BY <1>24 DEF DeviceAsserts
  <1>25. CASE DeviceGone
    <2>1. up' \in BOOLEAN
      BY <1>25, Zenon DEF DeviceGone
    <2> QED
      BY <1>25, <2>1 DEF DeviceGone
  <1>26. CASE Tick
    BY <1>26 DEF Tick
  <1>27. CASE UNCHANGED vars
    BY <1>27 DEF vars
  <1> QED
    BY <1>1, <1>2, <1>3, <1>4, <1>5, <1>6, <1>7, <1>8, <1>9, <1>10, <1>11, <1>12, <1>13,
       <1>14, <1>15, <1>16, <1>17, <1>18, <1>19, <1>20, <1>21, <1>22, <1>23, <1>24, <1>25,
       <1>26, <1>27
       DEF Next, Adding, HeartbeatTask, RenewalTask, NetWatcher

\* The device passes from the adding task to the registry, and from there to who removes it.
LEMMA OwnsStep ==
    ASSUME TypeOK, AdderOwns, RemoverOwns, [Next]_vars
    PROVE  AdderOwns' /\ RemoverOwns'
  <1> USE DEF TypeOK, AdderOwns, RemoverOwns, addVars, hbVars, paVars, endVars
  <1>1. CASE Resolved
    BY <1>1 DEF Resolved
  <1>2. CASE AddCheck
    BY <1>2 DEF AddCheck
  <1>3. CASE ConnectFirst
    BY <1>3 DEF ConnectFirst
  <1>4. CASE ConnectSecond
    BY <1>4 DEF ConnectSecond
  <1>5. CASE Created
    BY <1>5 DEF Created, Hold
  <1>6. CASE CreateFails
    BY <1>6 DEF CreateFails
  <1>7. CASE AddInsert
    BY <1>7 DEF AddInsert
  <1>8. CASE AddAttached
    BY <1>8 DEF AddAttached
  <1>9. CASE Marco
    BY <1>9 DEF Marco, Miss
  <1>10. CASE Polo
    BY <1>10 DEF Polo, Miss
  <1>11. CASE HeartbeatRemove
    BY <1>11 DEF HeartbeatRemove
  <1>12. CASE HeartbeatDetached
    BY <1>12 DEF HeartbeatDetached, Drop
  <1>13. CASE HeartbeatAborted
    BY <1>13 DEF HeartbeatAborted
  <1>14. CASE Wake
    BY <1>14 DEF Wake
  <1>15. CASE Renewed
    BY <1>15 DEF Renewed, Hold
  <1>16. CASE RenewalFails
    BY <1>16 DEF RenewalFails
  <1>17. CASE RenewalAborted
    BY <1>17 DEF RenewalAborted
  <1>18. CASE ClientConnect
    BY <1>18 DEF ClientConnect
  <1>19. CASE ClientConnected
    BY <1>19 DEF ClientConnected
  <1>20. CASE BridgeEnds
    BY <1>20 DEF BridgeEnds
  <1>21. CASE ServiceRemoved
    BY <1>21 DEF ServiceRemoved
  <1>22. CASE NetRemove
    BY <1>22 DEF NetRemove
  <1>23. CASE NetDetached
    BY <1>23 DEF NetDetached, Drop
  <1>24. CASE DeviceAsserts
    BY <1>24 DEF DeviceAsserts
  <1>25. CASE DeviceGone
    BY <1>25 DEF DeviceGone
  <1>26. CASE Tick
    BY <1>26 DEF Tick
  <1>27. CASE UNCHANGED vars
    BY <1>27 DEF vars
  <1> QED
    BY <1>1, <1>2, <1>3, <1>4, <1>5, <1>6, <1>7, <1>8, <1>9, <1>10, <1>11, <1>12, <1>13,
       <1>14, <1>15, <1>16, <1>17, <1>18, <1>19, <1>20, <1>21, <1>22, <1>23, <1>24, <1>25,
       <1>26, <1>27
       DEF Next, Adding, HeartbeatTask, RenewalTask, NetWatcher

\* Only a marco clears the flag and the count of failures, and only together.
LEMMA MissStep ==
    ASSUME TypeOK, FlagCountsMisses, [Next]_vars
    PROVE  FlagCountsMisses'
  <1> USE DEF TypeOK, FlagCountsMisses, addVars, hbVars, paVars, endVars
  <1>1. CASE Created
    BY <1>1 DEF Created, Hold
  <1>2. CASE Marco
    BY <1>2 DEF Marco, Miss
  <1>3. CASE Polo
    BY <1>3 DEF Polo, Miss
  <1>4. CASE HeartbeatRemove
    BY <1>4 DEF HeartbeatRemove
  <1>5. CASE HeartbeatDetached
    BY <1>5 DEF HeartbeatDetached, Drop
  <1>6. CASE HeartbeatAborted
    BY <1>6 DEF HeartbeatAborted
  <1>7. CASE Resolved \/ AddCheck \/ ConnectFirst \/ ConnectSecond \/ CreateFails \/
            AddInsert \/ AddAttached \/ Wake \/ Renewed \/ RenewalFails \/ RenewalAborted \/
            ClientConnect \/ ClientConnected \/ BridgeEnds \/ ServiceRemoved \/ NetRemove \/
            NetDetached \/ DeviceAsserts \/ DeviceGone \/ Tick
    BY <1>7 DEF Resolved, AddCheck, ConnectFirst, ConnectSecond, CreateFails, AddInsert,
                AddAttached, Wake, Renewed, RenewalFails, RenewalAborted, ClientConnect,
                ClientConnected, BridgeEnds, ServiceRemoved, NetRemove, NetDetached,
                DeviceAsserts, DeviceGone, Tick, Drop, Hold
  <1>8. CASE UNCHANGED vars
    BY <1>8 DEF vars
  <1> QED
    BY <1>1, <1>2, <1>3, <1>4, <1>5, <1>6, <1>7, <1>8
       DEF Next, Adding, HeartbeatTask, RenewalTask, NetWatcher

\* Nothing cancels the token or aborts a task of a device that is kept but its own heartbeat.
LEMMA AliveStep ==
    ASSUME TypeOK, AdderOwns, RemoverOwns, KeptIsAlive, [Next]_vars
    PROVE  KeptIsAlive'
  <1> USE DEF TypeOK, AdderOwns, RemoverOwns, KeptIsAlive, Kept, addVars, hbVars, paVars, endVars
  <1>1. CASE Resolved
    BY <1>1 DEF Resolved
  <1>2. CASE AddCheck
    BY <1>2 DEF AddCheck
  <1>3. CASE ConnectFirst
    BY <1>3 DEF ConnectFirst
  <1>4. CASE ConnectSecond
    BY <1>4 DEF ConnectSecond
  <1>5. CASE Created
    BY <1>5 DEF Created, Hold
  <1>6. CASE CreateFails
    BY <1>6 DEF CreateFails
  <1>7. CASE AddInsert
    BY <1>7 DEF AddInsert
  <1>8. CASE AddAttached
    BY <1>8 DEF AddAttached
  <1>9. CASE Marco
    BY <1>9 DEF Marco, Miss
  <1>10. CASE Polo
    BY <1>10 DEF Polo, Miss
  <1>11. CASE HeartbeatRemove
    BY <1>11 DEF HeartbeatRemove
  <1>12. CASE HeartbeatDetached
    BY <1>12 DEF HeartbeatDetached, Drop
  <1>13. CASE HeartbeatAborted
    BY <1>13 DEF HeartbeatAborted
  <1>14. CASE Wake
    BY <1>14 DEF Wake
  <1>15. CASE Renewed
    BY <1>15 DEF Renewed, Hold
  <1>16. CASE RenewalFails
    BY <1>16 DEF RenewalFails
  <1>17. CASE RenewalAborted
    BY <1>17 DEF RenewalAborted
  <1>18. CASE ClientConnect
    BY <1>18 DEF ClientConnect
  <1>19. CASE ClientConnected
    BY <1>19 DEF ClientConnected
  <1>20. CASE BridgeEnds
    BY <1>20 DEF BridgeEnds
  <1>21. CASE ServiceRemoved
    BY <1>21 DEF ServiceRemoved
  <1>22. CASE NetRemove
    BY <1>22 DEF NetRemove
  <1>23. CASE NetDetached
    BY <1>23 DEF NetDetached, Drop
  <1>24. CASE DeviceAsserts
    BY <1>24 DEF DeviceAsserts
  <1>25. CASE DeviceGone
    BY <1>25 DEF DeviceGone
  <1>26. CASE Tick
    BY <1>26 DEF Tick
  <1>27. CASE UNCHANGED vars
    BY <1>27 DEF vars
  <1> QED
    BY <1>1, <1>2, <1>3, <1>4, <1>5, <1>6, <1>7, <1>8, <1>9, <1>10, <1>11, <1>12, <1>13,
       <1>14, <1>15, <1>16, <1>17, <1>18, <1>19, <1>20, <1>21, <1>22, <1>23, <1>24, <1>25,
       <1>26, <1>27
       DEF Next, Adding, HeartbeatTask, RenewalTask, NetWatcher

\* Time takes from the assertion what it takes from the sleep, or adds to the wait.
LEMMA HeldStep ==
    ASSUME TypeOK, AdderOwns, HeldLongEnough, [Next]_vars
    PROVE  HeldLongEnough'
  <1> USE ConstantsAssumption
      DEF TypeOK, AdderOwns, HeldLongEnough, addVars, hbVars, paVars, endVars
  <1>1. CASE Created
    BY <1>1 DEF Created, Hold
  <1>2. CASE CreateFails
    BY <1>2 DEF CreateFails
  <1>3. CASE Wake
    BY <1>3 DEF Wake
  <1>4. CASE Renewed
    BY <1>4 DEF Renewed, Hold
  <1>5. CASE RenewalFails
    BY <1>5 DEF RenewalFails
  <1>6. CASE RenewalAborted
    BY <1>6 DEF RenewalAborted
  <1>7. CASE DeviceAsserts
    BY <1>7 DEF DeviceAsserts
  <1>8. CASE Tick
    BY <1>8 DEF Tick
  <1>9. CASE Resolved \/ AddCheck \/ ConnectFirst \/ ConnectSecond \/ AddInsert \/
            AddAttached \/ Marco \/ Polo \/ HeartbeatRemove \/ HeartbeatDetached \/
            HeartbeatAborted \/ ClientConnect \/ ClientConnected \/ BridgeEnds \/
            ServiceRemoved \/ NetRemove \/ NetDetached \/ DeviceGone
    BY <1>9 DEF Resolved, AddCheck, ConnectFirst, ConnectSecond, AddInsert, AddAttached,
                Marco, Polo, HeartbeatRemove, HeartbeatDetached, HeartbeatAborted,
                ClientConnect, ClientConnected, BridgeEnds, ServiceRemoved, NetRemove,
                NetDetached, DeviceGone, Drop, Miss
  <1>10. CASE UNCHANGED vars
    BY <1>10 DEF vars
  <1> QED
    BY <1>1, <1>2, <1>3, <1>4, <1>5, <1>6, <1>7, <1>8, <1>9, <1>10
       DEF Next, Adding, HeartbeatTask, RenewalTask, NetWatcher

--------------------------------------------------------------------------------
(* The invariants the runs check *)

\* The inductive invariant holds of every behaviour of the device's tasks.
THEOREM Inductive == Spec => []IInv
  <1>1. IInv /\ [Next]_vars => IInv'
    BY TypeStep, OwnsStep, MissStep, AliveStep, HeldStep DEF IInv
  <1> QED
    BY InitIInv, <1>1, PTL DEF Spec

\* The states of the tasks stay in their types, no sleep is longer than RENEWAL_INTERVAL and
\* no assertion lasts longer than ASSERTION_TIMEOUT.
THEOREM TypeCorrect == Spec => []TypeOK
  <1>1. IInv => TypeOK
    BY DEF IInv
  <1> QED
    BY Inductive, <1>1, PTL

\* The heartbeat (device/network.rs, start_heartbeat) closes a device only after two failures
\* without a marco in between.
THEOREM TwoMisses == Spec => []ClosedMeansTwoMisses
  <1>1. IInv => ClosedMeansTwoMisses
    BY DEF IInv, FlagCountsMisses, ClosedMeansTwoMisses
  <1> QED
    BY Inductive, <1>1, PTL

\* A registered network device has a running heartbeat and an uncancelled token, unless it is
\* being closed or its heartbeat ended before AddInsert.
THEOREM Watched == Spec => []RegisteredIsWatched
  <1>1. IInv => RegisteredIsWatched
    BY DEF IInv, TypeOK, AdderOwns, RemoverOwns, KeptIsAlive, Kept, RegisteredIsWatched
  <1> QED
    BY Inductive, <1>1, PTL

\* For every interval and every longer timeout, the renewal (device/power_assertion.rs) leaves
\* no gap that the answers of the device did not cause.
THEOREM Covered == Spec => []AssertionCovers
  <1>1. IInv => AssertionCovers
    BY ConstantsAssumption
       DEF IInv, TypeOK, AdderOwns, KeptIsAlive, HeldLongEnough, AssertionCovers
  <1> QED
    BY Inductive, <1>1, PTL

--------------------------------------------------------------------------------
(* Refinement: one network device in Hotplug *)

\* Both specifications start with nothing announced and nothing registered.
LEMMA RefineInit == Init => H!Init
  BY DEF Init, Kept, H!Init, H!Ids, H!Opaques, H!Unknown, H!Select, H!Off

\* What Hotplug sees of the device's tasks is one of its own steps, or none.
LEMMA RefineStep ==
    ASSUME IInv, [Next]_vars
    PROVE  [H!Next]_(H!vars)
  <1> USE DEF IInv, TypeOK, AdderOwns, RemoverOwns, KeptIsAlive, Kept,
              addVars, hbVars, paVars, endVars, H!Ids, H!AdderGoto,
              H!vars, H!regVars, H!usbVars, H!netVars, H!sysVars
  <1>u. H!Find("usb", "s") = {}
    BY DEF H!Find
  <1>1. CASE Resolved
    <2>1. H!Resolved("a", "s")
      BY <1>1 DEF Resolved, H!Resolved
    <2> QED
      BY <2>1 DEF H!Next, H!System
  <1>2. CASE AddCheck
    <2>1. H!AddCheck("a")
      <3>1. pc = "check" /\ id = 0 /\ owner = "none"
        BY <1>2 DEF AddCheck
      <3>2. CASE pc' = "done" /\ id' = id
        BY <1>2, <3>1, <3>2 DEF AddCheck, H!AddCheck
      <3>3. CASE pc' = "connect" /\ id' = 1
        <4>1. H!Find("net", "s") = {}
          BY <3>1 DEF H!Find
        <4>2. H!TakeNewId("s", 0)
          BY <3>1, <3>3 DEF H!TakeNewId
        <4>3. [a \in {"a"} |-> [pc |-> "connect", id |-> 1, serial |-> "s"]]
              = [[a \in {"a"} |-> [pc |-> "check", id |-> 0, serial |-> "s"]]
                   EXCEPT !["a"].pc = "connect", !["a"].id = 1]
          OBVIOUS
        <4> QED
          BY <1>2, <3>1, <3>3, <4>1, <4>2, <4>3 DEF AddCheck, H!AddCheck
      <3> QED
        BY <1>2, <3>2, <3>3 DEF AddCheck
    <2> QED
      BY <2>1 DEF H!Next, H!Adding
  <1>3. CASE ConnectFirst
    <2>1. H!AddConnect("a") \/ UNCHANGED H!vars
      BY <1>3 DEF ConnectFirst, H!AddConnect
    <2> QED
      BY <2>1 DEF H!Next, H!Adding
  <1>4. CASE ConnectSecond
    <2>1. H!AddConnect("a") \/ UNCHANGED H!vars
      BY <1>4 DEF ConnectSecond, H!AddConnect
    <2> QED
      BY <2>1 DEF H!Next, H!Adding
  <1>5. CASE Created
    <2>1. H!AddConnect("a")
      BY <1>5 DEF Created, Hold, H!AddConnect
    <2> QED
      BY <2>1 DEF H!Next, H!Adding
  <1>6. CASE CreateFails
    <2>1. H!AddConnect("a")
      BY <1>6 DEF CreateFails, H!AddConnect
    <2> QED
      BY <2>1 DEF H!Next, H!Adding
  <1>7. CASE AddInsert
    <2>1. H!AddInsert("a")
      BY <1>7 DEF AddInsert, H!AddInsert
    <2> QED
      BY <2>1 DEF H!Next, H!Adding
  <1>8. CASE AddAttached
    <2>1. H!AddCheckUsb("a") \/ H!AddSend("a")
      <3>1. CASE pc = "usb" /\ pc' = "send"
        BY <1>8, <1>u, <3>1 DEF AddAttached, H!AddCheckUsb
      <3>2. CASE pc = "send" /\ pc' = "done"
        BY <1>8, <3>2 DEF AddAttached, H!AddSend, H!Broadcast
      <3> QED
        BY <1>8, <3>1, <3>2 DEF AddAttached
    <2> QED
      BY <2>1 DEF H!Next, H!Adding
  <1>9. CASE Marco
    <2>1. H!HeartbeatFails(1) \/ UNCHANGED H!vars
      BY <1>9 DEF Marco, Miss, H!HeartbeatFails
    <2> QED
      BY <2>1 DEF H!Next
  <1>10. CASE Polo
    <2>1. H!HeartbeatFails(1) \/ UNCHANGED H!vars
      BY <1>10 DEF Polo, Miss, H!HeartbeatFails
    <2> QED
      BY <2>1 DEF H!Next
  <1>11. CASE HeartbeatRemove
    <2>1. H!HeartbeatRemove(1) \/ UNCHANGED H!vars
      BY <1>11 DEF HeartbeatRemove, H!HeartbeatRemove
    <2> QED
      BY <2>1 DEF H!Next, H!HeartbeatEnd
  <1>12. CASE HeartbeatDetached
    <2>1. H!HeartbeatDetached(1)
      BY <1>12 DEF HeartbeatDetached, Drop, H!HeartbeatDetached, H!Find, H!Broadcast
    <2> QED
      BY <2>1 DEF H!Next, H!HeartbeatEnd
  <1>13. CASE HeartbeatAborted
    BY <1>13 DEF HeartbeatAborted
  <1>14. CASE Wake
    BY <1>14 DEF Wake
  <1>15. CASE Renewed
    BY <1>15 DEF Renewed, Hold
  <1>16. CASE RenewalFails
    BY <1>16 DEF RenewalFails
  <1>17. CASE RenewalAborted
    BY <1>17 DEF RenewalAborted
  <1>18. CASE ClientConnect
    BY <1>18 DEF ClientConnect
  <1>19. CASE ClientConnected
    BY <1>19 DEF ClientConnected
  <1>20. CASE BridgeEnds
    BY <1>20 DEF BridgeEnds
  <1>21. CASE ServiceRemoved
    <2>1. H!ServiceRemoved("s")
      BY <1>21 DEF ServiceRemoved, H!ServiceRemoved, H!Find
    <2> QED
      BY <2>1 DEF H!Next, H!System
  <1>22. CASE NetRemove
    <2>1. H!NetRemove
      BY <1>22 DEF NetRemove, H!NetRemove, H!Remove
    <2> QED
      BY <2>1 DEF H!Next, H!NetWatcher
  <1>23. CASE NetDetached
    <2>1. H!NetDetached
      BY <1>23 DEF NetDetached, Drop, H!NetDetached, H!Find, H!Broadcast
    <2> QED
      BY <2>1 DEF H!Next, H!NetWatcher
  <1>24. CASE DeviceAsserts
    BY <1>24 DEF DeviceAsserts
  <1>25. CASE DeviceGone
    BY <1>25 DEF DeviceGone
  <1>26. CASE Tick
    BY <1>26 DEF Tick
  <1>27. CASE UNCHANGED vars
    BY <1>27 DEF vars
  <1> QED
    BY <1>1, <1>2, <1>3, <1>4, <1>5, <1>6, <1>7, <1>8, <1>9, <1>10, <1>11, <1>12, <1>13,
       <1>14, <1>15, <1>16, <1>17, <1>18, <1>19, <1>20, <1>21, <1>22, <1>23, <1>24, <1>25,
       <1>26, <1>27
       DEF Next, Adding, HeartbeatTask, RenewalTask, NetWatcher

\* The tasks of a network device do to the registry only what Hotplug lets them do.
THEOREM ImplementsHotplug == Spec => HotplugSpec
  <1>1. IInv /\ [Next]_vars => [H!Next]_(H!vars)
    BY RefineStep
  <1> QED
    BY RefineInit, Inductive, <1>1, PTL DEF Spec, HotplugSpec
================================================================================
