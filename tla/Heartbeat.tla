------------------------------- MODULE Heartbeat -------------------------------
(***************************************************************************)
(* The life of one network device: the task of network_device_add that     *)
(* creates and inserts it (src/src/watcher/network.rs), the heartbeat task *)
(* and the device's end (src/src/device/network.rs), the task that renews  *)
(* the assertion which keeps the device awake                              *)
(* (src/src/device/power_assertion.rs), and a client that is connected to  *)
(* it (src/src/handler/connect.rs, src/src/conn/network.rs).               *)
(*                                                                         *)
(* This details what Hotplug says of a network device in HeartbeatFails    *)
(* and AddConnect; HotplugSpec relates the two.  A USB device that takes   *)
(* its place drops the device as the removal by mDNS does, and is left to  *)
(* Hotplug.                                                                *)
(***************************************************************************)
EXTENDS Naturals

CONSTANTS
    RENEWAL_INTERVAL,   \* 10 minutes, in ticks
    ASSERTION_TIMEOUT,  \* 20 minutes, in ticks
    MaxWait             \* bound: ticks an assertion's creation is waited for

ASSUME ConstantsAssumption ==
    /\ RENEWAL_INTERVAL \in Nat \ {0}
    /\ ASSERTION_TIMEOUT \in Nat /\ ASSERTION_TIMEOUT > RENEWAL_INTERVAL
    /\ MaxWait \in Nat \ {0}

VARIABLES
    pc, id,     \* network_device_add: where it is, and the id it took, 0 for none
    owner,      \* who has the NetworkDevice: the task, the registry, who removed it; "dropped"
    token,      \* core.canceler is cancelled
    netw,       \* the task of watch_network_daemon: where it is, and the device it removes
    hb, failed, \* the heartbeat task: where it is, and its flag
    hbAborted,  \* hb_handler.abort() was called
    renewal,    \* the renewal task: "sleep", "create", "reply", "ended" by an error, "gone"
    timer,      \* ticks its sleep still takes
    aborted,    \* renewal_handler.abort() was called
    held,       \* external: ticks the assertion it holds still lasts, 0 when it expired
    fresh,      \* external: ticks the assertion being created still lasts
    client,     \* the task of a client that connects to the device: "none", "connecting" with
                \* its Ref into the registry, "bridged", or "gone"
    up,         \* external: the device can be reached
    misses,     \* history: failures of the heartbeat since the last marco
    waited,     \* history: ticks the renewal waits for the new assertion
    lag,        \* history: age of the held assertion when its creation was answered
    missed      \* history: the heartbeat ended before the device was inserted

addVars == <<pc, id>>
hbVars == <<hb, failed, misses, missed>>
paVars == <<renewal, timer, held, fresh, waited, lag>>
endVars == <<owner, token, hbAborted, aborted>>
vars == <<addVars, netw, hbVars, paVars, endVars, client, up>>

Init ==
    /\ pc = "off" /\ id = 0 /\ owner = "none" /\ token = FALSE
    /\ netw = [pc |-> "idle", id |-> 0]
    /\ hb = "none" /\ failed = FALSE /\ hbAborted = FALSE
    /\ renewal = "none" /\ timer = 0 /\ aborted = FALSE /\ held = 0 /\ fresh = 0
    /\ client = "none" /\ up = TRUE /\ misses = 0 /\ waited = 0 /\ lag = 0 /\ missed = FALSE

\* Faulty: PowerAssertion has no Drop of its own, and its task is detached.
Drop_LeavesRenewal ==
    /\ owner' = "dropped" /\ token' = TRUE
    /\ hbAborted' = TRUE /\ UNCHANGED aborted

\* impl Drop for NetworkDevice, then for its PowerAssertion.
Drop ==
    /\ owner' = "dropped" /\ token' = TRUE
    /\ hbAborted' = TRUE /\ aborted' = TRUE

--------------------------------------------------------------------------------
(* network_device_add and NetworkDevice::new.                              *)

Resolved ==
    /\ pc = "off" /\ pc' = "check"
    /\ UNCHANGED <<id, netw, hbVars, paVars, endVars, client, up>>

\* No pairing file for the announcement, or a new id.
AddCheck ==
    /\ pc = "check"
    /\ \/ pc' = "done" /\ UNCHANGED id
       \/ pc' = "connect" /\ id' = 1
    /\ UNCHANGED <<netw, hbVars, paVars, endVars, client, up>>

\* connect_heartbeat_client: the first address, and if that fails the second, if there is one.
ConnectFirst ==
    /\ pc = "connect"
    /\ \/ up /\ pc' = "assert"
       \/ pc' \in {"second", "done"}
    /\ UNCHANGED <<id, netw, hbVars, paVars, endVars, client, up>>

ConnectSecond ==
    /\ pc = "second"
    /\ \/ up /\ pc' = "assert"
       \/ pc' = "done"
    /\ UNCHANGED <<id, netw, hbVars, paVars, endVars, client, up>>

\* External: the device creates the assertion, and its time runs.
DeviceAsserts ==
    /\ up
    /\ \/ pc = "assert" /\ pc' = "asserted" /\ UNCHANGED renewal
       \/ renewal = "create" /\ renewal' = "reply" /\ UNCHANGED pc
    /\ fresh' = ASSERTION_TIMEOUT
    /\ UNCHANGED <<id, netw, hbVars, timer, held, waited, lag, endVars, client, up>>

\* Faulty: the sleep is as long as the assertion.
Hold_SleepsTimeout ==
    /\ held' = fresh /\ fresh' = 0 /\ lag' = ASSERTION_TIMEOUT - fresh
    /\ renewal' = "sleep" /\ timer' = ASSERTION_TIMEOUT /\ waited' = 0

\* The reply of Assertion::new: the new assertion is held from now on.
Hold ==
    /\ held' = fresh /\ fresh' = 0 /\ lag' = ASSERTION_TIMEOUT - fresh
    /\ renewal' = "sleep" /\ timer' = RENEWAL_INTERVAL /\ waited' = 0

\* The rest of NetworkDevice::new: both tasks run, and the device is not registered yet.
Created ==
    /\ pc = "asserted"
    /\ Hold
    /\ pc' = "insert" /\ owner' = "adder" /\ hb' = "marco"
    /\ UNCHANGED <<id, netw, failed, misses, missed, token, hbAborted, aborted, client, up>>

\* Assertion::new fails: no device, and the connection of the heartbeat is closed.
CreateFails ==
    /\ pc \in {"assert", "asserted"}
    /\ pc' = "done" /\ fresh' = 0
    /\ UNCHANGED <<id, netw, hbVars, renewal, timer, held, waited, lag, endVars, client, up>>

AddInsert ==
    /\ pc = "insert"
    /\ pc' = "usb" /\ owner' = "registry"
    /\ UNCHANGED <<id, netw, hbVars, paVars, token, hbAborted, aborted, client, up>>

\* has_usb_connection, which is false here, and the Attached event.
AddAttached ==
    /\ \/ pc = "usb" /\ pc' = "send"
       \/ pc = "send" /\ pc' = "done"
    /\ UNCHANGED <<id, netw, hbVars, paVars, endVars, client, up>>

--------------------------------------------------------------------------------
(* A client's Connect to the device.                                       *)

\* connect: the Ref is kept while the TCP connection is made.
ClientConnect ==
    /\ client = "none" /\ owner = "registry"
    /\ client' = "connecting"
    /\ UNCHANGED <<addVars, netw, hbVars, paVars, endVars, up>>

\* The entry can be taken out: nobody has a Ref to it.
Removable == client # "connecting"

\* NetworkDeviceConn::new, with a clone of the device's token, and the answer to the client.
ClientConnected ==
    /\ client = "connecting"
    /\ \/ up /\ client' = "bridged"
       \/ client' = "gone"
    /\ UNCHANGED <<addVars, netw, hbVars, paVars, endVars, up>>

\* copy_bidirectional ends with either side, or waits for bytes that do not come.
BridgeEnds ==
    /\ client = "bridged"
    /\ client' = "gone"
    /\ UNCHANGED <<addVars, netw, hbVars, paVars, endVars, up>>

BridgeCancelled == token /\ BridgeEnds

--------------------------------------------------------------------------------
(* The heartbeat task.                                                     *)

\* A failure: retry after the first, close after the second.
Miss(next) ==
    /\ misses' = IF misses < 2 THEN misses + 1 ELSE misses
    /\ IF failed
       THEN hb' = "close" /\ token' = TRUE /\ UNCHANGED failed
       ELSE hb' = next /\ failed' = TRUE /\ UNCHANGED token

\* Faulty: a marco does not clear the flag.
Marco_KeepsFailed ==
    /\ hb = "marco"
    /\ \/ up /\ hb' = "polo" /\ misses' = 0 /\ UNCHANGED <<failed, token>>
       \/ Miss("polo")
    /\ UNCHANGED <<addVars, netw, missed, paVars, owner, hbAborted, aborted, client, up>>

\* get_marco: the device's message, or a failure, at the latest after the interval.
Marco ==
    /\ hb = "marco"
    /\ \/ up /\ hb' = "polo" /\ failed' = FALSE /\ misses' = 0 /\ UNCHANGED token
       \/ Miss("polo")
    /\ UNCHANGED <<addVars, netw, missed, paVars, owner, hbAborted, aborted, client, up>>

\* Faulty: a polo that was sent clears the flag.
Polo_Clears ==
    /\ hb = "polo"
    /\ \/ hb' = "marco" /\ failed' = FALSE /\ UNCHANGED <<misses, token>>
       \/ Miss("marco")
    /\ UNCHANGED <<addVars, netw, missed, paVars, owner, hbAborted, aborted, client, up>>

\* send_polo: it may leave the host although the device is gone.
Polo ==
    /\ hb = "polo"
    /\ \/ hb' = "marco" /\ UNCHANGED <<failed, misses, token>>
       \/ Miss("marco")
    /\ UNCHANGED <<addVars, netw, missed, paVars, owner, hbAborted, aborted, client, up>>

\* Faulty: the task ends without remove_device.
HeartbeatRemove_Returns ==
    /\ hb = "close" /\ hb' = "gone"
    /\ missed' = (owner = "adder")
    /\ UNCHANGED <<addVars, netw, failed, misses, paVars, endVars, client, up>>

\* Faulty: the entry is taken out, and the device dropped, without a Detached event.
HeartbeatRemove_Silent ==
    /\ hb = "close" /\ hb' = "gone"
    /\ IF owner = "registry" THEN Drop ELSE UNCHANGED endVars
    /\ missed' = (owner = "adder")
    /\ UNCHANGED <<addVars, netw, failed, misses, paVars, client, up>>

\* remove_device: the registry may not have the device yet, or no more.
HeartbeatRemove ==
    /\ hb = "close"
    /\ hb' = IF owner = "registry" THEN "removed" ELSE "gone"
    /\ owner' = IF owner = "registry" THEN "heartbeat" ELSE owner
    /\ Removable
    /\ missed' = (owner = "adder")
    /\ UNCHANGED <<addVars, netw, failed, misses, paVars, token, hbAborted, aborted, client, up>>

\* The Detached event, and the device is dropped; its task has nothing left to abort.
HeartbeatDetached ==
    /\ hb = "removed" /\ hb' = "gone"
    /\ Drop
    /\ UNCHANGED <<addVars, netw, failed, misses, missed, paVars, client, up>>

\* The abort ends the task where it waits; removing the device is one poll of the task.
HeartbeatAborted ==
    /\ hbAborted /\ hb \in {"marco", "polo"}
    /\ hb' = "gone"
    /\ UNCHANGED <<addVars, netw, failed, misses, missed, paVars, endVars, client, up>>

--------------------------------------------------------------------------------
(* The renewal task.                                                       *)

\* Faulty: the old assertion is dropped before the new one is there.
Wake_DropsFirst ==
    /\ renewal = "sleep" /\ timer = 0
    /\ renewal' = "create" /\ waited' = 0 /\ held' = 0
    /\ UNCHANGED <<addVars, netw, hbVars, timer, fresh, lag, endVars, client, up>>

\* The sleep is over: a new assertion is asked for.
Wake ==
    /\ renewal = "sleep" /\ timer = 0
    /\ renewal' = "create" /\ waited' = 0
    /\ UNCHANGED <<addVars, netw, hbVars, timer, held, fresh, lag, endVars, client, up>>

\* It is there, and the old one is dropped.
Renewed ==
    /\ renewal = "reply"
    /\ Hold
    /\ UNCHANGED <<addVars, netw, hbVars, endVars, client, up>>

\* An error ends the task, and its assertion with it.
RenewalFails ==
    /\ renewal \in {"create", "reply"}
    /\ renewal' = "ended" /\ held' = 0 /\ fresh' = 0
    /\ UNCHANGED <<addVars, netw, hbVars, timer, waited, lag, endVars, client, up>>

\* The abort ends it, asleep or not, and its connections are closed.
RenewalAborted ==
    /\ aborted /\ renewal \in {"sleep", "create", "reply"}
    /\ renewal' = "gone" /\ held' = 0 /\ fresh' = 0
    /\ UNCHANGED <<addVars, netw, hbVars, timer, waited, lag, endVars, client, up>>

--------------------------------------------------------------------------------
(* The mDNS watcher, and the world.                                        *)

ServiceRemoved ==
    /\ netw.pc = "idle" /\ owner = "registry"
    /\ netw' = [pc |-> "remove", id |-> id]
    /\ UNCHANGED <<addVars, hbVars, paVars, endVars, client, up>>

\* Remove and shut down, unless the heartbeat was faster.
NetRemove ==
    /\ netw.pc = "remove" /\ Removable
    /\ IF owner = "registry"
       THEN netw' = [netw EXCEPT !.pc = "send"] /\ owner' = "watcher" /\ token' = TRUE
       ELSE netw' = [netw EXCEPT !.pc = "idle"] /\ UNCHANGED <<owner, token>>
    /\ UNCHANGED <<addVars, hbVars, paVars, hbAborted, aborted, client, up>>

\* The Detached event; the device is dropped at the end of the arm.
NetDetached ==
    /\ netw.pc = "send"
    /\ netw' = [netw EXCEPT !.pc = "idle"]
    /\ Drop
    /\ UNCHANGED <<addVars, hbVars, paVars, client, up>>

\* External: the device leaves the network for good.
DeviceGone ==
    /\ up /\ up' = FALSE
    /\ UNCHANGED <<addVars, netw, hbVars, paVars, endVars, client>>

\* External: time passes.  A sleep that is over ends before the next tick.
Tick ==
    /\ renewal = "sleep" => timer > 0
    /\ renewal \in {"create", "reply"} => waited < MaxWait
    /\ LET Less(n) == IF n > 0 THEN n - 1 ELSE 0 IN
       timer' = Less(timer) /\ held' = Less(held) /\ fresh' = Less(fresh)
    /\ waited' = IF renewal \in {"create", "reply"} THEN waited + 1 ELSE waited
    /\ UNCHANGED <<addVars, netw, hbVars, renewal, lag, endVars, client, up>>

--------------------------------------------------------------------------------
Adding ==
    \/ AddCheck \/ ConnectFirst \/ ConnectSecond \/ Created \/ CreateFails \/ AddInsert
    \/ AddAttached
HeartbeatTask == Marco \/ Polo \/ HeartbeatRemove \/ HeartbeatDetached
RenewalTask == Wake \/ Renewed \/ RenewalFails
NetWatcher == NetRemove \/ NetDetached

Next ==
    \/ Resolved \/ Adding
    \/ HeartbeatTask \/ HeartbeatAborted
    \/ RenewalTask \/ RenewalAborted
    \/ ClientConnect \/ ClientConnected \/ BridgeEnds
    \/ ServiceRemoved \/ NetWatcher
    \/ DeviceAsserts \/ DeviceGone \/ Tick

(***************************************************************************)
(* The runtime polls every task; a marco that does not come is a timeout;  *)
(* an aborted task ends where it waits; a TCP connection is made or given  *)
(* up by the system.  Nothing makes the device answer the request for an   *)
(* assertion, which has no timeout.                                        *)
(***************************************************************************)
Fairness ==
    /\ WF_vars(AddInsert)
    /\ WF_vars(HeartbeatTask) /\ WF_vars(HeartbeatAborted)
    /\ WF_vars(RenewalAborted)
    /\ WF_vars(ClientConnected) /\ WF_vars(BridgeCancelled)
    /\ WF_vars(NetWatcher)

Spec == Init /\ [][Next]_vars /\ Fairness

--------------------------------------------------------------------------------
\* Type invariant of the device's tasks: no sleep is longer than the renewal interval and no
\* assertion lasts longer than its timeout.
TypeOK ==
    /\ pc \in {"off", "check", "connect", "second", "assert", "asserted", "insert", "usb", "send",
               "done"}
    /\ id \in {0, 1}
    /\ owner \in {"none", "adder", "registry", "watcher", "heartbeat", "dropped"}
    /\ netw \in [pc : {"idle", "remove", "send"}, id : {0, 1}]
    /\ hb \in {"none", "marco", "polo", "close", "removed", "gone"}
    /\ renewal \in {"none", "sleep", "create", "reply", "ended", "gone"}
    /\ client \in {"none", "connecting", "bridged", "gone"}
    /\ token \in BOOLEAN /\ failed \in BOOLEAN /\ hbAborted \in BOOLEAN
    /\ aborted \in BOOLEAN /\ up \in BOOLEAN /\ missed \in BOOLEAN
    /\ timer \in 0 .. RENEWAL_INTERVAL
    /\ {held, fresh, lag} \subseteq 0 .. ASSERTION_TIMEOUT
    /\ misses \in 0 .. 2 /\ waited \in 0 .. MaxWait

(* A device is closed by its heartbeat only after two failures without a   *)
(* marco in between, whichever of get_marco and send_polo failed, in one   *)
(* round or in several (network.rs:66-99).                                 *)
ClosedMeansTwoMisses == hb \in {"close", "removed"} => misses = 2

(* A registered device can be used and is watched: its token is not        *)
(* cancelled and its heartbeat goes on, or is just taking it out.  The     *)
(* exception is a heartbeat that ended before the device was inserted      *)
(* (network.rs:62 and watcher/network.rs:265): that entry stays, with its  *)
(* token cancelled.                                                        *)
RegisteredIsWatched ==
    owner = "registry" =>
        \/ hb \in {"marco", "polo"} /\ ~token /\ ~hbAborted
        \/ hb = "close"
        \/ missed /\ hb = "gone" /\ token

(* Between creation and end, the device is kept awake without a gap, as    *)
(* long as the renewal task has not ended with an error and the requests   *)
(* of two assertions in a row are answered within the time that the        *)
(* timeout has on the interval (power_assertion.rs:11-12, 36-51).          *)
AssertionCovers ==
    owner \in {"adder", "registry"} /\ held = 0 /\ fresh = 0 =>
        \/ renewal = "ended"
        \/ lag + waited >= ASSERTION_TIMEOUT - RENEWAL_INTERVAL

(* A device that is gone is taken out of the registry by its heartbeat,    *)
(* also when mDNS never reports a removal (watcher/mod.rs:75-80), unless   *)
(* the heartbeat ended before the device was inserted.  A client that is   *)
(* connecting to the device delays its removal, and does not prevent it.   *)
DeadDeviceLeaves ==
    (owner = "registry" /\ ~up) ~> (owner # "registry" \/ missed)

(* Whoever takes the device out of the registry, it is dropped, and both   *)
(* its tasks, its assertions and a client's connection end with it         *)
(* (network.rs:36-42, power_assertion.rs:19-23, connect.rs:71-74).         *)
NothingOutlivesDevice ==
    (owner \in {"watcher", "heartbeat", "dropped"}) ~>
        (owner = "dropped" /\ hb = "gone" /\ renewal \in {"gone", "ended"} /\ held = 0 /\ fresh = 0
            /\ client \in {"none", "gone"})

--------------------------------------------------------------------------------
(* Hotplug with one network device and nothing plugged in.                 *)

Kept == owner \in {"adder", "registry"}
H == INSTANCE Hotplug WITH
    Serials <- {"s"}, None <- "none", Listeners <- {}, EventCap <- 1, IoCap <- 1, MaxId <- 1,
    MaxPlugs <- 0, MaxAgain <- 0, MaxIoErrors <- 0, Adders <- {"a"},
    devices <- [i \in {1} |-> IF owner = "registry" THEN "net" ELSE "none"],
    about <- [i \in {1} |-> [serial |-> IF id = 1 THEN "s" ELSE "none", opaque |-> 0]],
    nextId <- id + 1,
    stream <- [st |-> "idle", id |-> 0], idMap <- [o \in {} |-> 0],
    watcher <- [pc |-> "select", id |-> 0], ioq <- [i \in {} |-> 0], rd <- [i \in {1} |-> "none"],
    adder <- [a \in {"a"} |->
                [pc |-> IF pc \in {"second", "assert", "asserted"} THEN "connect" ELSE pc,
                 id |-> id, serial |-> IF pc = "off" THEN "none" ELSE "s"]],
    netw <- netw,
    hb <- [i \in {1} |->
             CASE hb \in {"marco", "polo"} -> IF Kept THEN "ok" ELSE "gone"
               [] hb = "close" -> IF Kept THEN "dead" ELSE "gone"
               [] OTHER -> hb],
    lst <- [l \in {} |-> 0], bus <- [o \in {} |-> "none"], plugs <- 0,
    hotplug <- [i \in {} |-> 0], again <- 0, ioErrors <- 0

(* What Hotplug lets a network device's tasks do is all that these tasks   *)
(* do to the registry: the rounds of the heartbeat, the creation in steps  *)
(* and the device's drop behind its removal are steps that Hotplug does    *)
(* not see or allows.                                                      *)
HotplugSpec == H!Init /\ [][H!Next]_(H!vars)
================================================================================
