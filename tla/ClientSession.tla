----------------------------- MODULE ClientSession -----------------------------
(***************************************************************************)
(* The sessions of the daemon's clients: handle_client and handle_message  *)
(* (src/src/handler/mod.rs) with the handlers of the single requests, and  *)
(* the two kinds of file they share, the pair record of a device and       *)
(* SystemConfiguration.plist with the host's BUID.                         *)
(*                                                                         *)
(* Every session is a task.  A step is what it does between two awaits;    *)
(* tokio::fs::write is two steps, the file is created or truncated and     *)
(* then written, by a thread of its own.  A file is a sequence of blocks,  *)
(* so that a shorter write leaves the tail of a longer one in place.  Only *)
(* one pair record is followed: files of different names do not meet.      *)
(***************************************************************************)
EXTENDS Integers, Sequences, FiniteSets

CONSTANTS
    Sessions,     \* the clients, one session each
    Records,      \* the pair records clients save
    Size,         \* Size[r]: blocks the file of record r takes
    None,         \* no file
    MaxRequests   \* bound: requests of a session

ASSUME ConstantsAssumption ==
    /\ Size \in [Records -> Nat \ {0}]
    /\ None \notin Sessions \cup Records \cup {"empty"} /\ "empty" \notin Sessions
    /\ MaxRequests \in Nat

VARIABLES
    pc,          \* where the session is
    rec,         \* rec[s]: the record of the SavePairRecord it handles, or None
    answers,     \* answers[s]: final answers to the request it handles
    silent,      \* silent[s]: the handler failed in a way that sends no answer
    requests,    \* requests[s]: requests received so far
    gone,        \* external: gone[s]: the client has closed its end
    hotplug,     \* HOTPLUG_EVENT_TX was initialized by a watcher
    record,      \* the pair record's file: None or its blocks
    linked,      \* linked[s]: the file the session has open is the one of that name
    config,      \* SystemConfiguration.plist: None, "empty" or the session whose UUID it holds
    told,        \* history: the BUIDs that clients were told
    raced,       \* history: two sessions found SystemConfiguration.plist missing at once
    undisturbed  \* history: undisturbed[s]: no other session changed the record since s opened it

sessionVars == <<pc, rec, answers, silent, requests>>
recordVars  == <<record, linked, undisturbed>>
buidVars    == <<config, told, raced>>
vars == <<sessionVars, gone, hotplug, recordVars, buidVars>>

\* What save_pair_record writes for r: the data it was sent, as a plist of its own.
Encoded(r) == [i \in 1 .. Size[r] |-> <<"Data", r>>]
Blocks == {<<"Data", r>> : r \in Records}

\* Faulty variant: the file is opened to append.
Written_Append(r, file) == file \o Encoded(r)

\* A write of r at the start of the file.
Written(r, file) ==
    [i \in 1 .. IF Size[r] > Len(file) THEN Size[r] ELSE Len(file) |->
        IF i <= Size[r] THEN Encoded(r)[i] ELSE file[i]]

Init ==
    /\ pc = [s \in Sessions |-> "read"] /\ rec = [s \in Sessions |-> None]
    /\ answers = [s \in Sessions |-> 0] /\ silent = [s \in Sessions |-> FALSE]
    /\ requests = [s \in Sessions |-> 0] /\ gone = [s \in Sessions |-> FALSE]
    /\ hotplug = FALSE
    /\ record = None /\ linked = [s \in Sessions |-> FALSE]
    /\ undisturbed = [s \in Sessions |-> FALSE]
    /\ config = None /\ told = {} /\ raced = FALSE

Goto(s, l) == pc' = [pc EXCEPT ![s] = l]
\* A message to the client; writing to one that is gone ends the session.
Answer(s, l) ==
    IF gone[s] THEN Goto(s, "ended") /\ UNCHANGED answers
    ELSE Goto(s, l) /\ answers' = [answers EXCEPT ![s] = @ + 1]
\* The handler returns an error it sent no answer for, and the session goes on.
Fail(s) ==
    /\ Goto(s, "read")
    /\ silent' = [silent EXCEPT ![s] = TRUE]
    /\ UNCHANGED answers

--------------------------------------------------------------------------------
(* handle_client: the requests.                                            *)

\* The requests handle_message tells apart, by where their handling starts: the three of
\* a pair record are "refuse" when the id has a path in it, and so are a plist that is no
\* request and a message that is not of type MessagePlist.
Starts == {"list", "listeners", "listen", "connect", "checkbuid", "readrec", "saveopen", "delete",
           "refuse"}

Receive(s, l, r) ==
    /\ pc[s] = "read" /\ ~gone[s] /\ requests[s] < MaxRequests
    /\ Goto(s, l)
    /\ rec' = [rec EXCEPT ![s] = IF l = "saveopen" THEN r ELSE None]
    /\ requests' = [requests EXCEPT ![s] = @ + 1]
    /\ answers' = [answers EXCEPT ![s] = 0] /\ silent' = [silent EXCEPT ![s] = FALSE]
    /\ UNCHANGED <<gone, hotplug, recordVars, buidVars>>

\* A packet that cannot be decoded or has no plist is skipped.  Of one with a bad header
\* only the header has been read: what follows is taken for headers, and is in step again
\* only if the rest happened to be as long as some of them.
ParseFails(s) ==
    /\ pc[s] \in {"read", "garbled"} /\ ~gone[s] /\ requests[s] < MaxRequests
    /\ requests' = [requests EXCEPT ![s] = @ + 1]
    /\ answers' = [answers EXCEPT ![s] = 0] /\ silent' = [silent EXCEPT ![s] = TRUE]
    /\ Goto(s, "read") \/ Goto(s, "garbled")
    /\ UNCHANGED <<rec, gone, hotplug, recordVars, buidVars>>

\* Faulty variant: the end of the stream is an error like the others, and the loop goes on.
ClientEof_Continues(s) ==
    /\ pc[s] \in {"read", "garbled"} /\ gone[s]
    /\ UNCHANGED vars

\* The read meets the end of the stream.
ClientEof(s) ==
    /\ pc[s] \in {"read", "garbled"} /\ gone[s]
    /\ Goto(s, "ended")
    /\ UNCHANGED <<rec, answers, silent, requests, gone, hotplug, recordVars, buidVars>>

--------------------------------------------------------------------------------
(* Requests without state of their own.                                    *)

Refuse(s) ==
    /\ pc[s] = "refuse"
    /\ Answer(s, "read")
    /\ UNCHANGED <<rec, silent, requests, gone, hotplug, recordVars, buidVars>>

\* A device whose data cannot be read fails the whole list.
ListDevices(s) ==
    /\ pc[s] = "list"
    /\ (Answer(s, "read") /\ UNCHANGED silent) \/ Fail(s)
    /\ UNCHANGED <<rec, requests, gone, hotplug, recordVars, buidVars>>

\* Before a watcher has made the channel there is no answer.
ListListeners(s) ==
    /\ pc[s] = "listeners"
    /\ IF hotplug THEN Answer(s, "read") /\ UNCHANGED silent ELSE Fail(s)
    /\ UNCHANGED <<rec, requests, gone, hotplug, recordVars, buidVars>>

\* Listen keeps the session, or refuses and ends it.
Listen(s) ==
    /\ pc[s] = "listen"
    /\ Answer(s, IF hotplug THEN "listening" ELSE "ended")
    /\ UNCHANGED <<rec, silent, requests, gone, hotplug, recordVars, buidVars>>

\* Connect is refused at once without such a device or a source port, which ends the session.
\* Otherwise it opens the connection.
Connect(s) ==
    /\ pc[s] = "connect"
    /\ Answer(s, "ended") \/ (Goto(s, "opening") /\ UNCHANGED answers)
    /\ UNCHANGED <<rec, silent, requests, gone, hotplug, recordVars, buidVars>>

\* The device has answered, or the attempt failed: the session becomes the connection, or is
\* refused and ends.  The wait has no timeout, and the client is not read meanwhile.
Opened(s) ==
    /\ pc[s] = "opening"
    /\ Answer(s, "bridge") \/ Answer(s, "ended")
    /\ UNCHANGED <<rec, silent, requests, gone, hotplug, recordVars, buidVars>>

\* The connection is over; the listener lags behind, or an event could not be written.
HandedOffEnds(s) ==
    /\ pc[s] \in {"bridge", "listening"}
    /\ Goto(s, "ended")
    /\ UNCHANGED <<rec, answers, silent, requests, gone, hotplug, recordVars, buidVars>>

--------------------------------------------------------------------------------
(* ReadBUID.  A missing file is created, which races with other sessions.  *)

\* Faulty variant: the file is written without a look at the one that may be there.
CheckBuid_AlwaysCreates(s) ==
    /\ pc[s] = "checkbuid"
    /\ Goto(s, "buidopen")
    /\ UNCHANGED <<rec, answers, silent, requests, gone, hotplug, recordVars, buidVars>>

CheckBuid(s) ==
    /\ pc[s] = "checkbuid"
    /\ Goto(s, IF config = None THEN "buidopen" ELSE "readbuid")
    /\ raced' = (raced \/ (config = None /\ \E t \in Sessions : pc[t] = "buidopen"))
    /\ UNCHANGED <<rec, answers, silent, requests, gone, hotplug, recordVars, config, told>>

\* tokio::fs::write: create or truncate.  A failure is answered, and the answer's own
\* failure is ignored.
BuidOpen(s) ==
    /\ pc[s] = "buidopen"
    /\ \/ config' = "empty" /\ Goto(s, "buidwrite")
       \/ UNCHANGED config /\ Goto(s, "buidfails")
    /\ UNCHANGED <<rec, answers, silent, requests, gone, hotplug, recordVars, told, raced>>

BuidWrite(s) ==
    /\ pc[s] = "buidwrite"
    /\ \/ config' = s /\ Goto(s, "readbuid")
       \/ UNCHANGED config /\ Goto(s, "buidfails")
    /\ UNCHANGED <<rec, answers, silent, requests, gone, hotplug, recordVars, told, raced>>

BuidFails(s) ==
    /\ pc[s] = "buidfails"
    /\ Goto(s, "read")
    /\ answers' = [answers EXCEPT ![s] = IF gone[s] THEN @ ELSE @ + 1]
    /\ UNCHANGED <<rec, silent, requests, gone, hotplug, recordVars, buidVars>>

\* A file that is still, or has stayed, empty is no plist.
ReadBuid(s) ==
    /\ pc[s] = "readbuid"
    /\ \/ config = "empty" /\ Fail(s) /\ UNCHANGED told
       \/ /\ config \in Sessions /\ Answer(s, "read") /\ UNCHANGED silent
          /\ told' = IF gone[s] THEN told ELSE told \cup {config}
    /\ UNCHANGED <<rec, requests, gone, hotplug, recordVars, config, raced>>

--------------------------------------------------------------------------------
(* Pair records.                                                           *)

\* Faulty variant: an old record is not truncated.
SaveOpen_KeepsContent(s) ==
    /\ pc[s] = "saveopen"
    /\ record' = IF record = None THEN <<>> ELSE record
    /\ linked' = [linked EXCEPT ![s] = TRUE]
    /\ undisturbed' = [t \in Sessions |-> t = s]
    /\ Goto(s, "savewrite")
    /\ UNCHANGED <<rec, answers, silent, requests, gone, hotplug, buidVars>>

\* tokio::fs::write creates or truncates the file.  Only a missing directory or a missing
\* permission is answered, other errors are not.
SaveOpen(s) ==
    /\ pc[s] = "saveopen"
    /\ \/ /\ record' = <<>>
          /\ linked' = [linked EXCEPT ![s] = TRUE]
          /\ undisturbed' = [t \in Sessions |-> t = s]
          /\ Goto(s, "savewrite") /\ UNCHANGED <<answers, silent>>
       \/ Goto(s, "refuse") /\ UNCHANGED <<answers, silent, recordVars>>
       \/ Fail(s) /\ UNCHANGED recordVars
    /\ UNCHANGED <<rec, requests, gone, hotplug, buidVars>>

\* The write goes to the file that was opened, though it may have been deleted since.
SaveWrite(s) ==
    /\ pc[s] = "savewrite"
    /\ linked' = [linked EXCEPT ![s] = FALSE]
    /\ \/ /\ record' = IF linked[s] THEN Written(rec[s], record) ELSE record
          /\ undisturbed' = IF linked[s] THEN [t \in Sessions |-> t = s /\ undisturbed[s]]
                            ELSE undisturbed
          /\ Goto(s, "paired") \/ Goto(s, "ok")
          /\ UNCHANGED <<answers, silent>>
       \/ Fail(s) /\ UNCHANGED <<record, undisturbed>>
    /\ UNCHANGED <<rec, requests, gone, hotplug, buidVars>>

\* With a DeviceID a Paired message precedes the result.
SendPaired(s) ==
    /\ pc[s] = "paired"
    /\ Goto(s, IF gone[s] THEN "ended" ELSE "ok")
    /\ UNCHANGED <<rec, answers, silent, requests, gone, hotplug, recordVars, buidVars>>

\* The answer of SavePairRecord and DeletePairRecord.
SendOk(s) ==
    /\ pc[s] = "ok"
    /\ Answer(s, "read")
    /\ UNCHANGED <<rec, silent, requests, gone, hotplug, recordVars, buidVars>>

\* The file as it is, whatever is in it; or no such file, or another error.
ReadPairRecord(s) ==
    /\ pc[s] = "readrec"
    /\ \/ record # None /\ Answer(s, "read") /\ UNCHANGED silent
       \/ record = None /\ Goto(s, "refuse") /\ UNCHANGED <<answers, silent>>
       \/ Fail(s)
    /\ UNCHANGED <<rec, requests, gone, hotplug, recordVars, buidVars>>

\* Faulty variant: the result is also sent where the error path has sent it already.
DeletePairRecord_AnswersTwice(s) ==
    /\ pc[s] = "delete"
    /\ Answer(s, "refuse")
    /\ record' = None
    /\ linked' = [t \in Sessions |-> FALSE] /\ undisturbed' = [t \in Sessions |-> FALSE]
    /\ UNCHANGED <<rec, silent, requests, gone, hotplug, buidVars>>

\* remove_file; an error other than a missing file is not answered.
DeletePairRecord(s) ==
    /\ pc[s] = "delete"
    /\ \/ /\ record # None /\ record' = None
          /\ linked' = [t \in Sessions |-> FALSE] /\ undisturbed' = [t \in Sessions |-> FALSE]
          /\ Goto(s, "ok") /\ UNCHANGED <<answers, silent>>
       \/ record = None /\ Goto(s, "refuse") /\ UNCHANGED <<answers, silent, recordVars>>
       \/ record # None /\ Fail(s) /\ UNCHANGED recordVars
    /\ UNCHANGED <<rec, requests, gone, hotplug, buidVars>>

--------------------------------------------------------------------------------
\* External: the client closes its end, whatever the session is doing.
ClientCloses(s) ==
    /\ ~gone[s]
    /\ gone' = [gone EXCEPT ![s] = TRUE]
    /\ UNCHANGED <<sessionVars, hotplug, recordVars, buidVars>>

\* The first watcher to ask for the channel makes it; sessions are accepted before that too.
InitHotplug ==
    /\ ~hotplug
    /\ hotplug' = TRUE
    /\ UNCHANGED <<sessionVars, gone, recordVars, buidVars>>

Handling(s) ==
    \/ ClientEof(s)
    \/ Refuse(s) \/ ListDevices(s) \/ ListListeners(s) \/ Listen(s) \/ Connect(s)
    \/ CheckBuid(s) \/ BuidOpen(s) \/ BuidWrite(s) \/ BuidFails(s) \/ ReadBuid(s)
    \/ SaveOpen(s) \/ SaveWrite(s) \/ SendPaired(s) \/ SendOk(s)
    \/ ReadPairRecord(s) \/ DeletePairRecord(s)

Next ==
    \/ InitHotplug
    \/ \E s \in Sessions :
        \/ Handling(s) \/ ParseFails(s) \/ Opened(s) \/ HandedOffEnds(s) \/ ClientCloses(s)
        \/ \E l \in Starts, r \in Records : Receive(s, l, r)

(***************************************************************************)
(* The runtime polls a session that can go on, and files and sockets       *)
(* answer.  Nothing is assumed of the clients, nor of a session that was   *)
(* handed off, nor that a device ever answers: a refused SYN never is,     *)
(* since its RST is dropped (UsbMux), and the session stays "opening".     *)
(***************************************************************************)
Fairness == \A s \in Sessions : WF_vars(Handling(s))

Spec == Init /\ [][Next]_vars /\ Fairness

--------------------------------------------------------------------------------
(* Properties                                                              *)

\* Type invariant of the sessions and the files.
TypeOK ==
    /\ pc \in [Sessions -> Starts \cup {"read", "garbled", "opening", "listening", "bridge", "ended",
                                        "buidopen", "buidwrite", "buidfails", "readbuid", "savewrite", "paired", "ok"}]
    /\ rec \in [Sessions -> Records \cup {None}]
    /\ answers \in [Sessions -> Nat] /\ silent \in [Sessions -> BOOLEAN]
    /\ requests \in [Sessions -> 0 .. MaxRequests]
    /\ gone \in [Sessions -> BOOLEAN] /\ hotplug \in BOOLEAN
    /\ record = None \/ (record \in Seq(Blocks) /\ \E r \in Records : Len(record) <= Size[r])
    /\ linked \in [Sessions -> BOOLEAN] /\ undisturbed \in [Sessions -> BOOLEAN]
    /\ config \in Sessions \cup {None, "empty"}
    /\ told \subseteq Sessions /\ raced \in BOOLEAN

\* A request gets one final answer, never two: when the session turns to the next request
\* or is handed off, and when it ends with the client still there, the answer was sent, or
\* the handler failed with one of the errors it does not report.
OneAnswerEach ==
    \A s \in Sessions :
        /\ answers[s] <= 1
        /\ pc[s] \in {"read", "garbled", "listening", "bridge", "ended"} /\ requests[s] > 0 /\ ~gone[s]
              => (answers[s] = 1 <=> ~silent[s])

\* When SavePairRecord is about to answer OK, the file holds that record, whole and
\* nothing else, unless another session opened, wrote or deleted it in the meantime:
\* what an earlier, longer record or a failed save left behind does not show.
OkMeansStored ==
    \A s \in Sessions :
        pc[s] \in {"paired", "ok"} /\ undisturbed[s] => record = Encoded(rec[s])

\* Every BUID a client was ever told is the one in SystemConfiguration.plist, unless two
\* sessions found the file missing before either had created it.
BuidAgreed == ~raced => told \subseteq {config}

\* The session of a client that has gone ends, from wherever it is, a stream out of step
\* included; only one that listens, is a connection or waits for the device to open one
\* may stay.
SessionEnds ==
    \A s \in Sessions : gone[s] ~> pc[s] \in {"ended", "listening", "bridge", "opening"}
================================================================================
