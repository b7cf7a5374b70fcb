----------------------------- MODULE LogStream -----------------------------
(***************************************************************************)
(* The log stream of one operation: workers and nodes write logs, clients  *)
(* (the browser's EventSource) read them from a gateway over server-sent   *)
(* events, lose the connection and come back with the id of the last event.*)
(*                                                                         *)
(* Logs are ordered by created_at, which the process that writes the log   *)
(* takes from its own clock, and then by a random id.  So a log may be     *)
(* written behind logs that were read already: it is late.                 *)
(***************************************************************************)
EXTENDS Integers, FiniteSets, Sequences

CONSTANTS
    Logs,       \* rows of operation_logs of the operation
    Readers,
    NoLog,
    Times,      \* values of created_at
    Rank,       \* [Logs -> Nat]: the order of the ids
    Batch,      \* operationLogStreamBatchLimit
    MaxBreaks   \* bound on broken connections and failing queries

ASSUME LogAssumption ==
    /\ IsFiniteSet(Logs) /\ NoLog \notin Logs \cup {"operation_status", "stream_error", "refused"}
    /\ Logs \cap {"operation_status", "stream_error"} = {}
    /\ Times \subseteq Nat \ {0}
    /\ Rank \in [Logs -> Nat]
    /\ \A l, m \in Logs : Rank[l] = Rank[m] => l = m
ASSUME BatchAssumption == Batch \in Nat \ {0} /\ MaxBreaks \in Nat

VARIABLES
    stamp,    \* created_at of each log, 0 before it is written
    status,   \* operation_runs.status
    place,       \* where the handler of each client is
    cursor,   \* operationLogCursor: the last log the handler sent
    batch,    \* the logs it has still to send
    full,     \* whether it read as many as the limit
    wire,     \* events sent and not yet received
    got,      \* the logs the client shows
    lastId,   \* the client's last event id
    ended,    \* what made the client give up, if anything
    late,     \* history: logs written behind another one
    breaks

log == <<stamp, late>>
handler == <<place, cursor, batch, full>>
browser == <<got, lastId, ended>>
streamVars == <<log, status, handler, wire, browser, breaks>>

TerminalStatuses == {"completed", "failed", "canceled"}
Ends == {"operation_status", "stream_error"}
Closings == Ends \cup {"refused"}
Written == {l \in Logs : stamp[l] # 0}
Connected == {"select", "send", "status", "wait"}

(* The logs of a sequence of logs and of closing events. *)
LogsIn(s) == {s[i] : i \in DOMAIN s} \cap Logs

StreamTypeOK ==
    /\ stamp \in [Logs -> Times \cup {0}]
    /\ status \in {"queued", "running"} \cup TerminalStatuses
    /\ place \in [Readers -> Connected \cup {"off", "returned"}]
    /\ cursor \in [Readers -> Logs \cup {NoLog}]
    /\ batch \in [Readers -> SUBSET Written]
    /\ \A c \in Readers : batch[c] # {} => place[c] = "send"
    /\ full \in [Readers -> BOOLEAN]
    /\ wire \in [Readers -> Seq(Logs \cup Ends)]
    /\ got \in [Readers -> Seq(Logs)]
    /\ lastId \in [Readers -> Logs \cup {NoLog}]
    /\ ended \in [Readers -> Closings \cup {NoLog}]
    /\ late \subseteq Written
    /\ breaks \in 0..MaxBreaks

StreamInit ==
    /\ stamp = [l \in Logs |-> 0] /\ late = {}
    /\ status = "queued"
    /\ place = [c \in Readers |-> "off"]
    /\ cursor = [c \in Readers |-> NoLog]
    /\ batch = [c \in Readers |-> {}]
    /\ full = [c \in Readers |-> FALSE]
    /\ wire = [c \in Readers |-> <<>>]
    /\ got = [c \in Readers |-> <<>>]
    /\ lastId = [c \in Readers |-> NoLog]
    /\ ended = [c \in Readers |-> NoLog]
    /\ breaks = 0

-----------------------------------------------------------------------------
(* The order of the logs *)

(* Mutant: logs of one instant are not told apart. *)
BeforeByTime(l, m) == stamp[l] < stamp[m]

Before(l, m) ==
    \/ stamp[l] < stamp[m]
    \/ stamp[l] = stamp[m] /\ Rank[l] < Rank[m]

AfterCursor(l, cur) == cur = NoLog \/ Before(cur, l)

(* The first logs after the cursor, as many as the limit allows. *)
NextBatch(cur) ==
    LET after == {l \in Written : AfterCursor(l, cur)} IN
    {l \in after : Cardinality({m \in after : Before(m, l)}) < Batch}

-----------------------------------------------------------------------------
(* Workers and nodes *)

Break == breaks < MaxBreaks /\ breaks' = breaks + 1

(* A log is written, by whatever process and with the time of its clock;   *)
(* nodes may still log after the operation has ended.                      *)
WriteLog(l, t) ==
    /\ stamp[l] = 0
    /\ stamp' = [stamp EXCEPT ![l] = t]
    /\ late' = late \cup {m \in {l} : \E n \in Written :
                             t < stamp[n] \/ (t = stamp[n] /\ Rank[l] < Rank[n])}
    /\ UNCHANGED <<status, handler, wire, browser, breaks>>

(* The operation goes on.  A terminal status may be followed by another    *)
(* one (see WorkQueue), never by one that is not.                          *)
SetStatus(s) ==
    /\ s # status
    /\ \/ s = "running" /\ status = "queued"
       \/ s \in TerminalStatuses
    /\ status' = s
    /\ UNCHANGED <<log, handler, wire, browser, breaks>>

-----------------------------------------------------------------------------
(* The handler of a client's stream *)

Send(c, event) == wire' = [wire EXCEPT ![c] = Append(@, event)]
Proceed(c, label) == place' = [place EXCEPT ![c] = label]

(* The client connects, or comes back with Last-Event-ID, and is let in. *)
Connect(c) ==
    /\ place[c] = "off" /\ ended[c] = NoLog
    /\ Proceed(c, "select")
    /\ cursor' = [cursor EXCEPT ![c] = lastId[c]]
    /\ UNCHANGED <<log, status, batch, full, wire, browser, breaks>>

(* It is refused: the operation is not there or its query fails, the user  *)
(* may not read it, the connection cannot stream.  EventSource does not    *)
(* come back after an answer other than 200.                               *)
Refuse(c) ==
    /\ place[c] = "off" /\ ended[c] = NoLog
    /\ ended' = [ended EXCEPT ![c] = "refused"]
    /\ UNCHANGED <<log, status, handler, wire, got, lastId, breaks>>

(* Mutant: after a full batch every batch counts as full. *)
ReadLogsFullForever(c) ==
    /\ place[c] = "select"
    /\ batch' = [batch EXCEPT ![c] = NextBatch(cursor[c])]
    /\ full' = [full EXCEPT ![c] = @ \/ Cardinality(NextBatch(cursor[c])) >= Batch]
    /\ Proceed(c, "send")
    /\ UNCHANGED <<log, status, cursor, wire, browser, breaks>>

ReadLogs(c) ==
    /\ place[c] = "select"
    /\ batch' = [batch EXCEPT ![c] = NextBatch(cursor[c])]
    /\ full' = [full EXCEPT ![c] = Cardinality(NextBatch(cursor[c])) >= Batch]
    /\ Proceed(c, "send")
    /\ UNCHANGED <<log, status, cursor, wire, browser, breaks>>

SendLog(c) ==
    /\ place[c] = "send" /\ batch[c] # {}
    /\ \E l \in batch[c] :
          /\ \A m \in batch[c] \ {l} : Before(l, m)
          /\ Send(c, l)
          /\ cursor' = [cursor EXCEPT ![c] = l]
          /\ batch' = [batch EXCEPT ![c] = @ \ {l}]
    /\ UNCHANGED <<log, status, place, full, browser, breaks>>

BatchSent(c) ==
    /\ place[c] = "send" /\ batch[c] = {}
    /\ Proceed(c, "status")
    /\ UNCHANGED <<log, status, cursor, batch, full, wire, browser, breaks>>

ShouldClose(c) == status \in TerminalStatuses /\ ~full[c]

(* The status is read after the logs. *)
ReadStatus(c) ==
    /\ place[c] = "status"
    /\ \/ ShouldClose(c) /\ Send(c, "operation_status") /\ Proceed(c, "returned")
       \/ ~ShouldClose(c) /\ Proceed(c, "wait") /\ UNCHANGED wire
    /\ UNCHANGED <<log, status, cursor, batch, full, browser, breaks>>

(* The ticker or the heartbeat. *)
Tick(c) ==
    /\ place[c] = "wait" /\ Proceed(c, "select")
    /\ UNCHANGED <<log, status, cursor, batch, full, wire, browser, breaks>>

(* The five minutes of the stream are over while it waits. *)
StreamExpires(c) ==
    /\ place[c] = "wait" /\ Proceed(c, "returned")
    /\ UNCHANGED <<log, status, cursor, batch, full, wire, browser, breaks>>

(* A query fails, or the five minutes are over during it. *)
QueryFails(c) ==
    /\ place[c] \in {"select", "status"} /\ Break
    /\ Send(c, "stream_error") /\ Proceed(c, "returned")
    /\ UNCHANGED <<log, status, cursor, batch, full, browser>>

(* The connection breaks, with what was on its way. *)
ConnectionBreaks(c) ==
    /\ place[c] # "off" /\ Break
    /\ Proceed(c, "off")
    /\ batch' = [batch EXCEPT ![c] = {}]
    /\ wire' = [wire EXCEPT ![c] = <<>>]
    /\ UNCHANGED <<log, status, cursor, full, browser>>

HandlerStep(c) ==
    \/ ReadLogs(c) \/ SendLog(c) \/ BatchSent(c) \/ ReadStatus(c) \/ Tick(c)

-----------------------------------------------------------------------------
(* The client: EventSource comes back by itself until it is closed or      *)
(* refused                                                                 *)

(* A log it has already is not shown again. *)
Shown(s, l) == IF l \in LogsIn(s) THEN s ELSE Append(s, l)

Receive(c) ==
    /\ wire[c] # <<>> /\ ended[c] = NoLog
    /\ LET event == Head(wire[c]) IN
       /\ \/ /\ event \in Logs
             /\ got' = [got EXCEPT ![c] = Shown(@, event)]
             /\ lastId' = [lastId EXCEPT ![c] = event]
             /\ UNCHANGED ended
          \/ /\ event \in Ends
             /\ ended' = [ended EXCEPT ![c] = event]
             /\ UNCHANGED <<got, lastId>>
       /\ wire' = [wire EXCEPT ![c] = Tail(@)]
    /\ UNCHANGED <<log, status, handler, breaks>>

(* The stream ended and everything in it was received. *)
StreamEnds(c) ==
    /\ place[c] = "returned" /\ wire[c] = <<>>
    /\ Proceed(c, "off")
    /\ UNCHANGED <<log, status, cursor, batch, full, wire, browser, breaks>>

ClientStep(c) == Connect(c) \/ Refuse(c) \/ Receive(c) \/ StreamEnds(c)

-----------------------------------------------------------------------------

StreamNext ==
    \/ \E l \in Logs, t \in Times : WriteLog(l, t)
    \/ \E s \in {"running"} \cup TerminalStatuses : SetStatus(s)
    \/ \E c \in Readers :
          HandlerStep(c) \/ StreamExpires(c) \/ QueryFails(c) \/ ConnectionBreaks(c)
          \/ ClientStep(c)

StreamSpec == StreamInit /\ [][StreamNext]_streamVars

(* The handler's loop goes on.  The browser reads what it gets and, until  *)
(* it is closed, asks again, to be let in or refused.                      *)
StreamFairSpec == StreamSpec /\ \A c \in Readers : WF_streamVars(HandlerStep(c)) /\ WF_streamVars(ClientStep(c))

-----------------------------------------------------------------------------
(* Properties *)

(* The client shows the logs in their order, across all its connections,   *)
(* and one that was not written behind another is never skipped: it has    *)
(* everything up to the last log it was sent, whatever the batches, the    *)
(* equal times and the lost connections in between.                        *)
NothingSkipped ==
    \A c \in Readers :
        /\ \A i, j \in DOMAIN got[c] : i < j => Before(got[c][i], got[c][j])
        /\ \A l \in Written \ late :
              lastId[c] # NoLog /\ ~Before(lastId[c], l) => l \in LogsIn(got[c])

(* Every log reaches every client, unless it was late, or the client was   *)
(* told that the operation is over, was sent an error or was refused.      *)
LogsArrive ==
    \A c \in Readers, l \in Logs :
        l \in Written ~> l \in LogsIn(got[c]) \cup late \/ ended[c] \in Closings

(* With the operation over, every client gives up: it is told so, is sent  *)
(* an error or is refused, and does not ask for the stream for ever.       *)
StreamsClose == \A c \in Readers : status \in TerminalStatuses ~> ended[c] \in Closings

=============================================================================
