----------------------------- MODULE Transport -----------------------------
(***************************************************************************)
(* One server-sent-events transport (transport/base.py, transport/sse.py): *)
(* its connection, the task that reads the event stream and reconnects,    *)
(* and the requests that wait for an answer.                               *)
(*                                                                         *)
(* Nothing in the repository hands what receive_messages() yields to       *)
(* _handle_message(), so an answer reaches its caller only where a user of *)
(* the class does it: `reader` is that user, absent or not from the start. *)
(* connect() and disconnect() are called one at a time, as the lock of the *)
(* MCP server manager has it.  The wait for an answer is that of Python    *)
(* 3.12, where the timer may win over an answer that has just come.        *)
(***************************************************************************)
EXTENDS Naturals, Sequences, SequencesExt

CONSTANTS
    Request,        \* the requests sent, each with the id it is given
    Timed,          \* those that were given a time-out: by default there is none
    ServerCall,     \* a request or notification from the other side
    MaxAttempts,    \* _max_reconnect_attempts
    MaxQueue        \* bound: events waiting in _event_queue

ASSUME TransportAssumption ==
    MaxAttempts \in Nat /\ MaxQueue \in Nat /\ ServerCall \notin Request /\ Timed \subseteq Request

VARIABLES
    link,       \* ConnectionState of the transport
    session,    \* the HTTP session
    sse,     \* what _sse_loop() is doing
    attempts,   \* _reconnect_attempts
    dialing,    \* a connect() is in its wait of half a second
    events,     \* _event_queue
    reader,     \* the user of receive_messages()
    call,       \* what the caller of each request is doing or got
    future,     \* the future of each request
    pending     \* the keys of _pending_responses

linkVars == <<link, session, sse, attempts, dialing>>
callVars == <<call, future, pending>>
transportVars == <<linkVars, callVars, events, reader>>

Links == {"disconnected", "connecting", "connected", "closing", "closed", "error"}
Live == {"opening", "reading", "backoff"}
Ended == {"result", "failed", "timeout", "cancelled"}

TransportTypeOK ==
    /\ link \in Links /\ session \in {"none", "open", "closed"}
    /\ sse \in Live \cup {"none", "ending", "done"}
    /\ attempts \in 0 .. MaxAttempts /\ dialing \in BOOLEAN
    /\ events \in Seq(Request \cup {ServerCall}) /\ Len(events) <= MaxQueue
    /\ reader \in {"absent", "reading", "raised"}
    /\ call \in [Request -> Ended \cup {"idle", "sending", "waiting", "expiring"}]
    /\ future \in [Request -> {"none", "pending", "result", "cancelled"}]
    /\ pending \subseteq Request

TransportInit ==
    /\ link = "disconnected" /\ session = "none" /\ sse = "none" /\ attempts = 0 /\ dialing = FALSE
    /\ events = <<>> /\ reader \in {"absent", "reading"}
    /\ call = [r \in Request |-> "idle"] /\ future = [r \in Request |-> "none"] /\ pending = {}

-----------------------------------------------------------------------------
(* connect() and disconnect() *)

Shut == IF session = "none" THEN "none" ELSE "closed"

Connect ==
    /\ ~dialing /\ link \in {"disconnected", "closed", "error"}
    /\ link' = "connecting" /\ session' = "open" /\ sse' = "opening" /\ dialing' = TRUE
    /\ UNCHANGED <<attempts, callVars, events, reader>>

\* The HTTP session cannot be made; one that is left from before is closed.
ConnectFails ==
    /\ ~dialing /\ link \in {"disconnected", "closed", "error"}
    /\ link' = "error" /\ session' = Shut
    /\ UNCHANGED <<sse, attempts, dialing, callVars, events, reader>>

\* It returns without an error whatever the state is by then.
ConnectEnds ==
    /\ dialing /\ dialing' = FALSE
    /\ link' = IF link = "connecting" THEN "connected" ELSE link
    /\ UNCHANGED <<session, sse, attempts, callVars, events, reader>>

Disconnect ==
    /\ link \in {"connecting", "connected", "error"}
    /\ link' = "closing"
    /\ sse' = IF sse \in Live THEN "ending" ELSE sse
    /\ UNCHANGED <<session, attempts, dialing, callVars, events, reader>>

\* Mutant: the table is emptied before the futures in it are cancelled.
AbandonedUnsettled == future

\* _handle_close(): who waits is cancelled, and the table emptied.
Abandoned == [r \in Request |-> IF r \in pending /\ future[r] = "pending" THEN "cancelled" ELSE future[r]]

HandleClose ==
    /\ link = "closing" /\ sse # "ending"
    /\ session' = Shut /\ link' = "closed"
    /\ future' = Abandoned /\ pending' = {}
    /\ UNCHANGED <<sse, attempts, dialing, call, events, reader>>

\* The HTTP session cannot be closed: nobody in the table is told.
DisconnectFails ==
    /\ link = "closing" /\ sse # "ending" /\ session = "open" /\ link' = "error"
    /\ UNCHANGED <<session, sse, attempts, dialing, callVars, events, reader>>

-----------------------------------------------------------------------------
(* _sse_loop() *)

Opened ==
    /\ sse = "opening" /\ sse' = "reading" /\ attempts' = 0
    /\ UNCHANGED <<link, session, dialing, callVars, events, reader>>

\* A line read before connect() has returned ends the stream, which is opened
\* again; so does its end.
StreamEnds ==
    /\ sse = "reading" /\ sse' = "opening"
    /\ UNCHANGED <<link, session, attempts, dialing, callVars, events, reader>>

\* An error: wait twice as long as the last time, or give up.
StreamFails ==
    /\ sse \in {"opening", "reading"}
    /\ \/ attempts < MaxAttempts /\ attempts' = attempts + 1 /\ sse' = "backoff" /\ UNCHANGED link
       \/ attempts = MaxAttempts /\ link' = "error" /\ sse' = "done" /\ UNCHANGED attempts
    /\ UNCHANGED <<session, dialing, callVars, events, reader>>

Retry ==
    /\ sse = "backoff" /\ sse' = "opening"
    /\ UNCHANGED <<link, session, attempts, dialing, callVars, events, reader>>

StreamEnded ==
    /\ sse = "ending" /\ sse' = "done"
    /\ UNCHANGED <<link, session, attempts, dialing, callVars, events, reader>>

\* An event: the answer to a request that was sent, perhaps not for the first
\* time, or a call of the server.
Event(e) ==
    /\ sse = "reading" /\ link = "connected" /\ Len(events) < MaxQueue
    /\ e \in Request => call[e] # "idle"
    /\ events' = Append(events, e)
    /\ UNCHANGED <<linkVars, callVars, reader>>

-----------------------------------------------------------------------------
(* receive_messages() and _handle_message() *)

\* An answer to a request that is not in the table is neither an answer nor a
\* call, and is dropped; one to a future that was cancelled raises.  The reply
\* to a call raises when the POST fails.
HandleMessage ==
    /\ reader = "reading" /\ link = "connected" /\ events # <<>>
    /\ events' = Tail(events)
    /\ LET r == Head(events)
       IN IF r = ServerCall
            THEN reader' \in {"reading", "raised"} /\ UNCHANGED callVars
            ELSE IF r \in pending
                   THEN /\ pending' = pending \ {r}
                        /\ future' = [future EXCEPT ![r] = IF @ = "pending" THEN "result" ELSE @]
                        /\ reader' = IF future[r] = "pending" THEN reader ELSE "raised"
                        /\ UNCHANGED call
                   ELSE UNCHANGED <<callVars, reader>>
    /\ UNCHANGED linkVars

-----------------------------------------------------------------------------
(* request() *)

\* The future is registered; send_message() refuses unless connected.
MakeRequest(r) ==
    /\ call[r] = "idle"
    /\ IF link = "connected"
         THEN call' = [call EXCEPT ![r] = "sending"] /\ pending' = pending \cup {r}
              /\ future' = [future EXCEPT ![r] = "pending"]
         ELSE call' = [call EXCEPT ![r] = "failed"] /\ UNCHANGED <<future, pending>>
    /\ UNCHANGED <<linkVars, events, reader>>

SendEnds(r) ==
    /\ call[r] = "sending"
    /\ \/ call' = [call EXCEPT ![r] = "waiting"] /\ UNCHANGED <<future, pending>>
       \/ call' = [call EXCEPT ![r] = "failed"] /\ pending' = pending \ {r}
          /\ future' = [future EXCEPT ![r] = IF @ = "pending" THEN "none" ELSE @]
    /\ UNCHANGED <<linkVars, events, reader>>

\* asyncio.wait_for(): the timer cancels the future ...
Expire(r) ==
    /\ r \in Timed /\ call[r] = "waiting" /\ future[r] \in {"pending", "result"}
    /\ call' = [call EXCEPT ![r] = "expiring"]
    /\ future' = [future EXCEPT ![r] = IF @ = "pending" THEN "cancelled" ELSE @]
    /\ UNCHANGED <<linkVars, pending, events, reader>>

\* Mutant: the caller looks at the answer only.
AwakeAnswered(r) ==
    /\ call[r] = "waiting" /\ future[r] = "result"
    /\ call' = [call EXCEPT ![r] = "result"]
    /\ UNCHANGED <<linkVars, pending, future, events, reader>>

\* ... and the caller, when it runs again, takes it out of the table.  A future
\* that the close cancelled raises CancelledError in the caller.
Awake(r) ==
    /\ \/ call[r] = "waiting" /\ future[r] \in {"result", "cancelled"}
          /\ call' = [call EXCEPT ![r] = future[r]] /\ UNCHANGED pending
       \/ call[r] = "expiring"
          /\ call' = [call EXCEPT ![r] = "timeout"] /\ pending' = pending \ {r}
    /\ UNCHANGED <<linkVars, future, events, reader>>

\* The task of the caller is cancelled: its entry stays in the table.
CancelCaller(r) ==
    /\ call[r] \in {"sending", "waiting"}
    /\ call' = [call EXCEPT ![r] = "cancelled"]
    /\ future' = [future EXCEPT ![r] = IF @ = "pending" THEN "cancelled" ELSE @]
    /\ UNCHANGED <<linkVars, pending, events, reader>>

Waits(r) == SendEnds(r) \/ Expire(r) \/ Awake(r)

TransportNext ==
    \/ Connect \/ ConnectFails \/ ConnectEnds \/ Disconnect \/ DisconnectFails \/ HandleClose
    \/ Opened \/ StreamEnds \/ StreamFails \/ Retry \/ StreamEnded
    \/ \E e \in Request \cup {ServerCall} : Event(e)
    \/ HandleMessage
    \/ \E r \in Request : MakeRequest(r) \/ Waits(r) \/ CancelCaller(r)

\* The POST ends (the session has a time-out), the time-out of a request that
\* has one comes, and who may go on does.
TransportFairness == \A r \in Request : WF_transportVars(Waits(r))

-----------------------------------------------------------------------------
\* A transport that is connected has a task that reads or reconnects, and one
\* that is closed has no task, no open session and nobody in its table.  Who
\* waits for an answer that has not come is in the table, where the answer or
\* the close finds it, and what is in the table has not been answered.
TransportInv ==
    /\ link = "connected" => sse \in Live /\ session = "open"
    /\ link = "closed" => sse \in {"none", "done"} /\ session # "open" /\ pending = {}
    /\ link = "error" => sse \in {"none", "done"}
    /\ \A r \in Request : future[r] = "pending" => r \in pending
    /\ \A r \in pending : future[r] \in {"pending", "cancelled"} /\ call[r] \in {"sending", "waiting", "expiring", "cancelled"}

\* Every request with a time-out ends: with the answer, an error, the time-out
\* or a cancellation, also when the transport is closed or gives up while it
\* waits.  One without a time-out may wait for ever, but only while the transport
\* has not been closed and an answer would still find it.
RequestsEnd ==
    \A r \in Request :
        call[r] # "idle" ~>
            \/ call[r] \in Ended
            \/ r \notin Timed /\ call[r] = "waiting" /\ future[r] = "pending" /\ r \in pending /\ link # "closed"

\* No message makes the reader raise.  The code does not keep it: an answer to
\* a request whose caller was cancelled or has just timed out does.
ReaderSurvives == reader # "raised"
=============================================================================
