------------------------------ MODULE Streaming ------------------------------
(***************************************************************************)
(* The execution of a stream plan: StreamCoordinator (coordinator.rs) with *)
(* one task per session, StreamSender (sender.rs), StreamTransport         *)
(* (transport.rs) and the StreamReceiver of the peer (receiver.rs).        *)
(*                                                                         *)
(* Every chunk goes out on a connection of its own and nobody waits for    *)
(* its answer, so chunks and the message that closes the session arrive in *)
(* any order.  A send that fails may still have delivered its chunk.  The  *)
(* receiver handles its connections concurrently; a step of it is what     *)
(* happens under the lock of one buffer.                                   *)
(***************************************************************************)
EXTENDS Integers, FiniteSets

CONSTANTS
    Session,      \* the sessions of the plan, one per peer
    Transfer,
    Outgoing,     \* [Session -> the transfers sent to the peer]
    Incoming,     \* [Session -> the transfers requested from the peer]
    Chunks,       \* [Transfer -> the number of its chunks]
    MaxRetries    \* MAX_CHUNK_RETRIES, for all chunks of a transfer together

VARIABLES
    task,         \* [Session -> where the sending task is]
    future,       \* [Session -> the state its StreamResultFuture shows]
    sent,         \* the transfers all of whose chunks have been sent
    chunks,       \* chunks on their way
    completes,    \* sessions whose StreamComplete is on its way
    buffers,      \* [Transfer -> its ReceiveBuffer]; an empty one is none
    writing,      \* calls of handle_data that have assembled a transfer
    written,      \* [Transfer -> the chunks its SSTable at the peer was made of]
    spoiled       \* history: transfers that a fault or StreamComplete has hit

sending == <<task, future, sent>>
network == <<chunks, completes>>
receiving == <<buffers, writing, written>>

streams == <<sending, network, receiving, spoiled>>

NoTask == [at |-> "waiting", transfer |-> {}, seq |-> 0, retries |-> 0, ok |-> TRUE]

NoBuffer == [chunks |-> {}, expected_last |-> -1]

StreamingInit ==
    /\ task = [s \in Session |-> NoTask] /\ future = [s \in Session |-> "None"] /\ sent = {}
    /\ chunks = {} /\ completes = {}
    /\ buffers = [t \in Transfer |-> NoBuffer] /\ writing = {}
    /\ written = [t \in Transfer |-> {}] /\ spoiled = {}

-----------------------------------------------------------------------------
\* The coordinator and the sending task of a session.

\* StreamInit is answered, and the task is spawned; the peer accepts always.
InitAccepted(s) ==
    /\ task[s].at = "waiting"
    /\ task' = [task EXCEPT ![s].at = "next"]
    /\ future' = [future EXCEPT ![s] = "Streaming"]
    /\ UNCHANGED <<sent, network, receiving, spoiled>>

InitFails(s) ==
    /\ task[s].at = "waiting"
    /\ task' = [task EXCEPT ![s].at = "done"]
    /\ future' = [future EXCEPT ![s] = "Failed"]
    /\ UNCHANGED <<sent, network, receiving, spoiled>>

\* The next of the transfers, in the order of a map.
OpenSSTable(s, t) ==
    /\ task[s].at = "next" /\ t \in Outgoing[s] \ sent
    /\ task' = [task EXCEPT ![s] = [at |-> "send", transfer |-> {t}, seq |-> 0, retries |-> 0, ok |-> @.ok]]
    /\ UNCHANGED <<future, sent, network, receiving, spoiled>>

OpenFails(s) ==
    /\ task[s].at = "next" /\ Outgoing[s] \ sent # {}
    /\ task' = [task EXCEPT ![s] = [@ EXCEPT !.at = "complete", !.ok = FALSE]]
    /\ UNCHANGED <<future, sent, network, receiving, spoiled>>

\* The message of the chunk the task is at.  The retries tell its copies apart.
DataMessage(s, t) == [transfer |-> t, sequence |-> task[s].seq, copy |-> task[s].retries]

IsLast(m) == m.sequence = Chunks[m.transfer] - 1

SendData(s, t) ==
    LET m == DataMessage(s, t) IN
    /\ task[s].at = "send" /\ task[s].transfer = {t}
    /\ chunks' = chunks \cup {m}
    /\ IF IsLast(m)
       THEN /\ sent' = sent \cup {t}
            /\ task' = [task EXCEPT ![s] = [at |-> "next", transfer |-> {}, seq |-> 0, retries |-> 0, ok |-> @.ok]]
       ELSE task' = [task EXCEPT ![s].seq = @ + 1] /\ UNCHANGED sent
    /\ UNCHANGED <<future, completes, receiving, spoiled>>

CanRetry(retries) == retries < MaxRetries

\* The loop's own bound of attempts is never met: can_retry is false before.
RecordFailure(s) ==
    task' = [task EXCEPT ![s] =
              IF CanRetry(task[s].retries)
              THEN [@ EXCEPT !.retries = task[s].retries + 1]
              ELSE [@ EXCEPT !.at = "complete", !.ok = FALSE]]

SendDataFails(s, t) ==
    /\ task[s].at = "send" /\ task[s].transfer = {t}
    /\ chunks' \in {chunks, chunks \cup {DataMessage(s, t)}}
    /\ RecordFailure(s)
    /\ UNCHANGED <<future, sent, completes, receiving, spoiled>>

AllSent(s) ==
    /\ task[s].at = "next" /\ Outgoing[s] \subseteq sent
    /\ task' = [task EXCEPT ![s].at = "complete"]
    /\ UNCHANGED <<future, sent, network, receiving, spoiled>>

SendComplete(s) ==
    /\ task[s].at = "complete"
    /\ task' = [task EXCEPT ![s].at = "closing"]
    /\ completes' = completes \cup {s}
    /\ UNCHANGED <<future, sent, chunks, receiving, spoiled>>

\* The answer, or the end of the wait: send_complete's result is ignored.
CloseSession(s) ==
    /\ task[s].at = "closing"
    /\ task' = [task EXCEPT ![s].at = "done"]
    /\ future' = [future EXCEPT ![s] = IF task[s].ok THEN "Complete" ELSE "Failed"]
    /\ UNCHANGED <<sent, network, receiving, spoiled>>

-----------------------------------------------------------------------------
\* The receiver.

\* Mutant: the last chunk is expected to come last.
InsertedInOrder(b, m) ==
    [chunks |-> b.chunks \cup {m.sequence},
     expected_last |-> IF IsLast(m) /\ Cardinality(b.chunks) = m.sequence THEN m.sequence
                       ELSE b.expected_last]

\* What handle_data does to the buffer, a new one if there is none.
Inserted(b, m) ==
    [chunks |-> b.chunks \cup {m.sequence},
     expected_last |-> IF IsLast(m) THEN m.sequence ELSE b.expected_last]

\* Mutant: the last chunk stands for all.
IsCompleteByLast(b) == b.expected_last # -1 /\ b.expected_last \in b.chunks

IsComplete(b) ==
    /\ b.expected_last # -1
    /\ Cardinality(b.chunks) = b.expected_last + 1 /\ b.expected_last \in b.chunks

\* handle_data up to the release of the buffer's lock.
HandleData(m) ==
    LET b == Inserted(buffers[m.transfer], m) IN
    /\ m \in chunks
    /\ chunks' = chunks \ {m}
    /\ buffers' = [buffers EXCEPT ![m.transfer] = b]
    /\ writing' = IF IsComplete(b)
                  THEN writing \cup {[message |-> m, data |-> b.chunks, at |-> "write"]}
                  ELSE writing
    /\ UNCHANGED <<sending, completes, written, spoiled>>

\* The chunk is lost with its connection, or its checksum is wrong: the answer
\* that says so has no reader.
LoseData(m) ==
    /\ m \in chunks
    /\ chunks' = chunks \ {m}
    /\ spoiled' = spoiled \cup {m.transfer}
    /\ UNCHANGED <<sending, completes, receiving>>

WriteSSTable(h) ==
    /\ h \in writing /\ h.at = "write"
    /\ written' = [written EXCEPT ![h.message.transfer] = h.data]
    /\ writing' = (writing \ {h}) \cup {[h EXCEPT !.at = "remove"]}
    /\ UNCHANGED <<sending, network, buffers, spoiled>>

\* The buffer stays, and again the answer has no reader.
WriteFails(h) ==
    /\ h \in writing /\ h.at = "write"
    /\ writing' = writing \ {h}
    /\ spoiled' = spoiled \cup {h.message.transfer}
    /\ UNCHANGED <<sending, network, buffers, written>>

RemoveBuffer(h) ==
    /\ h \in writing /\ h.at = "remove"
    /\ buffers' = [buffers EXCEPT ![h.message.transfer] = NoBuffer]
    /\ writing' = writing \ {h}
    /\ UNCHANGED <<sending, network, written, spoiled>>

\* The transfers of s with chunks that have not been assembled.
Unassembled(s) ==
    {t \in Outgoing[s] :
        buffers[t] # NoBuffer /\ written[t] = {} /\ ~ \E h \in writing : h.message.transfer = t}

\* No session is registered with the peer's StreamManager: that part does nothing.
HandleComplete(s) ==
    /\ s \in completes
    /\ completes' = completes \ {s}
    /\ buffers' = [t \in Transfer |-> IF t \in Outgoing[s] THEN NoBuffer ELSE buffers[t]]
    /\ spoiled' = spoiled \cup Unassembled(s)
    /\ UNCHANGED <<sending, chunks, writing, written>>

LoseComplete(s) ==
    /\ s \in completes
    /\ completes' = completes \ {s}
    /\ UNCHANGED <<sending, chunks, receiving, spoiled>>

-----------------------------------------------------------------------------
Task(s) ==
    \/ InitAccepted(s) \/ InitFails(s) \/ OpenFails(s)
    \/ \E t \in Transfer : OpenSSTable(s, t) \/ SendData(s, t) \/ SendDataFails(s, t)
    \/ AllSent(s) \/ SendComplete(s) \/ CloseSession(s)

Receiver ==
    \/ \E m \in chunks : HandleData(m) \/ LoseData(m)
    \/ \E h \in writing : WriteSSTable(h) \/ WriteFails(h) \/ RemoveBuffer(h)
    \/ \E s \in completes : HandleComplete(s) \/ LoseComplete(s)

StreamingNext == Receiver \/ \E s \in Session : Task(s)

\* Spawned tasks run on, every send and every wait ends by its timeout, and what
\* is on its way arrives or is lost.  As the budget of retries bounds a session, it
\* is enough that something happens as long as anything can.
StreamingFairness == WF_streams(StreamingNext)

StreamingSpec == StreamingInit /\ [][StreamingNext]_streams /\ StreamingFairness

-----------------------------------------------------------------------------
Whole(t) == 0 .. Chunks[t] - 1

ChunkMessage == [transfer : Transfer, sequence : Nat, copy : 0 .. MaxRetries]

\* Every variable has its type; no transfer is retried more than MAX_CHUNK_RETRIES
\* times, and no chunk of it has more copies on the way (send_sstable).
StreamingTypeOK ==
    /\ task \in [Session ->
                  [at : {"waiting", "next", "send", "complete", "closing", "done"},
                   transfer : {{}} \cup {{t} : t \in Transfer}, seq : Nat,
                   retries : 0 .. MaxRetries, ok : BOOLEAN]]
    /\ future \in [Session -> {"None", "Streaming", "Complete", "Failed"}]
    /\ sent \subseteq Transfer /\ spoiled \subseteq Transfer /\ completes \subseteq Session
    /\ chunks \subseteq ChunkMessage
    /\ \A m \in chunks : m.sequence \in Whole(m.transfer)
    /\ \A t \in Transfer :
        buffers[t].chunks \subseteq Whole(t) /\ buffers[t].expected_last \in {-1, Chunks[t] - 1}
    /\ \A h \in writing : h.message \in ChunkMessage /\ h.at \in {"write", "remove"}

\* The peer writes no SSTable from a part of a transfer, though chunks arrive in any
\* order and more than once, and a StreamComplete that overtakes them empties the
\* buffer they are collected in (handle_data, handle_complete).
WholeSSTables == \A t \in Transfer : written[t] \in {{}, Whole(t)}

\* In the end every session of a plan is over, whatever fails and however often:
\* its future shows Complete or Failed and await_all returns.  And every transfer
\* whose chunks have all been sent is written by the peer, whatever the order of the
\* chunks, their copies and the concurrent calls of handle_data, unless a chunk or a
\* write of it failed or StreamComplete overtook a part of it.
StreamsSettle ==
    <>[]( /\ \A s \in Session : future[s] \in {"Complete", "Failed"}
          /\ \A t \in sent : written[t] = Whole(t) \/ t \in spoiled )

-----------------------------------------------------------------------------
\* What await_all and execute_stream_plan report to the repair.
SyncSucceeds == \A s \in Session : future[s] = "Complete"

\* A sync that is reported as successful has moved the data: what was to be sent
\* is at the peer.  Fails: no chunk is acknowledged.
SyncedIsWritten ==
    SyncSucceeds => \A s \in Session : \A t \in Outgoing[s] : written[t] = Whole(t)

\* The same of what was requested.  Fails: nobody sends it.
SyncedIsFetched ==
    SyncSucceeds => \A s \in Session : \A t \in Incoming[s] : written[t] = Whole(t)

\* A session that is over leaves no buffer behind at the peer.  Fails: a late chunk
\* opens one that nobody removes.
BuffersAreFreed ==
    (\A s \in Session : task[s].at = "done") /\ chunks = {} /\ completes = {} /\ writing = {}
      => buffers = [t \in Transfer |-> NoBuffer]
=============================================================================
