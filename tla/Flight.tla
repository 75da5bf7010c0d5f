-------------------------------- MODULE Flight --------------------------------
(***************************************************************************)
(* ReactFlightServer and ReactFlightClient: a request renders a model into *)
(* chunks, suspends on promises and streams rows to a destination that may *)
(* push back; the client stores the rows, and the components that read a   *)
(* chunk wait for its row, or for the code of its module.                  *)
(*                                                                         *)
(* A chunk is named by its ID, which is also the name of the component     *)
(* that reads it.  What is rendered is left open, and a model is no more   *)
(* than the chunks it refers to, by value (`$') or lazily (`@').           *)
(***************************************************************************)
EXTENDS Integers, SequencesExt

CONSTANTS
    MaxChunks,    \* bound on the chunks of the request
    MaxRetries,   \* bound on the segments that suspend again at once
    Fails         \* may the connection fail?

ASSUME FlightAssumption ==
    MaxChunks \in Nat \ {0} /\ MaxRetries \in Nat /\ Fails \in BOOLEAN

VARIABLES
    chunk,            \* what the server knows of each chunk
    nextChunkId, pendingChunks,
    suspended,        \* the segments that wait for a promise
    pingedSegments,
    work, working,    \* the segments performWork has taken, and does it run?
    running,          \* the segment it renders, NoChunk outside of retrySegment
    scheduled,        \* how many performWork the host has been asked for
    completedModuleChunks, completedJSONChunks, completedErrorChunks,
    piped, flowing,   \* was pipe called, and is request.destination set?
    ended,            \* was the destination ended?
    wire,             \* the rows that were written
    received,         \* how many of them the client has processed
    connection,       \* "open", or how it came to an end
    status,           \* _status of the chunks of the response, "absent" outside of it
    listeners,        \* the components in _value of a chunk that is pending
    code,             \* the entry of a module's code in chunkCache
    reader, awaits,   \* what a component does, and the chunk it waits for
    retries           \* how often a segment suspended again

renderVars == <<chunk, nextChunkId, pendingChunks, suspended, running, retries>>
taskVars == <<pingedSegments, work, working, scheduled>>
completedVars == <<completedModuleChunks, completedJSONChunks, completedErrorChunks>>
destinationVars == <<piped, flowing, ended, wire>>
responseVars == <<status, listeners, code>>
readerVars == <<reader, awaits>>
serverVars == <<renderVars, taskVars, completedVars, destinationVars>>
clientVars == <<received, connection, responseVars, readerVars>>
vars == <<serverVars, clientVars>>

Chunks == 0..(MaxChunks - 1)
RootChunk == 0
NoChunk == -1

NewChunk(kind) == [kind |-> kind, values |-> {}, lazies |-> {}]

(* createRequest and startWork on the server, createResponse on the client *)
Init ==
    /\ chunk = [c \in Chunks |-> NewChunk(IF c = RootChunk THEN "model" ELSE "none")]
    /\ nextChunkId = 1 /\ pendingChunks = 1
    /\ suspended = {} /\ pingedSegments = <<RootChunk>>
    /\ work = << >> /\ working = FALSE
    /\ running = NoChunk /\ scheduled = 1 /\ retries = 0
    /\ completedModuleChunks = << >> /\ completedJSONChunks = << >>
    /\ completedErrorChunks = << >>
    /\ piped = FALSE /\ flowing = FALSE /\ ended = FALSE /\ wire = << >>
    /\ received = 0 /\ connection = "open"
    /\ status = [c \in Chunks |-> "absent"] /\ listeners = [c \in Chunks |-> {}]
    /\ code = [c \in Chunks |-> "none"]
    /\ reader = [c \in Chunks |-> "idle"] /\ awaits = [c \in Chunks |-> NoChunk]

-----------------------------------------------------------------------------
(* The server: resolveModelToJSON, one value of the model at a time.       *)

(* A new chunk, to which the running segment refers.                       *)
Refer(kind, how) ==
    /\ running # NoChunk /\ nextChunkId \in Chunks
    /\ chunk' = [chunk EXCEPT
         ![running].values = IF how = "value" THEN @ \cup {nextChunkId} ELSE @,
         ![running].lazies = IF how = "lazy" THEN @ \cup {nextChunkId} ELSE @,
         ![nextChunkId] = NewChunk(kind)]
    /\ nextChunkId' = nextChunkId + 1 /\ pendingChunks' = pendingChunks + 1
    /\ UNCHANGED <<running, retries, taskVars, destinationVars, clientVars>>

(* A server component suspends: the rest of it is a segment of its own.    *)
ElementSuspends ==
    /\ Refer("model", "lazy")
    /\ suspended' = suspended \cup {nextChunkId}
    /\ UNCHANGED completedVars

(* emitErrorChunk for a component that throws, or for a module that cannot *)
(* be resolved                                                             *)
ElementThrows ==
    /\ \E how \in {"lazy", "value"} : Refer("error", how)
    /\ completedErrorChunks' = Append(completedErrorChunks, nextChunkId)
    /\ UNCHANGED <<suspended, completedModuleChunks, completedJSONChunks>>

(* emitModuleChunk and emitSymbolChunk, for what was not written before    *)
ReferToModule ==
    /\ \E how \in {"lazy", "value"} : Refer("module", how)
    /\ completedModuleChunks' = Append(completedModuleChunks, nextChunkId)
    /\ UNCHANGED <<suspended, completedJSONChunks, completedErrorChunks>>

ReferToSymbol ==
    /\ Refer("symbol", "value")
    /\ completedModuleChunks' = Append(completedModuleChunks, nextChunkId)
    /\ UNCHANGED <<suspended, completedJSONChunks, completedErrorChunks>>

(* writtenModules and writtenSymbols know the chunk.                       *)
ReferAgain ==
    /\ running # NoChunk
    /\ \E c \in 0..(nextChunkId - 1) :
          \/ /\ chunk[c].kind \in {"module", "symbol"}
             /\ chunk' = [chunk EXCEPT ![running].values = @ \cup {c}]
          \/ /\ chunk[c].kind = "module"
             /\ chunk' = [chunk EXCEPT ![running].lazies = @ \cup {c}]
    /\ UNCHANGED <<nextChunkId, pendingChunks, suspended, running, retries, taskVars,
                   completedVars, destinationVars, clientVars>>

(* The end of retrySegment: the row is complete, it is an error after all, *)
(* or the segment waits once more.                                         *)
FinishSegment ==
    /\ running # NoChunk /\ running' = NoChunk
    /\ completedJSONChunks' = Append(completedJSONChunks, running)
    /\ UNCHANGED <<chunk, nextChunkId, pendingChunks, suspended, retries, taskVars,
                   completedModuleChunks, completedErrorChunks, destinationVars, clientVars>>

SegmentThrows ==
    /\ running # NoChunk /\ running' = NoChunk
    /\ chunk' = [chunk EXCEPT ![running] = NewChunk("error")]
    /\ completedErrorChunks' = Append(completedErrorChunks, running)
    /\ UNCHANGED <<nextChunkId, pendingChunks, suspended, retries, taskVars,
                   completedModuleChunks, completedJSONChunks, destinationVars, clientVars>>

SuspendAgain ==
    /\ running # NoChunk /\ chunk[running] = NewChunk("model") /\ running' = NoChunk
    /\ retries < MaxRetries /\ retries' = retries + 1
    /\ suspended' = suspended \cup {running}
    /\ UNCHANGED <<chunk, nextChunkId, pendingChunks, taskVars, completedVars,
                   destinationVars, clientVars>>

Render == \/ ElementSuspends \/ ElementThrows \/ ReferToModule \/ ReferToSymbol
          \/ ReferAgain \/ FinishSegment \/ SegmentThrows \/ SuspendAgain

-----------------------------------------------------------------------------
(* The server: performWork, pings and flushes.                             *)

Idle == ~working

(* flushCompletedChunks.  The destination has room for some chunks; one    *)
(* that is refused was written all the same, and the next queue begins     *)
(* nevertheless.                                                           *)
WrittenOf(queue, room) == IF Len(queue) <= room THEN Len(queue) ELSE room + 1
RoomAfter(queue, room) == IF Len(queue) <= room THEN room - Len(queue) ELSE 0

UpTo(s, n) == SubSeq(s, 1, n)
After(s, n) == SubSeq(s, n + 1, Len(s))

CountOnlyModels(pending, modules, models, errors) == pending - models   \* mutant

ChunksLeft(pending, modules, models, errors) == pending - modules - models - errors

NothingToWrite(pending) ==   \* mutant
    completedModuleChunks' \o completedJSONChunks' \o completedErrorChunks' = << >>

AllWritten(pending) == pending = 0

FlushCompletedChunks ==
    \E room \in 0..pendingChunks :
        LET roomJSON == RoomAfter(completedModuleChunks, room)
            roomError == RoomAfter(completedJSONChunks, roomJSON)
            m == WrittenOf(completedModuleChunks, room)
            j == WrittenOf(completedJSONChunks, roomJSON)
            e == WrittenOf(completedErrorChunks, roomError)
            pending == ChunksLeft(pendingChunks, m, j, e)
        IN
        /\ wire' = wire \o UpTo(completedModuleChunks, m) \o UpTo(completedJSONChunks, j)
                        \o UpTo(completedErrorChunks, e)
        /\ completedModuleChunks' = After(completedModuleChunks, m)
        /\ completedJSONChunks' = After(completedJSONChunks, j)
        /\ completedErrorChunks' = After(completedErrorChunks, e)
        /\ pendingChunks' = pending
        /\ flowing' = (m + j + e <= room)
        /\ ended' = (ended \/ AllWritten(pending))

(* performWork takes the pinged segments, ...                              *)
PerformWork ==
    /\ Idle /\ scheduled > 0
    /\ scheduled' = scheduled - 1 /\ working' = TRUE
    /\ work' = pingedSegments /\ pingedSegments' = << >>
    /\ UNCHANGED <<renderVars, completedVars, destinationVars, clientVars>>

(* ... retries one after the other, and flushes at the end.                *)
RetrySegment ==
    /\ running = NoChunk /\ work # << >>
    /\ running' = Head(work) /\ work' = Tail(work)
    /\ UNCHANGED <<chunk, nextChunkId, pendingChunks, suspended, retries, pingedSegments,
                   working, scheduled, completedVars, destinationVars, clientVars>>

FinishWork ==
    /\ working /\ running = NoChunk /\ work = << >>
    /\ working' = FALSE
    /\ \/ flowing /\ FlushCompletedChunks
       \/ ~flowing /\ UNCHANGED <<pendingChunks, completedVars, flowing, ended, wire>>
    /\ UNCHANGED <<chunk, nextChunkId, suspended, running, retries, pingedSegments, work,
                   scheduled, piped, clientVars>>

NoWork == scheduled   \* mutant
AlwaysSchedule == scheduled + 1   \* mutant

ScheduleWork ==
    IF pingedSegments = << >> THEN scheduled + 1 ELSE scheduled

(* pingSegment                                                             *)
PingSegment(c) ==
    /\ Idle /\ c \in suspended
    /\ suspended' = suspended \ {c}
    /\ pingedSegments' = Append(pingedSegments, c)
    /\ scheduled' = ScheduleWork
    /\ UNCHANGED <<chunk, nextChunkId, pendingChunks, running, retries, work, working,
                   completedVars, destinationVars, clientVars>>

(* startFlowing, called by pipe and when the destination has drained       *)
StartFlowing ==
    /\ FlushCompletedChunks
    /\ UNCHANGED <<chunk, nextChunkId, suspended, running, retries, taskVars, clientVars>>

Pipe == Idle /\ ~piped /\ piped' = TRUE /\ StartFlowing

Drain == Idle /\ piped /\ ~flowing /\ ~ended /\ StartFlowing /\ UNCHANGED piped

-----------------------------------------------------------------------------
(* The client: rows.                                                       *)

Awake(set) == [c \in Chunks |-> IF c \in set THEN "reading" ELSE reader[c]]
NotWaiting(set) == [c \in Chunks |-> IF c \in set THEN NoChunk ELSE awaits[c]]

ForgetListeners(set) ==   \* mutant
    /\ listeners' = [c \in Chunks |-> IF c \in set THEN {} ELSE listeners[c]]
    /\ UNCHANGED readerVars

(* wakeChunk: the components that wait for a chunk of the set read again.  *)
WakeChunks(set) ==
    LET woken == UNION {listeners[c] : c \in set}
    IN  /\ listeners' = [c \in Chunks |-> IF c \in set THEN {} ELSE listeners[c]]
        /\ reader' = Awake(woken) /\ awaits' = NotWaiting(woken)

(* resolveModel, resolveModule and resolveError: a chunk that was resolved *)
(* before is left alone.                                                   *)
Resolve(c, how) ==
    IF status[c] \in {"absent", "pending"}
    THEN status' = [status EXCEPT ![c] = how] /\ WakeChunks({c})
    ELSE UNCHANGED <<status, listeners, readerVars>>

(* resolveSymbol puts a new chunk in the place of the old one.             *)
ResolveSymbol(c) ==
    /\ status' = [status EXCEPT ![c] = "initialized"]
    /\ listeners' = [listeners EXCEPT ![c] = {}]
    /\ UNCHANGED <<code, readerVars>>

(* processFullRow: the row of chunk c                                      *)
ProcessFullRow ==
    LET c == wire[received + 1]
        kind == chunk[c].kind
    IN
    /\ connection = "open" /\ received < Len(wire)
    /\ received' = received + 1
    /\ \/ /\ kind = "model"
          /\ Resolve(c, "model") /\ UNCHANGED code
       \/ /\ kind = "error"
          /\ Resolve(c, "errored") /\ UNCHANGED code
       \/ /\ kind = "symbol"
          /\ ResolveSymbol(c)
       \/ /\ kind = "module" /\ Resolve(c, "module")
          /\ code' = [code EXCEPT ![c] = "loading"]
    /\ UNCHANGED <<serverVars, connection>>

(* The chunks that triggerErrorOnChunk does not leave alone                *)
AllChunks == {c \in Chunks : status[c] \notin {"absent"}}   \* mutant

PendingChunks == {c \in Chunks : status[c] = "pending"}

(* reportGlobalError, when the stream ends (close) or fails                *)
ReportGlobalError ==
    /\ status' = [c \in Chunks |-> IF c \in PendingChunks THEN "errored" ELSE status[c]]
    /\ WakeChunks(PendingChunks)

Close ==
    /\ connection = "open" /\ ended /\ received = Len(wire)
    /\ connection' = "closed"
    /\ ReportGlobalError
    /\ UNCHANGED <<serverVars, received, code>>

ConnectionFails ==
    /\ Fails /\ connection = "open"
    /\ connection' = "failed"
    /\ ReportGlobalError
    /\ UNCHANGED <<serverVars, received, code>>

-----------------------------------------------------------------------------
(* The client: components.                                                 *)

(* readRoot is called for the first time.                                  *)
ReadRoot ==
    /\ reader[RootChunk] = "idle"
    /\ reader' = [reader EXCEPT ![RootChunk] = "reading"]
    /\ UNCHANGED <<serverVars, received, connection, responseVars, awaits>>

Reading(c) == reader[c] = "reading" /\ UNCHANGED <<serverVars, received, connection, code>>

(* The component has what it reads and renders the lazy ones in it.        *)
Done(c, lazies) ==
    reader' = [d \in Chunks |->
                 IF d = c THEN "done"
                 ELSE IF d \in lazies /\ reader[d] = "idle" THEN "reading" ELSE reader[d]]

(* requireModule finds the code loaded, or the error of loading it.        *)
Required(t, how) == status[t] = "module" /\ code[t] = how
Readable(t) == status[t] = "initialized" \/ Required(t, "loaded")
Broken(t) == status[t] = "errored" \/ Required(t, "failed")

(* Chunk t cannot be read now: the component throws the error, or waits    *)
(* for the chunk or for the code of its module.  map is the status of the  *)
(* chunks without that.                                                    *)
Blocked(c, t, map) ==
    \/ /\ status[t] \in {"absent", "pending"}
       /\ status' = [map EXCEPT ![t] = "pending"]
       /\ listeners' = [listeners EXCEPT ![t] = @ \cup {c}]
       /\ reader' = [reader EXCEPT ![c] = "waiting"] /\ awaits' = [awaits EXCEPT ![c] = t]
    \/ /\ Required(t, "loading")
       /\ status' = map /\ UNCHANGED listeners
       /\ reader' = [reader EXCEPT ![c] = "waiting"] /\ awaits' = [awaits EXCEPT ![c] = t]
    \/ /\ Broken(t)
       /\ status' = map /\ UNCHANGED <<listeners, awaits>>
       /\ reader' = [reader EXCEPT ![c] = "error"]

(* What parsing a model does to the chunks in set: getChunk makes pending  *)
(* ones, and readChunk initializes the modules that are read by value.     *)
Touched(values, lazies) ==
    [t \in Chunks |-> IF t \in values THEN "initialized"
                      ELSE IF t \in lazies /\ status[t] = "absent" THEN "pending"
                      ELSE status[t]]

(* readChunk, of a chunk that is not a model yet to be parsed              *)
ReadChunk(c) ==
    /\ Reading(c) /\ status[c] # "model"
    /\ \/ /\ Readable(c)
          /\ status' = [status EXCEPT ![c] = "initialized"] /\ UNCHANGED <<listeners, awaits>>
          /\ Done(c, IF chunk[c].kind = "model" THEN chunk[c].lazies ELSE {})
       \/ Blocked(c, c, status)

(* initializeModelChunk: the values are read as they are met.              *)
InitializeModelChunk(c) ==
    LET values == chunk[c].values
        lazies == chunk[c].lazies
        blocking == {t \in values : ~Readable(t)}
    IN
    /\ Reading(c) /\ status[c] = "model"
    /\ \/ /\ blocking = {}
          /\ status' = [Touched(values, lazies) EXCEPT ![c] = "initialized"]
          /\ Done(c, lazies) /\ UNCHANGED <<listeners, awaits>>
       \/ \E t \in blocking, v \in SUBSET (values \ blocking), l \in SUBSET lazies :
             Blocked(c, t, Touched(v, l))

(* The code of a module arrives, or not, and whoever waits for it is told. *)
LoadModule(c) ==
    LET woken == {d \in Chunks : reader[d] = "waiting" /\ awaits[d] = c}
    IN
    /\ code[c] = "loading"
    /\ \E how \in {"loaded", "failed"} : code' = [code EXCEPT ![c] = how]
    /\ reader' = Awake(woken) /\ awaits' = NotWaiting(woken)
    /\ UNCHANGED <<serverVars, received, connection, status, listeners>>

Server == Render \/ PerformWork \/ RetrySegment \/ FinishWork
Receive == ProcessFullRow \/ Close
Read == \E c \in Chunks : ReadChunk(c) \/ InitializeModelChunk(c)

Next == \/ Server \/ Pipe \/ Drain \/ Receive \/ Read
        \/ ReadRoot \/ ConnectionFails
        \/ \E c \in Chunks : PingSegment(c) \/ LoadModule(c)

Spec == Init /\ [][Next]_vars

(* JavaScript runs on, promises settle, a destination that is full drains, *)
(* and what was sent arrives.                                              *)
FairSpec ==
    /\ Spec
    /\ WF_vars(Server) /\ WF_vars(Drain) /\ WF_vars(Receive) /\ WF_vars(Read)
    /\ \A c \in Chunks : WF_vars(PingSegment(c)) /\ WF_vars(LoadModule(c))


-----------------------------------------------------------------------------
(* Properties.                                                             *)

Issued == 0..(nextChunkId - 1)
Current == {running} \ {NoChunk}
Queued == pingedSegments \o work \o completedModuleChunks \o completedJSONChunks
          \o completedErrorChunks \o wire

(* The variables of the request *)
ServerTypeOK ==
    /\ chunk \in [Chunks -> [kind : {"none", "model", "error", "module", "symbol"},
                             values : SUBSET Chunks, lazies : SUBSET Chunks]]
    /\ nextChunkId \in 1..MaxChunks /\ pendingChunks \in 0..MaxChunks
    /\ suspended \subseteq Issued /\ running \in Issued \cup {NoChunk}
    /\ \A q \in {pingedSegments, work, completedModuleChunks, completedJSONChunks,
               completedErrorChunks, wire} : q \in Seq(Issued)
    /\ scheduled \in 0..1 /\ working \in BOOLEAN /\ retries \in 0..MaxRetries
    /\ piped \in BOOLEAN /\ flowing \in BOOLEAN /\ ended \in BOOLEAN

(* ... and of the response and the components *)
ClientTypeOK ==
    /\ received \in 0..Len(wire) /\ connection \in {"open", "closed", "failed"}
    /\ status \in [Chunks -> {"absent", "pending", "model", "module", "initialized",
                              "errored"}]
    /\ listeners \in [Chunks -> SUBSET Chunks]
    /\ code \in [Chunks -> {"none", "loading", "loaded", "failed"}]
    /\ reader \in [Chunks -> {"idle", "reading", "waiting", "done", "error"}]
    /\ awaits \in [Chunks -> Chunks \cup {NoChunk}]

(* The variables of the request, the response and the components have the  *)
(* values the code gives them.                                             *)
TypeOK == ServerTypeOK /\ ClientTypeOK

(* Each chunk that was given an ID is in one place: its promise, a queue   *)
(* of performWork, the hands of retrySegment, a queue of completed chunks  *)
(* or the stream.  pendingChunks counts those that were not written yet,   *)
(* so no row is lost or written twice, however often the destination       *)
(* refuses one, and the stream ends at the last.                           *)
ChunksExact ==
    /\ ToSet(Queued) \cup suspended \cup Current = Issued
    /\ Len(Queued) + Cardinality(suspended) + Cardinality(Current) = nextChunkId
    /\ pendingChunks = nextChunkId - Len(wire)

(* A component that waits will be told: it listens to the chunk it waits   *)
(* for, or to the code of its module.  The exception is a component that   *)
(* read a symbol before its row, which resolveSymbol forgets (LostSymbol). *)
LostSymbol(c) ==
    /\ reader[c] = "waiting" /\ chunk[awaits[c]].kind = "symbol"
    /\ status[awaits[c]] = "initialized"

WaitersWake ==
    \A c \in Chunks : reader[c] = "waiting" =>
        \/ status[awaits[c]] = "pending" /\ c \in listeners[awaits[c]]
        \/ Required(awaits[c], "loading")
        \/ LostSymbol(c)

(* An error the client reports is one that happened: a component threw on  *)
(* the server, code could not be loaded or the connection failed.  In      *)
(* particular close, which reports an error to every pending chunk, finds  *)
(* none that the server still had to write.                                *)
ErrorsAreReal ==
    connection # "failed" =>
        \A c \in Chunks :
            /\ status[c] = "errored" => chunk[c].kind = "error"
            /\ reader[c] = "error" =>
                  \E t \in chunk[c].values \cup {c} :
                      chunk[t].kind = "error" \/ code[t] = "failed"

(* A chunk is resolved at most once: its status never goes back, and what  *)
(* was resolved is not taken away by an error of the whole response.       *)
Rank(s) == CASE s = "absent" -> 0 [] s = "pending" -> 1
             [] s \in {"model", "module"} -> 2 [] OTHER -> 3

ChunkProtocol ==
    [][\A c \in Chunks : status'[c] # status[c] => Rank(status'[c]) > Rank(status[c])]_vars

(* Once the stream has a destination, every component that reads a chunk   *)
(* has it, or an error, in the end, unless it lost a symbol.               *)
AllRead ==
    \A c \in Chunks :
        (piped /\ reader[c] \in {"reading", "waiting"}) ~>
            (reader[c] \in {"done", "error"} \/ connection = "failed" \/ LostSymbol(c))

(* reportGlobalError: "Report that any missing chunks in the model is now  *)
(* going to throw this error upon read."                                   *)
FailureReported ==
    connection = "failed" =>
        \A c \in Chunks : reader[c] = "waiting" => status[awaits[c]] # "pending"
=============================================================================
