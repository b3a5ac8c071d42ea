------------------------------ MODULE Transfer ------------------------------
(* Downloads of one file over an acknowledged stream between two nodes: the *)
(* source reads the file in a thread, its dispatcher fills a pipe and its   *)
(* pump sends a batch of chunks per acknowledgement (memory.py); the reader *)
(* of the receiving node feeds the stream's pipe and waits when it is full  *)
(* (stream_registry.py, router.py); the consumer writes the .part file,     *)
(* acknowledges, and at the end verifies and renames it (files/service.py). *)
(* The receiver runs on Windows: an open file is not renamed or deleted.    *)
EXTENDS Integers, Sequences, SequencesExt

CONSTANTS Label,     \* downloads, all of one file into one name
          Chunks,    \* the file is chunks 1 .. Chunks
          Batch,     \* chunks per acknowledgement, the source's pipe
          Buff,      \* the receiver's pipe
          MaxFaults

Whole == [i \in 1 .. Chunks |-> i]
Hole == 0
EofItem == 0         \* _SENTINEL in a pipe

VARIABLES dl,        \* _downloads of the receiver: status and resume offset
          call,      \* the RPC files.serve of a download
          gen,       \* the source: producer thread, dispatcher and pump
          fwd, back, \* the link, in each direction
          registry,  \* stream_registry: labels with an inbound stream
          pipe,      \* the inbound pipes
          broken,    \* pipes that failed
          con,       \* consumers: where they stand and write
          part,      \* the .part file
          final,     \* the file
          faults

linkVars == <<fwd, back>>
inVars == <<registry, pipe, broken>>
diskVars == <<part, final>>
vars == <<dl, call, gen, fwd, back, registry, pipe, broken, con, part, final, faults>>

NoGen == [pc |-> "off", next |-> 1, queued |-> 0, prod |-> "off",
          sent |-> 0, ack |-> FALSE]
NoCon == [pc |-> "off", pos |-> 0, append |-> FALSE]
Msg(k, l, i) == [kind |-> k, label |-> l, item |-> i]

TypeOK ==
    /\ dl \in [Label -> [status : {"none", "running", "done", "error", "gone"},
                         from : 0 .. Chunks]]
    /\ call \in [Label -> {"none", "asked", "over"}]
    /\ gen \in [Label -> [pc : {"off", "open", "pump", "wait", "batch", "done"},
                          next : 1 .. Chunks + 1, queued : 0 .. Batch,
                          prod : {"off", "reading", "ok", "failed"},
                          sent : 0 .. Batch, ack : BOOLEAN]]
    /\ registry \subseteq Label /\ broken \subseteq Label
    /\ \A l \in Label : /\ Len(pipe[l]) <= Buff
                        /\ \A i \in DOMAIN pipe[l] : pipe[l][i] \in 0 .. Chunks
    /\ con \in [Label -> [pc : {"off", "start", "run", "drain", "gone"},
                          pos : 0 .. Chunks, append : BOOLEAN]]
    /\ faults \in 0 .. MaxFaults

Init ==
    /\ dl = [l \in Label |-> [status |-> "none", from |-> 0]]
    /\ call = [l \in Label |-> "none"]
    /\ gen = [l \in Label |-> NoGen]
    /\ fwd = <<>> /\ back = <<>>
    /\ registry = {} /\ broken = {}
    /\ pipe = [l \in Label |-> <<>>]
    /\ con = [l \in Label |-> NoCon]
    /\ part = <<>> /\ final = <<>>
    /\ faults = 0

Fault == faults < MaxFaults /\ faults' = faults + 1
Send(m) == fwd' = Append(fwd, m)
Reply(m) == back' = Append(back, m)
Status(l, s) == dl' = [dl EXCEPT ![l].status = s]

-----------------------------------------------------------------------------
(* The receiver's RPC calls.                                                *)

\* download: nothing to do when the file is whole; else resume where .part
\* ends, unless the caller asks for the whole file, and ask for the stream.
Download(l, resume) ==
    /\ dl[l].status = "none"
    /\ IF final = Whole
         THEN Status(l, "done") /\ UNCHANGED call
         ELSE /\ dl' = [dl EXCEPT ![l] =
                   [status |-> "running",
                    from |-> IF resume /\ Len(part) <= Chunks THEN Len(part) ELSE 0]]
              /\ call' = [call EXCEPT ![l] = "asked"]
    /\ UNCHANGED <<gen, linkVars, inVars, con, diskVars, faults>>

\* files.serve on the source: the pipe, the transport and the dispatcher.
Serve(l) ==
    /\ call[l] \in {"asked", "over"} /\ gen[l].pc = "off"
    /\ gen' = [gen EXCEPT ![l] = [NoGen EXCEPT !.pc = "open", !.prod = "reading",
                                               !.next = dl[l].from + 1]]
    /\ call' = [call EXCEPT ![l] = "over"]
    /\ UNCHANGED <<dl, linkVars, inVars, con, diskVars, faults>>

\* The call of serve fails or expires at the receiver; in the second case the
\* source may still answer it.
ServeFails(l) ==
    /\ call[l] = "asked" /\ Fault
    /\ call' \in {[call EXCEPT ![l] = "over"], [call EXCEPT ![l] = "none"]}
    /\ Status(l, "error")
    /\ UNCHANGED <<gen, linkVars, inVars, con, diskVars>>

Writing == {l \in Label : con[l].pc = "run"}

\* cancel_download forgets the download and deletes .part, if nobody has it
\* open; the consumer holds the state and goes on.
Cancel(l) ==
    /\ dl[l].status \in {"running", "error"}
    /\ Fault
    /\ Status(l, "gone")
    /\ part' = IF Writing = {} THEN <<>> ELSE part
    /\ UNCHANGED <<call, gen, linkVars, inVars, con, final>>

-----------------------------------------------------------------------------
(* The source.                                                              *)

\* _handshake_and_pump sends STREAM_OPEN and waits for READY ...
Open(l) ==
    /\ gen[l].pc = "open"
    /\ gen' = [gen EXCEPT ![l].pc = "wait"]
    /\ Send(Msg("open", l, 0))
    /\ UNCHANGED <<dl, call, back, inVars, con, diskVars, faults>>

\* The producer thread reads the next chunk, or ends, or fails; Pipe.fail and
\* the sentinel both let the pump empty the pipe first.
Produce(l) ==
    /\ gen[l].prod = "reading"
    /\ \/ /\ gen[l].next <= Chunks /\ gen[l].queued < Batch
          /\ gen' = [gen EXCEPT ![l].next = @ + 1, ![l].queued = @ + 1]
          /\ UNCHANGED faults
       \/ /\ gen[l].next > Chunks
          /\ gen' = [gen EXCEPT ![l].prod = "ok"]
          /\ UNCHANGED faults
       \/ /\ Fault
          /\ gen' = [gen EXCEPT ![l].prod = "failed"]
    /\ UNCHANGED <<dl, call, linkVars, inVars, con, diskVars>>

\* _pump: a chunk; after a batch it waits for the acknowledgement, which may
\* have come already, and registers the next.
Pump(l) ==
    /\ gen[l].pc = "pump" /\ gen[l].queued > 0
    /\ Send(Msg("chunk", l, gen[l].next - gen[l].queued))
    /\ gen' = [gen EXCEPT ![l].queued = @ - 1, ![l].sent = @ + 1,
                          ![l].pc = IF gen[l].sent + 1 = Batch THEN "batch" ELSE "pump"]
    /\ UNCHANGED <<dl, call, back, inVars, con, diskVars, faults>>

BatchAcked(l) ==
    /\ gen[l].pc = "batch" /\ gen[l].ack
    /\ gen' = [gen EXCEPT ![l].pc = "pump", ![l].sent = 0, ![l].ack = FALSE]
    /\ UNCHANGED <<dl, call, linkVars, inVars, con, diskVars, faults>>

\* The end of the stream: EOF, or ERROR when the producer failed.
PumpEnds(l) ==
    /\ gen[l].pc = "pump" /\ gen[l].queued = 0 /\ gen[l].prod \in {"ok", "failed"}
    /\ gen' = [gen EXCEPT ![l].pc = "done"]
    /\ Send(Msg(IF gen[l].prod = "failed" THEN "error" ELSE "eof", l, 0))
    /\ UNCHANGED <<dl, call, back, inVars, con, diskVars, faults>>

\* No READY, no acknowledgement for 30 s: the first ends the transport, the
\* second ends the stream with EOF, unless the producer failed meanwhile.
PumpTimeout(l) ==
    /\ gen[l].pc = "wait" \/ (gen[l].pc = "batch" /\ ~gen[l].ack)
    /\ Fault
    /\ gen' = [gen EXCEPT ![l].pc = "done"]
    /\ IF gen[l].pc = "wait" THEN UNCHANGED fwd
       ELSE Send(Msg(IF gen[l].prod = "failed" THEN "error" ELSE "eof", l, 0))
    /\ UNCHANGED <<dl, call, back, inVars, con, diskVars>>

\* The source's reader: READY starts the pump, an acknowledgement resolves the
\* registered future, and is dropped when that one is resolved already.
SourceReads ==
    /\ back # <<>>
    /\ LET l == Head(back).label
           live == gen[l].pc \in {"wait", "pump", "batch"}
       IN gen' = IF ~live THEN gen
                 ELSE IF Head(back).kind = "ready"
                        THEN [gen EXCEPT ![l].pc = IF @ = "wait" THEN "pump" ELSE @]
                        ELSE IF gen[l].pc = "wait" THEN gen
                             ELSE [gen EXCEPT ![l].ack = TRUE]
    /\ back' = Tail(back)
    /\ UNCHANGED <<dl, call, fwd, inVars, con, diskVars, faults>>

-----------------------------------------------------------------------------
(* The receiver's side of the stream.                                       *)

\* The reader handles one packet after the other.
Reads(kind) == fwd # <<>> /\ Head(fwd).kind = kind
Taken == fwd' = Tail(fwd)

\* open_stream registers a pipe and starts the consumer, READY goes back.
ReadOpen ==
    /\ Reads("open")
    /\ LET l == Head(fwd).label
       IN /\ registry' = registry \cup {l}
          /\ con' = [con EXCEPT ![l].pc = "start"]
          /\ Reply(Msg("ready", l, 0))
    /\ Taken
    /\ UNCHANGED <<dl, call, gen, pipe, broken, diskVars, faults>>

\* Mutant: the pipe of the receiver has no bound.
RoomAlways(l) == TRUE

Room(l) == Len(pipe[l]) < Buff

\* feed waits while the pipe is full, and the whole link with it.
ReadChunk ==
    /\ Reads("chunk")
    /\ LET l == Head(fwd).label
       IN IF l \in registry
            THEN /\ Room(l)
                 /\ pipe' = [pipe EXCEPT ![l] = Append(@, Head(fwd).item)]
            ELSE UNCHANGED pipe
    /\ Taken
    /\ UNCHANGED <<dl, call, gen, back, registry, broken, con, diskVars, faults>>

\* close puts the sentinel, for which it waits too.
ReadEof ==
    /\ Reads("eof")
    /\ LET l == Head(fwd).label
       IN IF l \in registry
            THEN /\ Room(l)
                 /\ pipe' = [pipe EXCEPT ![l] = Append(@, EofItem)]
                 /\ registry' = registry \ {l}
            ELSE UNCHANGED <<pipe, registry>>
    /\ Taken
    /\ UNCHANGED <<dl, call, gen, back, broken, con, diskVars, faults>>

\* fail: the chunks that are in the pipe are delivered, then the error.
ReadError ==
    /\ Reads("error")
    /\ LET l == Head(fwd).label
       IN IF l \in registry
            THEN /\ broken' = broken \cup {l}
                 /\ registry' = registry \ {l}
            ELSE UNCHANGED <<broken, registry>>
    /\ Taken
    /\ UNCHANGED <<dl, call, gen, back, pipe, con, diskVars, faults>>

\* consume_file_in opens .part, truncating it unless it resumes, and sends an
\* acknowledgement ahead; without a state it only drains the pipe.
ConsumerStarts(l) ==
    /\ con[l].pc = "start"
    /\ IF dl[l].status = "gone"
         THEN /\ con' = [con EXCEPT ![l].pc = "drain"]
              /\ UNCHANGED <<part, back>>
         ELSE /\ con' = [con EXCEPT ![l] = [pc |-> "run", pos |-> dl[l].from,
                                            append |-> dl[l].from > 0]]
              /\ part' = IF dl[l].from > 0 THEN part ELSE <<>>
              /\ Reply(Msg("ack", l, 0))
    /\ UNCHANGED <<dl, call, gen, fwd, inVars, final, faults>>

\* Where a write lands: at the end, or at the writer's own position, which may
\* lie behind the end when another download has truncated the file.
Written(l, i) ==
    IF con[l].append THEN Append(part, i)
    ELSE [k \in 1 .. IF Len(part) > con[l].pos THEN Len(part) ELSE con[l].pos + 1 |->
            IF k = con[l].pos + 1 THEN i ELSE IF k <= Len(part) THEN part[k] ELSE Hole]

\* A chunk is acknowledged when the pipe has room for a batch.
Grants(l) == Len(pipe[l]) - 1 < Batch

ConsumerLeaves(l) == con' = [con EXCEPT ![l].pc = "gone"]

\* One chunk: a download that is no longer running stops here.
Consume(l) ==
    /\ con[l].pc = "run" /\ pipe[l] # <<>> /\ Head(pipe[l]) # EofItem
    /\ Len(part) < 2 * Chunks
    /\ IF dl[l].status = "error"
         THEN /\ ConsumerLeaves(l)
              /\ UNCHANGED <<part, back>>
         ELSE /\ part' = Written(l, Head(pipe[l]))
              /\ con' = [con EXCEPT ![l].pos = @ + 1]
              /\ IF Grants(l) THEN Reply(Msg("ack", l, 0)) ELSE UNCHANGED back
    /\ pipe' = [pipe EXCEPT ![l] = Tail(@)]
    /\ UNCHANGED <<dl, call, gen, fwd, registry, broken, final, faults>>

\* Mutant: the size is compared, the hash is not.
HashOkSize == Len(part) = Chunks

HashOk == part = Whole

\* The end of a stream: the size received, then _finalize: size and hash of
\* .part, and the rename.  A cancelled download has no state to finalize.
Finish(l) ==
    /\ con[l].pc = "run" /\ pipe[l] # <<>> /\ Head(pipe[l]) = EofItem
    /\ pipe' = [pipe EXCEPT ![l] = Tail(@)]
    /\ ConsumerLeaves(l)
    /\ IF dl[l].status # "running" \/ con[l].pos # Chunks
         THEN /\ IF dl[l].status = "running" THEN Status(l, "error") ELSE UNCHANGED dl
              /\ UNCHANGED diskVars
         ELSE IF ~HashOk
         THEN /\ Status(l, "error")
              /\ part' = IF Writing = {l} THEN <<>> ELSE part
              /\ UNCHANGED final
         ELSE IF Writing = {l}
         THEN Status(l, "done") /\ final' = part /\ part' = <<>>
         ELSE Status(l, "error") /\ UNCHANGED diskVars
    /\ UNCHANGED <<call, gen, linkVars, registry, broken, faults>>

\* The error of the producer, or one of the disk: the exception leaves the
\* consumer and is logged; the download stays as it is.
ConsumerFails(l) ==
    /\ con[l].pc = "run"
    /\ \/ l \in broken /\ pipe[l] = <<>> /\ UNCHANGED faults
       \/ Fault
    /\ ConsumerLeaves(l)
    /\ UNCHANGED <<dl, call, gen, linkVars, inVars, diskVars>>

\* A consumer without a state drains the pipe.
Drain(l) ==
    /\ con[l].pc = "drain" /\ pipe[l] # <<>>
    /\ pipe' = [pipe EXCEPT ![l] = Tail(@)]
    /\ UNCHANGED <<dl, call, gen, linkVars, registry, broken, con, diskVars, faults>>

\* The link goes down and comes back: what was on it is lost.
LinkDrops ==
    /\ fwd # <<>> \/ back # <<>>
    /\ Fault
    /\ fwd' = <<>> /\ back' = <<>>
    /\ UNCHANGED <<dl, call, gen, inVars, con, diskVars>>

-----------------------------------------------------------------------------
SourceStep(l) == Serve(l) \/ Open(l) \/ Produce(l) \/ Pump(l) \/ BatchAcked(l)
                 \/ PumpEnds(l)
ConsumerStep(l) == ConsumerStarts(l) \/ Consume(l) \/ Finish(l)
                   \/ (l \in broken /\ ConsumerFails(l)) \/ Drain(l)
ReaderStep == SourceReads \/ ReadOpen \/ ReadChunk \/ ReadEof \/ ReadError

Next ==
    \/ \E l \in Label : \/ \E resume \in BOOLEAN : Download(l, resume)
                        \/ ServeFails(l) \/ Cancel(l) \/ PumpTimeout(l)
                        \/ ConsumerFails(l)
                        \/ SourceStep(l) \/ ConsumerStep(l)
    \/ ReaderStep \/ LinkDrops

Spec == Init /\ [][Next]_vars
\* The event loops run every task that can go on, and so do the threads.
Fairness ==
    /\ WF_vars(ReaderStep)
    /\ \A l \in Label : WF_vars(SourceStep(l)) /\ WF_vars(ConsumerStep(l))
FairSpec == Spec /\ Fairness

-----------------------------------------------------------------------------
\* Whatever downloads share the .part, whatever was lost, resumed, cancelled
\* or cut off by a timeout: the file that appears under its name is the whole
\* file, and a download reported done has put it there (files/service.py:660).
FileIsWhole ==
    /\ final \in {<<>>, Whole}
    /\ \A l \in Label : dl[l].status = "done" => final = Whole

\* Without a fault a download ends: the window of the source, the two
\* acknowledgements the consumer grants and the pipe of the receiver never
\* wait for each other (memory.py:133, stream_registry.py:38).
DownloadDue(l) == dl[l].status = "running"
DownloadOver(l) == dl[l].status # "running" \/ faults > 0
DownloadEnds == \A l \in Label : DownloadDue(l) ~> DownloadOver(l)

\* memory.py:240: "the consumer died or stopped: we leave, we do not hang for
\* ever": when the pump has ended the producer ends too.
ProducerReleased ==
    \A l \in Label : gen[l].pc = "done" ~> gen[l].prod # "reading"

=============================================================================
