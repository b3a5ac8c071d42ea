-------------------------------- MODULE Tools --------------------------------
(* What a node measures for its operator: speed tests to another node       *)
(* (services/speedtest), scans by nmap processes (services/nmap) and the    *)
(* bridge to the monitoring of the nodes (services/netpulse).  A request is *)
(* split into parts that run together; the answer is put together from what *)
(* they bring back before their deadlines.                                  *)
EXTENDS Integers, FiniteSets

CONSTANTS Test,       \* the parts of a speed test: the first seeds others
          Way,        \* [Test -> {"download", "upload"}]: both are bidirectional
          MaxChunks,  \* chunks a test makes at most
          Ahead,      \* chunks made before the first is carried: queue and pipe
          Host,       \* what nmap may find
          Self, Peer, \* nodes with the service netpulse
          MaxPosts, MaxFaults

VARIABLES tool,     \* "speed", "nmap", "bridge" or "post"
          phase,    \* of the request
          test,     \* the coroutine of each part of a speed test
          told,     \* chunks it answers with, Failed when not ok
          flow,     \* its stream: the producer and the consumer
          entry,    \* _downloads of this node, _uploads of the other one
          event,    \* _download_events: who made the registered event
          awake,    \* the events that the waiting coroutines hold and are set
          world,    \* hosts that are up, nodes whose monitoring is online
          targets,  \* the parts of a scan or of a summary
          busy,     \* processes that run, calls in flight
          row,      \* what each part brought
          post,     \* a write: attempts, effects, whether done, the answer
          faults

speedVars == <<test, told, flow, entry, event, awake>>
fanVars == <<targets, busy, row>>
vars == <<tool, phase, test, told, flow, entry, event, awake, world, targets,
          busy, row, post, faults>>

Failed == -1
None == -1
Member == Host \union Peer \union {Self}
Sweeper == "sweep"   \* the process that looks for hosts
Download(t) == Way[t] = "download"

TypeOK ==
    /\ tool \in {"speed", "nmap", "bridge", "post"}
    /\ phase \in {"off", "sweep", "parts", "told", "failed"}
    /\ test \in [Test -> {"off", "asked", "waiting", "asking", "over"}]
    /\ told \in [Test -> Failed .. MaxChunks]
    /\ flow \in [Test -> [pc : {"none", "begun", "open", "cut", "over"},
                          made : 0 .. MaxChunks, came : 0 .. MaxChunks, closed : BOOLEAN]]
    /\ entry \in [Test -> None .. MaxChunks]
    /\ event \in [Test -> {"none", "waiter", "stream"}]
    /\ awake \subseteq Test
    /\ world \subseteq Member /\ targets \subseteq Member
    /\ busy \subseteq Member \union {Sweeper}
    /\ row \in [Member -> {"none", "ok", "closed", "offline", "error"}]
    /\ post \in [tries : 0 .. MaxPosts, done : 0 .. MaxPosts,
                 at : {"idle", "sent", "served"}, told : {"none", "ok", "offline"}]
    /\ faults \in 0 .. MaxFaults

Init ==
    /\ tool \in {"speed", "nmap", "bridge", "post"}
    /\ phase = "off" /\ faults = 0
    /\ test = [t \in Test |-> "off"]
    /\ told = [t \in Test |-> 0]
    /\ flow = [t \in Test |-> [pc |-> "none", made |-> 0, came |-> 0, closed |-> FALSE]]
    /\ entry = [t \in Test |-> None]
    /\ event = [t \in Test |-> "none"]
    /\ awake = {}
    /\ world = Member
    /\ targets = {} /\ busy = {}
    /\ row = [n \in Member |-> "none"]
    /\ post = [tries |-> 0, done |-> 0, at |-> "idle", told |-> "none"]

Fault == faults < MaxFaults /\ faults' = faults + 1

-----------------------------------------------------------------------------
(* Speed tests.                                                             *)

\* The id under which a test is registered on both nodes: one uuid per part.
KeyOne(t) == CHOOSE s \in Test : TRUE
Key(t) == t

\* run_test: the pings first; a lost one is only counted.
RunTest ==
    /\ tool = "speed" /\ phase = "off"
    /\ phase' = "parts"
    /\ UNCHANGED <<tool, speedVars, world, fanVars, post, faults>>

\* The parts of one direction start together, uploads after the downloads.  A
\* download registers its entry and its event and calls start_download of the
\* other node; an upload opens its stream itself.
Start(t) ==
    /\ tool = "speed" /\ phase = "parts" /\ test[t] = "off"
    /\ Download(t) \/ \A s \in Test : Download(s) => test[s] = "over"
    /\ IF Download(t)
         THEN /\ test' = [test EXCEPT ![t] = "asked"]
              /\ entry' = [entry EXCEPT ![Key(t)] = 0]
              /\ event' = [event EXCEPT ![Key(t)] = "waiter"]
              /\ UNCHANGED flow
         ELSE /\ test' = [test EXCEPT ![t] = "waiting"]
              /\ flow' = [flow EXCEPT ![t].pc = "begun"]
              /\ UNCHANGED <<entry, event>>
    /\ UNCHANGED <<tool, phase, told, awake, world, fanVars, post, faults>>

\* start_download on the other node, perhaps after its caller has given up.
StartDownload(t) ==
    /\ Download(t) /\ flow[t].pc = "none"
    /\ test[t] = "asked" \/ (test[t] = "over" /\ told[t] = Failed)
    /\ flow' = [flow EXCEPT ![t].pc = "begun"]
    /\ UNCHANGED <<tool, phase, test, told, entry, event, awake, world, fanVars, post, faults>>

\* A part ends; a download takes its entry and its event out.
Finish(t, n) ==
    /\ test' = [test EXCEPT ![t] = "over"]
    /\ told' = [told EXCEPT ![t] = n]
    /\ IF Download(t)
         THEN /\ entry' = [entry EXCEPT ![Key(t)] = None]
              /\ event' = [event EXCEPT ![Key(t)] = "none"]
         ELSE UNCHANGED <<entry, event>>

\* The call of start_download is answered, or fails or expires.
Granted(t) ==
    /\ test[t] = "asked" /\ flow[t].pc # "none"
    /\ test' = [test EXCEPT ![t] = "waiting"]
    /\ UNCHANGED <<tool, phase, told, flow, entry, event, awake, world, fanVars, post, faults>>

Denied(t) ==
    /\ test[t] = "asked" /\ Fault
    /\ Finish(t, Failed)
    /\ UNCHANGED <<tool, phase, flow, awake, world, fanVars, post>>

\* gen, in its thread: it stops at the end of the time, which it sees between
\* two chunks, and waits for ever when nothing is carried.
Making(t) == /\ flow[t].pc \in {"begun", "open", "cut"} /\ ~flow[t].closed
             /\ flow[t].made - flow[t].came < Ahead
Make(t) ==
    /\ Making(t) /\ flow[t].made < MaxChunks
    /\ flow' = [flow EXCEPT ![t].made = @ + 1]
    /\ UNCHANGED <<tool, phase, test, told, entry, event, awake, world, fanVars, post, faults>>
Close(t) ==
    /\ Making(t)
    /\ flow' = [flow EXCEPT ![t].closed = TRUE]
    /\ UNCHANGED <<tool, phase, test, told, entry, event, awake, world, fanVars, post, faults>>

\* prepare_download and prepare_upload: a new entry, and for a download a new
\* event, in place of the ones that the waiting coroutine has registered.
Open(t) ==
    /\ flow[t].pc = "begun"
    /\ flow' = [flow EXCEPT ![t].pc = "open"]
    /\ entry' = [entry EXCEPT ![Key(t)] = 0]
    /\ event' = IF Download(t) THEN [event EXCEPT ![Key(t)] = "stream"] ELSE event
    /\ UNCHANGED <<tool, phase, test, told, awake, world, fanVars, post, faults>>

Carry(t) ==
    /\ flow[t].pc = "open" /\ flow[t].came < flow[t].made
    /\ flow' = [flow EXCEPT ![t].came = @ + 1]
    /\ UNCHANGED <<tool, phase, test, told, entry, event, awake, world, fanVars, post, faults>>

\* download_in and upload_in at the end of the stream: what came is written,
\* into a new entry if there is none, and the registered event is set.
Ended(t) ==
    /\ flow[t].pc = "open" /\ flow[t].closed /\ flow[t].came = flow[t].made
    /\ flow' = [flow EXCEPT ![t].pc = "over"]
    /\ entry' = [entry EXCEPT ![Key(t)] = flow[t].came]
    /\ awake' = IF event[Key(t)] = "waiter" THEN awake \union {t} ELSE awake
    /\ UNCHANGED <<tool, phase, test, told, event, world, fanVars, post, faults>>

\* The stream is refused, or its link breaks: the consumer sees no end.
Cut(t) ==
    /\ flow[t].pc \in {"begun", "open"} /\ Fault
    /\ flow' = [flow EXCEPT ![t].pc = "cut"]
    /\ UNCHANGED <<tool, phase, test, told, entry, event, awake, world, fanVars, post>>

\* The deadline is ten seconds after the time of the test: the stream is over
\* by then, or cut, or slow.
Deadline(t) == \/ flow[t].pc \in {"over", "cut"} /\ UNCHANGED faults
               \/ flow[t].pc \in {"begun", "open"} /\ Fault

\* The download waits for its event or for the deadline and reads its entry.
Read(t) ==
    /\ Download(t) /\ test[t] = "waiting"
    /\ IF t \in awake THEN UNCHANGED faults ELSE Deadline(t)
    /\ Finish(t, entry[Key(t)])
    /\ UNCHANGED <<tool, phase, flow, awake, world, fanVars, post>>

\* The upload waits for its dispatcher; at the deadline it cancels it, which
\* does not stop the thread of gen.
Sent(t) ==
    /\ ~Download(t) /\ test[t] = "waiting"
    /\ IF flow[t].closed THEN UNCHANGED faults ELSE Deadline(t)
    /\ test' = [test EXCEPT ![t] = "asking"]
    /\ UNCHANGED <<tool, phase, told, flow, entry, event, awake, world, fanVars, post>>

\* get_upload_result, up to five times; without a count of the other node, or
\* with the count 0 of a stream that goes on, what was made is told.
Result(t) ==
    /\ test[t] = "asking"
    /\ \/ /\ entry[Key(t)] # None /\ UNCHANGED faults
          /\ Finish(t, IF entry[Key(t)] > 0 THEN entry[Key(t)] ELSE flow[t].made)
       \/ /\ IF flow[t].pc = "cut" THEN entry[Key(t)] = None /\ UNCHANGED faults ELSE Fault
          /\ Finish(t, flow[t].made)
    /\ UNCHANGED <<tool, phase, flow, awake, world, fanVars, post>>

\* The parts that are not ok add nothing; the answer is ok all the same.
Summed ==
    /\ tool = "speed" /\ phase = "parts"
    /\ \A t \in Test : test[t] = "over"
    /\ phase' = "told"
    /\ UNCHANGED <<tool, speedVars, world, fanVars, post, faults>>

-----------------------------------------------------------------------------
(* Scans and summaries.                                                     *)

\* A host or a monitoring service goes, or comes back.
WorldChanges ==
    /\ tool \in {"nmap", "bridge"} /\ phase \in {"off", "sweep", "parts"} /\ Fault
    /\ \E n \in Member : world' = IF n \in world THEN world \ {n} ELSE world \union {n}
    /\ UNCHANGED <<tool, phase, speedVars, fanVars, post>>

FanOut(S) == targets' = S /\ busy' = S /\ phase' = "parts" /\ UNCHANGED row

\* What nmap prints: the hosts that are up; the ports of a host, all closed
\* when it has gone in the meantime.
Live == Host \intersect world
Ports(h) == IF h \in world THEN "ok" ELSE "closed"

\* What a node answers: its monitoring's data, or that it is offline.
Answers(n) == n \in world
Monitoring(n) == IF Answers(n) THEN "ok" ELSE "offline"

\* scan and ping_sweep: one process looks for live hosts; without nmap, or
\* without a target, the answer is an error.
Scan ==
    /\ tool = "nmap" /\ phase = "off"
    /\ \/ phase' = "sweep" /\ busy' = {Sweeper} /\ UNCHANGED <<targets, row>>
       \/ \E h \in Host : FanOut({h})      \* ports: one host, up or not
       \/ phase' = "failed" /\ UNCHANGED fanVars
    /\ UNCHANGED <<tool, speedVars, world, post, faults>>

\* The live hosts are the answer of ping_sweep; scan starts one process for
\* each of them, all at once.
Swept ==
    /\ tool = "nmap" /\ phase = "sweep"
    /\ \/ Live # {} /\ FanOut(Live)
       \/ phase' = "told" /\ busy' = {} /\ UNCHANGED <<targets, row>>
    /\ UNCHANGED <<tool, speedVars, world, post, faults>>

\* _run kills the process that is late and waits for it; one that ends with a
\* code is gone.
KilledNot(p) == {}
Killed(p) == {p}

SweepFails ==
    /\ tool = "nmap" /\ phase = "sweep" /\ Fault
    /\ phase' = "failed" /\ busy' = busy \ Killed(Sweeper)
    /\ UNCHANGED <<tool, speedVars, world, targets, row, post>>

\* gather: this node if its monitoring answers now, and every neighbour with
\* the service, reachable or not.
Gather ==
    /\ tool = "bridge" /\ phase = "off"
    /\ FanOut({n \in {Self} : Answers(n)} \union Peer)
    /\ UNCHANGED <<tool, speedVars, world, post, faults>>

\* _scan_one and collect_one: the output of the process, the answer of the node.
PartEnds(n) ==
    /\ phase = "parts" /\ n \in busy
    /\ busy' = busy \ {n}
    /\ row' = [row EXCEPT ![n] = IF tool = "nmap" THEN Ports(n) ELSE Monitoring(n)]
    /\ UNCHANGED <<tool, phase, speedVars, world, targets, post, faults>>

\* Neither lets an exception out: it becomes the row of the part.
PartFails(n) ==
    /\ phase = "parts" /\ n \in busy /\ Fault
    /\ tool = "bridge" => n # Self
    /\ busy' = busy \ Killed(n)
    /\ row' = [row EXCEPT ![n] = "error"]
    /\ UNCHANGED <<tool, phase, speedVars, world, targets, post>>

Answered ==
    /\ tool \in {"nmap", "bridge"} /\ phase = "parts"
    /\ \A n \in targets : row[n] # "none"
    /\ phase' = "told"
    /\ UNCHANGED <<tool, speedVars, world, fanVars, post, faults>>

-----------------------------------------------------------------------------
(* Writes through the bridge; the operator may repeat one.                  *)

Post ==
    /\ tool = "post" /\ post.at = "idle" /\ post.tries < MaxPosts
    /\ post' = [post EXCEPT !.tries = @ + 1, !.at = "sent", !.told = "none"]
    /\ UNCHANGED <<tool, phase, speedVars, world, fanVars, faults>>

\* The server of the monitoring does it, in time or after the caller has left.
Serve ==
    /\ tool = "post" /\ post.done < post.tries
    /\ post.at = "sent" \/ (post.at = "idle" /\ post.told = "offline")
    /\ post' = [post EXCEPT !.done = @ + 1, !.at = IF @ = "sent" THEN "served" ELSE @]
    /\ UNCHANGED <<tool, phase, speedVars, world, fanVars, faults>>

\* NetPulseClient.post answers None for an error and for a late answer alike,
\* which the bridge tells as "offline".
Replied ==
    /\ tool = "post"
    /\ \/ post.at = "served" /\ UNCHANGED faults
          /\ post' = [post EXCEPT !.at = "idle", !.told = "ok"]
       \/ post.at \in {"sent", "served"} /\ Fault
          /\ post' = [post EXCEPT !.at = "idle", !.told = "offline"]
    /\ UNCHANGED <<tool, phase, speedVars, world, fanVars>>

-----------------------------------------------------------------------------
Speeding == \E t \in Test :
    \/ Start(t) \/ StartDownload(t) \/ Granted(t) \/ Denied(t) \/ Make(t) \/ Close(t)
    \/ Open(t) \/ Carry(t) \/ Ended(t) \/ Cut(t) \/ Read(t) \/ Sent(t) \/ Result(t)
Next == \/ RunTest \/ Speeding \/ Summed
        \/ WorldChanges \/ Scan \/ Swept \/ SweepFails \/ Gather \/ Answered
        \/ \E n \in Member : PartEnds(n) \/ PartFails(n)
        \/ Post \/ Serve \/ Replied

\* Coroutines, threads and processes go on, and deadlines pass.
Running == RunTest \/ Speeding \/ Summed \/ Swept \/ Answered \/ \E n \in Member : PartEnds(n)
Fairness == WF_vars(Running)
Spec == Init /\ [][Next]_vars /\ Fairness

-----------------------------------------------------------------------------
\* A download tells what came or nothing, and what came only of a stream that
\* has ended; an upload never tells more than was made, and the count of the
\* other node once it has one (speedtest/service.py:224, :278).
SpeedTrue ==
    \A t \in Test : test[t] = "over" /\ told[t] > 0 =>
        IF Download(t) THEN flow[t].pc = "over" /\ told[t] = flow[t].came
                       ELSE told[t] <= flow[t].made

\* While its test waits a download has its entry, and the entry counts this
\* download (speedtest/service.py:216).
EntryKept ==
    \A t \in Test : Download(t) =>
        /\ test[t] = "waiting" => entry[t] # None
        /\ entry[t] > 0 => entry[t] = flow[t].came

\* When a scan or a summary is answered nothing of it runs any more, and it has
\* a row for each of its parts and for nothing else (nmap/service.py:200, :320,
\* netpulse/service.py:347).
NoneRuns ==
    phase \in {"told", "failed"} =>
        /\ busy = {}
        /\ \A n \in Member : row[n] # "none" <=> n \in targets

\* A write answered ok was done in this attempt, and no attempt does it twice
\* (netpulse_client.py:35).
WriteTrue == post.done <= post.tries /\ (post.told = "ok" => post.done > 0)

ToolsSound == SpeedTrue /\ EntryKept /\ WriteTrue

\* Every request is answered (speedtest/service.py:292, nmap/service.py:282).
ToolDue == phase \in {"sweep", "parts"}
ToolsEnd == ToolDue ~> ~ToolDue

\* speedtest/service.py:219: "we wait for the end": the coroutine that waits is
\* awakened by the end of its stream.
EndAwakes == \A t \in Test : Download(t) /\ test[t] = "waiting" /\ flow[t].pc = "over"
                                => t \in awake

\* memory.py:238: "the consumer died or stopped: we leave, we do not hang for
\* ever": when an upload is over its thread has ended.
ThreadsBack == \A t \in Test : test[t] = "over" ~> flow[t].closed

\* netpulse/service.py:226: a write that is told as "offline" was not done.
OfflineNotDone == post.told = "offline" => post.done = 0

\* speedtest/service.py:236: nothing is registered of a test that is over.
Forgotten == \A t \in Test : test[t] = "over" => entry[t] = None

=============================================================================
