------------------------------- MODULE Certs -------------------------------
(* Certificates of the nodes: certstool/service.py drives the CryptoPro     *)
(* programs, certs_index.py keeps what is installed here and who offers     *)
(* what, a loop and an exchange at each new link spread it.  The meta data  *)
(* of a certificate follows from its thumbprint and the age of an entry is  *)
(* only shown: neither is modelled.                                         *)
EXTENDS Naturals, FiniteSets

CONSTANTS Node, Cert,
          First,          \* [Node -> what is installed at the start]
          Job,            \* calls
          Kind,           \* [Job -> SUBSET {"fetch", "load", "fix", "delete"}]
          Site,           \* [Job -> the node called]
          Server,         \* Server \in Node: took the connection, asks the other
          MaxFaults

VARIABLES pin,      \* [Node -> [Cert -> who knows the password of the container]]
          local,    \* [Node -> certificates flagged installed_locally]
          on,       \* [Node -> [Node -> certificates offered by that node]]
          gone,     \* nodes whose certstool has ended: no CryptoPro
          loop,     \* [Node -> the sync loop: where it stands, what it listed]
          link,     \* the nodes are connected
          wire,     \* [Node -> [Node -> the digest under way, or Nothing]]
          asked,    \* the answer of get_cert_sync_digest, not merged yet
          job, faults,
          held      \* [Node -> what it ever held]

vars == <<pin, local, on, gone, loop, link, wire, asked, job, faults, held>>
storeVars == <<pin, held>>
netVars == <<link, wire, asked>>

None == "none"
Nothing == {"nothing"}
Digest == (SUBSET Cert) \cup {Nothing}
Asleep == [pc |-> "sleep", seen |-> {}]
Waits == [pc |-> "idle", kind |-> None, cert |-> None, src |-> None,
          seen |-> {}, result |-> None]

TypeOK ==
    /\ pin \in [Node -> [Cert -> {None, "user", "once"}]]
    /\ local \in [Node -> SUBSET Cert]
    /\ on \in [Node -> [Node -> SUBSET Cert]]
    /\ gone \subseteq Node
    /\ loop \in [Node -> [pc : {"sleep", "listed", "last", "over"}, seen : SUBSET Cert]]
    /\ link \in BOOLEAN
    /\ wire \in [Node -> [Node -> Digest]]
    /\ asked \in Digest
    /\ job \in [Job -> [pc : {"idle", "lookup", "export", "erase", "install", "cer",
                              "password", "list", "index", "done"},
                        kind : {None, "fetch", "load", "fix", "delete"},
                        cert : Cert \cup {None}, src : Node \cup {None},
                        seen : SUBSET Cert,
                        result : {None, "ok", "error", "lost"}]]
    /\ faults \in 0 .. MaxFaults
    /\ held \in [Node -> SUBSET Cert]

Has(n) == {c \in Cert : pin[n][c] # None}

Init ==
    /\ pin = [n \in Node |-> [c \in Cert |-> IF c \in First[n] THEN "user" ELSE None]]
    /\ local = [n \in Node |-> {}]
    /\ on = [n \in Node |-> [m \in Node |-> {}]]
    /\ gone = {}
    /\ loop = [n \in Node |-> Asleep]
    /\ link = FALSE
    /\ wire = [n \in Node |-> [m \in Node |-> Nothing]]
    /\ asked = Nothing
    /\ job = [j \in Job |-> Waits]
    /\ faults = 0
    /\ held = First

Fault == faults < MaxFaults /\ faults' = faults + 1
Works == UNCHANGED faults

\* certmgr at node n: it works, it fails, or it is not there at all.  A node
\* without CryptoPro gives up certstool: its commands answer nothing.
Command(n) == n \notin gone /\ Works /\ UNCHANGED gone
Fails(n) ==
    \/ n \in gone /\ Works /\ UNCHANGED gone
    \/ n \notin gone /\ Fault /\ gone' \in {gone, gone \cup {n}}

\* What -list shows, nothing when it fails.
Listing(n, seen) ==
    \/ Command(n) /\ seen = Has(n)
    \/ Fails(n) /\ seen = {}

Put(n, c, who) ==
    /\ pin' = [pin EXCEPT ![n][c] = who]
    /\ held' = [held EXCEPT ![n] = @ \cup {c}]
Drop(n, c) == pin' = [pin EXCEPT ![n][c] = None] /\ UNCHANGED held

\* CertsIndex.
\* Mutant: flags are set and never taken back.
UpdateLocalKeeps(n, seen) == local' = [local EXCEPT ![n] = @ \cup seen]
UpdateLocal(n, seen) == local' = [local EXCEPT ![n] = seen]

Merged(n, m, certs) == [on EXCEPT ![n][m] = certs]

\* Mutant: the digest holds every entry of the index.
DigestOfAll(n) == local[n] \cup UNION {on[n][m] : m \in Node}
DigestOf(n) == local[n]

-----------------------------------------------------------------------------
At(n, pc) == loop[n].pc = pc
LoopAt(n, pc, seen) == loop' = [loop EXCEPT ![n] = [pc |-> pc, seen |-> seen]]

\* The loop lists; what it saw goes into the index and out to the others.
LoopLists(n) ==
    /\ At(n, "sleep") /\ n \notin gone
    /\ \E seen \in SUBSET Cert :
         Listing(n, seen) /\ LoopAt(n, IF n \in gone' THEN "last" ELSE "listed", seen)
    /\ UNCHANGED <<storeVars, local, on, netVars, job>>

\* One digest under way from a node to another: the bound of the model.
Free(n) == \A m \in Node \ {n} : wire[n][m] = Nothing

LoopSends(n) ==
    /\ At(n, "listed") /\ n \notin gone /\ Free(n)
    /\ UpdateLocal(n, loop[n].seen) /\ UNCHANGED on
    /\ wire' = IF link THEN [wire EXCEPT ![n] = [m \in Node |-> IF m = n THEN Nothing
                                                                ELSE DigestOf(n)']]
               ELSE wire
    /\ LoopAt(n, "sleep", {})
    /\ UNCHANGED <<storeVars, gone, link, asked, job, faults>>

\* _terminate_no_csp cancels the loop: at once when another command found out,
\* at its next await, the sending, when it was its own listing.
LoopEnds(n) ==
    /\ n \in gone /\ ~At(n, "over")
    /\ IF At(n, "last") THEN UpdateLocal(n, loop[n].seen) ELSE UNCHANGED local
    /\ LoopAt(n, "over", {})
    /\ UNCHANGED <<storeVars, on, gone, netVars, job, faults>>

\* CERT_SYNC arrives, at a node without certstool too.
Sync(n, m) ==
    /\ wire[m][n] # Nothing
    /\ on' = Merged(n, m, wire[m][n])
    /\ wire' = [wire EXCEPT ![m][n] = Nothing]
    /\ UNCHANGED <<storeVars, local, gone, loop, link, asked, job, faults>>

\* A link: the node that took the connection asks for the digest when the other
\* announces certstool, and sends its own, whatever came of it.
Connect ==
    /\ ~link /\ link' = TRUE
    /\ \E m \in Node \ {Server} :
         IF m \in gone THEN UNCHANGED <<wire, asked, faults>>
         ELSE /\ \/ asked' = DigestOf(m) /\ Works
                 \/ Fault /\ UNCHANGED asked
              /\ wire' = [wire EXCEPT ![Server][m] = DigestOf(Server)]
    /\ UNCHANGED <<storeVars, local, on, gone, loop, job>>

\* The task that asked runs again after the packet was handled.
MergeAnswer ==
    /\ asked # Nothing
    /\ \E m \in Node \ {Server} : on' = Merged(Server, m, asked)
    /\ asked' = Nothing
    /\ UNCHANGED <<storeVars, local, gone, loop, link, wire, job, faults>>

Disconnect ==
    /\ link /\ Fault /\ link' = FALSE
    /\ wire' = [n \in Node |-> [m \in Node |-> Nothing]]
    /\ UNCHANGED <<storeVars, local, on, gone, loop, asked, job>>

\* The index and the calls of a node are in memory only.
Restart(n) ==
    /\ Fault
    /\ local' = [local EXCEPT ![n] = {}]
    /\ on' = [on EXCEPT ![n] = [m \in Node |-> {}]]
    /\ gone' = gone \ {n}
    /\ loop' = [loop EXCEPT ![n] = Asleep]
    /\ link' = FALSE
    /\ wire' = [k \in Node |-> [m \in Node |-> Nothing]]
    /\ asked' = IF n = Server THEN Nothing ELSE asked
    /\ job' = [j \in Job |-> IF Site[j] = n /\ job[j].pc \notin {"idle", "done"}
                             THEN [job[j] EXCEPT !.pc = "done", !.result = "lost"]
                             ELSE job[j]]
    /\ UNCHANGED storeVars

-----------------------------------------------------------------------------
\* Calls.  The steps of one follow each other, others come between them.
Stands(j, pc) == job[j].pc = pc
Is(j, kind) == job[j].kind = kind
Goes(j, pc) == job' = [job EXCEPT ![j].pc = pc]
Ends(j, result) == job' = [job EXCEPT ![j].pc = "done", ![j].result = result]
Here(j) == Site[j]
What(j) == job[j].cert
Quiet == UNCHANGED <<local, on, loop, netVars>>

\* A fetch is of a certificate that network_certs offers: not flagged here, on a
\* node of the list.  install_from_node looks at the flag again, and only now.
Offered(n, m, c) == m # n /\ c \in on[n][m] /\ c \notin local[n]

\* Where a call of a kind begins.
Begins(kind) == IF kind = "load" THEN "install"
                ELSE IF kind = "delete" THEN "erase" ELSE "lookup"

Call(j) ==
    /\ Stands(j, "idle")
    /\ \E kind \in Kind[j], c \in Cert, m \in Node :
         /\ kind = "fetch" => Offered(Here(j), m, c)
         /\ kind # "fetch" => m = Here(j)
         /\ kind = "delete" => c \in Has(m)
         /\ job' = [job EXCEPT ![j] =
              [Waits EXCEPT !.kind = kind, !.cert = c, !.src = m,
                            !.pc = Begins(kind)]]
    /\ UNCHANGED <<storeVars, gone, faults>> /\ Quiet

\* get_certificate_info of the source, or the listing of a fix: the call fails
\* when the nodes are not connected, and over the network by itself too.
Lookup(j) ==
    /\ Stands(j, "lookup")
    /\ \E seen \in SUBSET Cert :
         /\ Listing(job[j].src, seen)
         /\ IF What(j) \in seen /\ (link \/ Here(j) = job[j].src) THEN Goes(j, "export")
            ELSE Ends(j, "error")
    /\ UNCHANGED storeVars /\ Quiet

\* export_certificate_pfx: what is exported carries the password of the call.
Export(j) ==
    /\ Stands(j, "export")
    /\ \/ /\ Command(job[j].src) /\ What(j) \in Has(job[j].src)
          /\ link \/ Here(j) = job[j].src
          /\ Goes(j, IF Is(j, "fix") THEN "erase" ELSE "install")
       \/ Command(job[j].src) /\ (What(j) \notin Has(job[j].src) \/ ~link) /\ Ends(j, "error")
       \/ Fails(job[j].src) /\ Ends(j, "error")
    /\ UNCHANGED storeVars /\ Quiet

\* delete_certificate, by itself or before the installation of a fix, which
\* goes on when it fails.
Erase(j) ==
    /\ Stands(j, "erase")
    /\ \/ /\ Command(Here(j)) /\ Drop(Here(j), What(j))
          /\ IF Is(j, "fix") THEN Goes(j, "install") ELSE Ends(j, "ok")
       \/ /\ Fails(Here(j)) /\ UNCHANGED storeVars
          /\ IF Is(j, "fix") THEN Goes(j, "install") ELSE Ends(j, "error")
    /\ Quiet

\* certmgr -install of a PFX.
Install(j) ==
    /\ Stands(j, "install")
    /\ LET once == Is(j, "fetch")
       IN  \/ /\ Command(Here(j))
              /\ Put(Here(j), What(j), IF once THEN "once" ELSE "user")
              /\ IF Is(j, "fix") THEN Ends(j, "ok")
                 ELSE Goes(j, IF once THEN "password" ELSE "cer")
           \/ Fails(Here(j)) /\ Ends(j, "error") /\ UNCHANGED storeVars
    /\ Quiet

\* deploy_certificate goes on with the CER and the password, and fails with
\* either; the installations from bytes end here.
Finish(j) ==
    /\ Stands(j, "cer")
    /\ \/ Command(Here(j)) /\ Ends(j, "ok")
       \/ Fails(Here(j)) /\ Ends(j, "error")
    /\ UNCHANGED storeVars /\ Quiet

\* csptest -passwd after a fetch: nobody looks at what it says.
Password(j) ==
    /\ Stands(j, "password")
    /\ \/ /\ Command(Here(j))
          /\ pin' = [pin EXCEPT ![Here(j)][What(j)] = IF @ = None THEN None ELSE "user"]
       \/ Fails(Here(j)) /\ UNCHANGED pin
    /\ Goes(j, "list")
    /\ UNCHANGED <<held>> /\ Quiet

\* A listing of its own goes into the index.
List(j) ==
    /\ Stands(j, "list")
    /\ \E seen \in SUBSET Cert :
         /\ Listing(Here(j), seen)
         /\ job' = [job EXCEPT ![j].pc = "index", ![j].seen = seen]
    /\ UNCHANGED storeVars /\ Quiet

Index(j) ==
    /\ Stands(j, "index")
    /\ UpdateLocal(Here(j), job[j].seen)
    /\ Ends(j, "ok")
    /\ UNCHANGED <<storeVars, on, gone, loop, netVars, faults>>

Step(j) == Call(j) \/ Lookup(j) \/ Export(j) \/ Erase(j) \/ Install(j) \/ Finish(j)
           \/ Password(j) \/ List(j) \/ Index(j)

LoopStep(n) == LoopLists(n) \/ LoopSends(n) \/ LoopEnds(n)

Next == \/ \E j \in Job : Step(j)
        \/ \E n \in Node : LoopStep(n) \/ Restart(n)
        \/ \E n, m \in Node : Sync(n, m)
        \/ Connect \/ MergeAnswer \/ Disconnect

Spec == Init /\ [][Next]_vars

-----------------------------------------------------------------------------
\* A node offers only what it held once (certs_index.py:148).
OffersHeld == \A n, m \in Node : on[n][m] \subseteq held[m]

\* An answer of success is true: what a fetch, a load or a fix reported as
\* installed is there as long as nobody takes it away (service.py:649).
Untouched(j) == \A i \in Job \ {j} : job[i].kind \in {"fix", "delete"} =>
                   Here(i) # Here(j) \/ What(i) # What(j)
InstalledIsThere ==
    \A j \in Job : job[j].result = "ok" /\ ~Is(j, "delete") /\ Untouched(j)
                     => What(j) \in Has(Here(j))

\* The loop of every node and its messages go on (_cert_sync_loop, 60 s).
Fairness == /\ \A n \in Node : WF_vars(LoopStep(n))
            /\ \A n, m \in Node : WF_vars(Sync(n, m))
            /\ WF_vars(MergeAnswer)

\* The index of a node comes to agree with what is installed, here and on the node
\* it is connected to, after all calls and faults too (service.py:77).
Agrees == \A n \in Node \ gone :
            /\ local[n] = Has(n)
            /\ \A m \in Node \ {n} : link /\ m \notin gone => on[n][m] = Has(m)
IndexHeals == ~Agrees ~> Agrees

\* service.py:655: the password of a fetched container is the one of the user.
PasswordReplaced ==
    \A j \in Job : Is(j, "fetch") /\ job[j].result = "ok"
                     => pin[Here(j)][What(j)] # "once"

\* service.py:788: a fix mends the link of a certificate; it does not lose it.
FixKeeps ==
    \A j \in Job : Is(j, "fix") /\ job[j].result = "error" /\ Untouched(j)
                     => What(j) \in Has(Here(j)) \/ What(j) \notin held[Here(j)]

=============================================================================
