-------------------------------- MODULE Http --------------------------------
(* The request handlers of the HTTP server (server.py, Handler): a thread   *)
(* per connection, the tables of failed logins shared by all of them with   *)
(* no lock, the state of the current request kept per thread, and the audit *)
(* of every change before its answer.  The tokens do not change here.       *)
EXTENDS Integers, FiniteSets

CONSTANTS Request,   \* one POST, login or unauthorised GET each
          Verb,      \* Request -> {"get", "post", "login", "hook"}
          User,      \* Request -> whose token it carries, or Nobody
          Nobody,
          RoleOf,    \* user -> {"admin", "operator", "viewer"}
          OperatorMay, \* requests whose action an operator may do
          Ip,        \* Request -> address
          MaxFails   \* AUTH_MAX_FAILS

Ips == {Ip[r] : r \in Request}

VARIABLES th,     \* the threads: where they stand, and the status answered
          fails,  \* AUTH_FAILS
          block,  \* AUTH_BLOCK
          seen,   \* the count a thread has read from AUTH_FAILS
          actor,  \* _request_state.actor of each thread
          effects,\* requests whose handler has run
          audit   \* audit_log

vars == <<th, fails, block, seen, actor, effects, audit>>

Statuses == {0, 200, 400, 401, 403, 404, 408, 413, 415, 429, 500, 503}

TypeOK ==
    /\ th \in [Request -> [pc : {"idle", "auth", "form", "role", "run", "audit",
                                 "reply", "fail", "count", "reset", "done"},
                           status : Statuses]]
    /\ fails \in [Ips -> 0 .. MaxFails + Cardinality(Request)]
    /\ block \subseteq Ips
    /\ seen \in [Request -> 0 .. MaxFails + Cardinality(Request)]
    /\ effects \subseteq Request
    /\ \A row \in audit : row.of \in Request /\ row.status \in Statuses

Init ==
    /\ th = [r \in Request |-> [pc |-> "idle", status |-> 0]]
    /\ fails = [i \in Ips |-> 0]
    /\ block = {}
    /\ seen = [r \in Request |-> 0]
    /\ actor = [r \in Request |-> Nobody]
    /\ effects = {}
    /\ audit = {}

At(r, pc) == th[r].pc = pc
Go(r, pc) == th' = [th EXCEPT ![r].pc = pc]
Answer(r, code) == th' = [th EXCEPT ![r] = [pc |-> "done", status |-> code]]
AnswerThen(r, code, pc) == th' = [th EXCEPT ![r] = [pc |-> pc, status |-> code]]
tables == <<fails, block, seen>>
work == <<actor, effects, audit>>

\* do_GET and do_POST up to the identity: the allowlist may deny, a blocked
\* address waits.
Arrive(r) ==
    /\ At(r, "idle")
    /\ \/ Answer(r, 403)
       \/ IF Ip[r] \in block THEN Answer(r, 429) ELSE Go(r, "auth")
    /\ UNCHANGED <<tables, work>>

\* _identity: the token of a configured user.  A login is judged later; a
\* receiver that is not authorised is answered 401 and not counted; so is a
\* GET without X-Auth, while one that carries a wrong token is counted.
Authenticate(r) ==
    /\ At(r, "auth")
    /\ IF User[r] # Nobody \/ Verb[r] = "login" THEN Go(r, "form")
       ELSE IF Verb[r] = "hook" THEN Answer(r, 401)
       ELSE IF Verb[r] = "get" THEN Answer(r, 401) \/ Go(r, "fail")
       ELSE Go(r, "fail")
    /\ UNCHANGED <<tables, work>>

\* What else is wrong with a request before its body is known: content type,
\* origin, X-Auth, length; then the body itself.
BadForm(r) ==
    /\ At(r, "form") /\ Verb[r] # "get"
    /\ \E code \in {400, 403, 408, 413, 415} :
         /\ Verb[r] = "login" => code \notin {403, 415}
         /\ Answer(r, code)
    /\ UNCHANGED <<tables, work>>

\* The body is read; a login compares the token, a GET has no body.
BodyRead(r) ==
    /\ At(r, "form")
    /\ CASE Verb[r] = "get" -> Go(r, "run")
         [] Verb[r] # "login" -> Go(r, "role")
         [] User[r] = Nobody -> AnswerThen(r, 401, "fail")
         [] OTHER -> AnswerThen(r, 200, "reset")
    /\ UNCHANGED <<tables, work>>

\* The two pops that follow the answer to a login.
LoginResets(r) ==
    /\ At(r, "reset")
    /\ fails' = [fails EXCEPT ![Ip[r]] = 0]
    /\ block' = block \ {Ip[r]}
    /\ Go(r, "done")
    /\ UNCHANGED <<seen, work>>

\* _auth_fail reads the entry of the address ...
FailRead(r) ==
    /\ At(r, "fail")
    /\ seen' = [seen EXCEPT ![r] = fails[Ip[r]]]
    /\ Go(r, "count")
    /\ UNCHANGED <<fails, block, work>>

\* ... and writes it one higher, or blocks the address.
FailWrite(r) ==
    /\ At(r, "count")
    /\ IF seen[r] + 1 >= MaxFails
         THEN /\ fails' = [fails EXCEPT ![Ip[r]] = 0]
              /\ block' = block \cup {Ip[r]}
         ELSE /\ fails' = [fails EXCEPT ![Ip[r]] = seen[r] + 1]
              /\ UNCHANGED block
    /\ Answer(r, 401)
    /\ UNCHANGED <<seen, work>>

\* AUTH_BLOCK_SEC is over, for the block or for the count.
Forget(i) ==
    /\ \/ block' = block \ {i} /\ UNCHANGED fails
       \/ fails' = [fails EXCEPT ![i] = 0] /\ UNCHANGED block
    /\ UNCHANGED <<th, seen, work>>

\* The route and the role; then the request's state is put into the thread.
Sender(r) == IF Verb[r] = "hook" THEN "alertmanager" ELSE User[r]
Permitted(r) == \/ Verb[r] = "hook"
                \/ RoleOf[User[r]] = "admin"
                \/ RoleOf[User[r]] = "operator" /\ r \in OperatorMay

\* Mutant: the state of the request is that of the handler's class.
RememberShared(r) == [q \in Request |-> Sender(r)]

Remember(r) == [actor EXCEPT ![r] = Sender(r)]

Admit(r) ==
    /\ At(r, "role")
    /\ \/ Answer(r, 404) /\ UNCHANGED actor
       \/ /\ Permitted(r)
          /\ Go(r, "run")
          /\ actor' = Remember(r)
       \/ ~Permitted(r) /\ Answer(r, 403) /\ UNCHANGED actor
    /\ UNCHANGED <<tables, effects, audit>>

\* A GET's handler reads; its actor is cached too.
Read(r) ==
    /\ At(r, "run") /\ Verb[r] = "get"
    /\ actor' = Remember(r)
    /\ \E code \in {200, 400, 404, 500} : Answer(r, code)
    /\ UNCHANGED <<tables, effects, audit>>

\* The handler of a POST: an exception becomes a status.
Handle(r) ==
    /\ At(r, "run") /\ Verb[r] # "get"
    /\ effects' = effects \cup {r}
    /\ \E code \in {200, 400, 500, 503} : AnswerThen(r, code, "audit")
    /\ UNCHANGED <<tables, actor, audit>>

\* The row, from the thread's state; an error of the database is swallowed.
Audit(r) ==
    /\ At(r, "audit")
    /\ audit' \in {audit \cup {[of |-> r, user |-> actor[r], status |-> th[r].status]},
                   audit}
    /\ Go(r, "reply")
    /\ UNCHANGED <<tables, actor, effects>>

Reply(r) ==
    /\ At(r, "reply")
    /\ Go(r, "done")
    /\ UNCHANGED <<tables, work>>

-----------------------------------------------------------------------------
Step(r) == Arrive(r) \/ Authenticate(r) \/ BadForm(r) \/ BodyRead(r)
           \/ LoginResets(r) \/ FailRead(r) \/ FailWrite(r) \/ Admit(r)
           \/ Read(r) \/ Handle(r) \/ Audit(r) \/ Reply(r)

Next == (\E r \in Request : Step(r)) \/ (\E i \in Ips : Forget(i))

Spec == Init /\ [][Next]_vars

-----------------------------------------------------------------------------
\* The audit tells who did what: a row is about a change that was made, by the
\* user who asked for it and not one of a request in another thread, with the
\* status he was answered, and nobody of a lower role has one (server.py:2384).
AuditTrue ==
    /\ \A row \in audit : /\ row.of \in effects
                          /\ row.user = Sender(row.of) /\ Permitted(row.of)
                          /\ row.status = th[row.of].status
    /\ \A r \in effects : Permitted(r)

=============================================================================
