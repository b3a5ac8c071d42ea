-------------------------------- MODULE MCHub --------------------------------
(* Small instances of the parts of the hub.                                 *)
EXTENDS Hub

CONSTANTS q1, q2, q3, q4,        \* requests
          ann, oscar,            \* users
          near,                  \* their address
          t1, t2,                \* the name of a machine and its address
          u1, d1, d2             \* an upload and two downloads of a speed test

\* Two scans would not fit, a scan with its watcher and two CVE checks do.
MCKind == [q \in Request |-> CASE q = q1 -> "scan" [] q = q3 -> "poll" [] OTHER -> "cve"]

MCRole == [u \in {ann, oscar} |-> IF u = ann THEN "admin" ELSE "operator"]
MCIp == [q \in Request |-> near]

\* In "http" an administrator, an operator who may do one of two things, a
\* failing login and a stranger that posts; in "get" an authorised receiver,
\* readers, one of whom carries no token, and a login that succeeds.
MCVerb ==
    [mix \in Mix |-> [q \in Request |->
        IF mix = "http" THEN IF q = q3 THEN "login" ELSE "post"
        ELSE CASE q = q1 -> "hook" [] q = q3 -> "login" [] OTHER -> "get"]]
MCUser ==
    [mix \in Mix |-> [q \in Request |->
        IF mix = "http" THEN CASE q = q1 -> ann [] q = q2 -> oscar [] OTHER -> NoUser
        ELSE CASE q = q2 -> oscar [] q = q4 -> NoUser [] OTHER -> ann]]
MCOperatorMay == [mix \in Mix |-> IF mix = "http" THEN {q2} ELSE {}]

MCWriter == [q \in Request |-> CASE q = q2 -> "device" [] q = q3 -> "rule"
                                 [] OTHER -> "settings"]

\* However it is polled, the machine reports its name; the list has the name of
\* a row before its address.
MCSays == [t \in Target |-> t1]
MCBefore == {<<t1, t2>>}

\* A bidirectional test with two parallel downloads.
MCWay == [t \in Test |-> IF t = u1 THEN "upload" ELSE "download"]

=============================================================================
