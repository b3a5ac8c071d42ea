----------------------------- MODULE ConfigFile -----------------------------
(* Remote editing of config.yaml (p2p_core/services/config/service.py):     *)
(* save and restore are coroutines; the check of the file's time and the    *)
(* writing of the file run in threads, so two calls may overlap.  All of    *)
(* them write through one temporary file, which each of them empties first. *)
EXTENDS Naturals, Sequences, SequencesExt

CONSTANTS Call,      \* RPC calls of save and restore, each made once
          Body,      \* what a text says but for the secret of the node
          Good,      \* bodies the model of the configuration accepts
          Partial,   \* bodies of a file that is not written to its end
          Secret,
          First,     \* the text at the start, and of the defaults
          Keep,      \* MAX_BACKUPS
          MaxTime    \* bound on the writes of the file

Void == "void"       \* no file; no text
Mask == "mask"       \* SECRET_PLACEHOLDER
Empty == "empty"     \* no secret

Text == [body : Body, secret : Secret \cup {Empty}]
Valid == {t \in Text : t.body \in Good}
Torn == {t \in Text : t.body \in Partial}
Nothing == [body |-> Void, secret |-> Empty]

VARIABLES file,    \* config.yaml: its text and its mtime
          tmp,     \* config.yaml.tmp, shared by all writers
          backups, \* the backup directory, oldest first
          live,    \* ctx.config and config_manager.cfg; Nothing while no node runs
          call,    \* the calls
          hold,    \* call -> the file its open handle writes to
          mixed,   \* calls into whose open file another one has written
          alone,   \* history: no other call has overlapped this one
          clash    \* history: a call began to write while another one wrote

vars == <<file, tmp, backups, live, call, hold, mixed, alone, clash>>

Idle == [pc |-> "idle", text |-> Nothing, base |-> 0, result |-> "none"]

TypeOK ==
    /\ file \in [text : Text, mtime : 1 .. MaxTime]
    /\ tmp \in Text \cup {Nothing}
    /\ backups \in Seq(Text)
    /\ live \in Valid \cup {Nothing}
    /\ call \in [Call -> [pc : {"idle", "stat", "backup", "tmp", "write", "replace",
                                "sync", "ended"},
                          text : Valid \cup {Nothing}, base : 0 .. MaxTime,
                          result : {"none", "ok", "error", "conflict"}]]
    /\ hold \in [Call -> {"none", "tmp", "file", "lost"}]
    /\ mixed \subseteq Call
    /\ alone \in [Call -> BOOLEAN] /\ clash \in BOOLEAN

Init ==
    /\ file = [text |-> First, mtime |-> 1]
    /\ tmp = Nothing
    /\ backups = <<>>
    /\ live = First
    /\ call = [c \in Call |-> Idle]
    /\ hold = [c \in Call |-> "none"] /\ mixed = {}
    /\ alone = [c \in Call |-> TRUE] /\ clash = FALSE

At(c, pc) == call[c].pc = pc
Go(c, pc) == call' = [call EXCEPT ![c].pc = pc]
End(c, result) == call' = [call EXCEPT ![c].pc = "ended", ![c].result = result]
Active == {c \in Call : call[c].pc \notin {"idle", "ended"}}
Writing == {c \in Call : call[c].pc \in {"write", "replace"}}
handles == <<hold, mixed>>
histories == <<alone, clash>>

\* The text with the secret in place of its mask: that of the live objects, now.
Unmasked(text) == IF text.secret = Mask THEN [text EXCEPT !.secret = live.secret] ELSE text

\* What _commit does before its first await: parse, unmask, validate.  A mask
\* stands for no secret where the node has none.  A base of 0 is that of a call
\* without base_mtime, which is never in conflict.
Commit(c, text, base) ==
    /\ At(c, "idle") /\ live # Nothing
    /\ IF text.body \in Good /\ ~(text.secret = Mask /\ live.secret = Empty)
         THEN /\ call' = [call EXCEPT ![c] = [Idle EXCEPT !.pc = "stat", !.base = base,
                                                          !.text = Unmasked(text)]]
              /\ alone' = [d \in Call |-> IF Active = {} THEN alone[d]
                                          ELSE alone[d] /\ d \notin Active \cup {c}]
         ELSE /\ End(c, "error")
              /\ UNCHANGED alone
    /\ UNCHANGED <<file, tmp, backups, live, handles, clash>>

\* save, by an editor that read the file at some time before (get), with the
\* secret masked or not.
Save(c) == \E body \in Body, secret \in Secret \cup {Empty, Mask}, base \in 0 .. file.mtime :
               Commit(c, [body |-> body, secret |-> secret], base)

\* restore takes a backup by its name, and no base time.
Restore(c) == \E i \in DOMAIN backups : Commit(c, backups[i], 0)

\* The check of the time, in a thread.
Stat(c) ==
    /\ At(c, "stat")
    /\ IF call[c].base \in {0, file.mtime} THEN Go(c, "backup")
                                           ELSE End(c, "conflict")
    /\ UNCHANGED <<file, tmp, backups, live, handles, histories>>

\* _backup_and_write: a copy unless the newest backup has this content, then
\* the rotation.
Newest == IF backups = <<>> THEN Nothing ELSE Last(backups)

\* Mutant: the rotation sorts the wrong way round.
RotatedNewest(s) == IF Len(s) > Keep THEN SubSeq(s, 1, Keep) ELSE s

Rotated(s) == IF Len(s) > Keep THEN SubSeq(s, Len(s) - Keep + 1, Len(s)) ELSE s
Backup(c) ==
    /\ At(c, "backup")
    /\ backups' = Rotated(IF Newest = file.text THEN backups
                                                ELSE Append(backups, file.text))
    /\ Go(c, "tmp")
    /\ UNCHANGED <<file, tmp, live, handles, histories>>

\* write_text opens the temporary file and empties it, whoever else is at it ...
OpenTmp(c) ==
    /\ At(c, "tmp")
    /\ tmp' \in Torn
    /\ hold' = [hold EXCEPT ![c] = "tmp"]
    /\ clash' = (clash \/ Writing # {})
    /\ Go(c, "write")
    /\ UNCHANGED <<file, backups, live, mixed, alone>>

\* The file that the handle of c writes to gets a text: the temporary file, the
\* one that another call has moved to config.yaml, or one that is no longer there.
Puts(c, text) ==
    /\ tmp' = IF hold[c] = "tmp" THEN text ELSE tmp
    /\ IF hold[c] = "file"
         THEN /\ file.mtime < MaxTime
              /\ file' = [text |-> text, mtime |-> file.mtime + 1]
         ELSE UNCHANGED file
    /\ hold' = [hold EXCEPT ![c] = "none"]

\* ... then writes it from its beginning, over what another one has put there
\* in the meantime, whose end may remain, and closes it.
Write(c) ==
    /\ At(c, "write")
    /\ \E text \in {call[c].text} \cup (IF c \in mixed THEN Torn ELSE {}) : Puts(c, text)
    /\ mixed' = (mixed \cup {d \in Call : hold[d] = hold[c]}) \ {c}
    /\ Go(c, "replace")
    /\ UNCHANGED <<backups, live, histories>>

\* os.replace: an error when another writer has taken the file away.  Handles
\* stay with the files they have opened.
Moved == [tmp |-> "file", file |-> "lost", lost |-> "lost", none |-> "none"]
Replace(c) ==
    /\ At(c, "replace")
    /\ IF tmp = Nothing
         THEN End(c, "error") /\ UNCHANGED <<file, tmp, hold>>
         ELSE /\ file.mtime < MaxTime
              /\ file' = [text |-> tmp, mtime |-> file.mtime + 1]
              /\ tmp' = Nothing
              /\ hold' = [d \in Call |-> Moved[hold[d]]]
              /\ Go(c, "sync")
    /\ UNCHANGED <<backups, live, mixed, histories>>

\* The disk fails in one of the steps, or a file is in use: a copy or a text is
\* cut off.
WriteFails(c) ==
    /\ call[c].pc \in {"backup", "tmp", "write", "replace"}
    /\ End(c, "error")
    /\ \/ At(c, "backup") /\ \E t \in Torn : backups' = Append(backups, t)
       \/ UNCHANGED backups
    /\ \/ At(c, "write") /\ \E t \in Torn : Puts(c, t)
       \/ hold' = [hold EXCEPT ![c] = "none"] /\ UNCHANGED <<file, tmp>>
    /\ mixed' = mixed \ {c}
    /\ UNCHANGED <<live, histories>>

\* Back in the event loop: _sync_live and _apply_hot.
Sync(c) ==
    /\ At(c, "sync")
    /\ live' = call[c].text
    /\ End(c, "ok")
    /\ UNCHANGED <<file, tmp, backups, handles, histories>>

\* The node ends, and with it the calls; it starts and reads the file.  One that
\* is not valid stops it; an empty one is filled in with the defaults.
Restart ==
    /\ live # Nothing /\ (Active # {} \/ file.text \notin Valid)
    /\ \/ file.text \in Valid /\ live' = file.text /\ UNCHANGED file
       \/ file.text \notin Valid /\ live' = Nothing /\ UNCHANGED file
       \/ /\ file.text \notin Valid /\ file.mtime < MaxTime
          /\ file' = [text |-> First, mtime |-> file.mtime + 1] /\ live' = First
    /\ call' = [c \in Call |-> IF c \in Active
                                 THEN [call[c] EXCEPT !.pc = "ended"] ELSE call[c]]
    /\ hold' = [c \in Call |-> "none"] /\ mixed' = {}
    /\ UNCHANGED <<tmp, backups, histories>>

Next ==
    \/ \E c \in Call : \/ Save(c) \/ Restore(c) \/ Stat(c) \/ Backup(c) \/ OpenTmp(c)
                       \/ Write(c) \/ Replace(c) \/ WriteFails(c) \/ Sync(c)
    \/ Restart

Spec == Init /\ [][Next]_vars

-----------------------------------------------------------------------------
\* A text that does not validate does not reach the disk as long as no two calls
\* have been writing at once, and a save that nothing overlapped puts in place
\* its own text and keeps what it replaces, among few copies (service.py:214,
\* service.py:336, service.py:355).
FileRecoverable ==
    /\ ~clash => file.text \in Valid
    /\ \A c \in Call : alone[c] /\ At(c, "replace") =>
          tmp = call[c].text /\ Newest = file.text /\ Len(backups) <= Keep

\* The running node and the file agree when every save that was under way has
\* ended and none of them overlapped another (service.py:226): no failed save
\* takes effect, in the file or in the node.
SavedIsLive ==
    (\A c \in Call : alone[c]) /\ Active = {} => live = file.text

\* Not so: service.py:13, "a broken configuration does not get to the disk", and
\* service.py:7, "an atomic write".  A second call empties the temporary file that
\* the first one then moves in place (service.py:362).
FileStaysWhole == file.text \in Valid

\* service.py:14: "if the file was changed since it was read, refusal".
ConflictRefused ==
    [][\A c \in Call : call[c].base # 0 /\ At(c, "replace") /\ file' # file
                       /\ call'[c].pc = "sync" => call[c].base = file.mtime]_vars

=============================================================================
