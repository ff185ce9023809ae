----------------------------- MODULE Commission -----------------------------
(***************************************************************************)
(* Commissioning: POST /config/{service} of the API (configwrite.go), the  *)
(* restart trigger it leaves in a file, the root oneshot that works the    *)
(* file off (scripts/lexa-commission-apply, started by a systemd path      *)
(* unit), the services it restarts, and the boots in between.              *)
(* Every request runs in its own goroutine; the oneshot is another         *)
(* process.                                                                *)
(***************************************************************************)
EXTENDS Naturals, FiniteSets

-----------------------------------------------------------------------------
(* The configuration files and what a boot does to them before any service *)
(* starts (cmd/lexa-migrate): finish an interrupted commit, then bring     *)
(* each file to the newest known version, a backup before every step and a *)
(* staged write after it.  The power may fail between any two steps.       *)
(*                                                                         *)
(* A document is who wrote it and its schema version.  A file that was     *)
(* opened for writing is Torn until the write has been synced.             *)

CONSTANTS Services, Writers, MaxV

ASSUME MigrateAssumption ==
    MaxV \in Nat \ {0} /\ Writers \cap {"factory", "nobody", "torn"} = {}

VARIABLES
    live, staged,  \* <s>.json and <s>.json.staged, or NoFile
    backup,        \* backup[s][v]: <s>.json.pre-v<v>, or NoFile
    todo,          \* files the boot has yet to process; NoFile when it is over
    fileStep, doc        \* the file being processed: the next step, and what was read

files == <<live, staged, backup>>
migrateVars == <<files, todo, fileStep, doc>>

NoFile == [by |-> "nobody", v |-> 0]
Torn == [by |-> "torn", v |-> 0]
Doc(w, v) == [by |-> w, v |-> v]
Whole(content) == content \notin {NoFile, Torn}

Booting == todo # {}
NoBackups == [v \in 0..MaxV - 1 |-> NoFile]

InitMigrate ==
    /\ live \in [Services -> {Doc("factory", v) : v \in 0..MaxV + 1}]
    /\ staged = [s \in Services |-> NoFile]
    /\ backup = [s \in Services |-> NoBackups]
    /\ todo = Services /\ fileStep = "recover" /\ doc = NoFile

-----------------------------------------------------------------------------
(* processFile, for any of the files still to do.                          *)

\* Mutant: whatever the crash left is renamed into place.
MutRecoverStaged(s) ==
    /\ live' = [live EXCEPT ![s] = IF staged[s] = NoFile THEN @ ELSE staged[s]]
    /\ staged' = [staged EXCEPT ![s] = NoFile]

\* recoverStaged: a whole staged file is committed, a torn one discarded.
RecoverStaged(s) ==
    /\ live' = [live EXCEPT ![s] = IF Whole(staged[s]) THEN staged[s] ELSE @]
    /\ staged' = [staged EXCEPT ![s] = NoFile]

\* A file that cannot be parsed, or is newer than this binary, stays as it is.
Recover(s) ==
    /\ fileStep = "recover" /\ RecoverStaged(s)
    /\ IF live'[s].v < MaxV /\ Whole(live'[s])
       THEN fileStep' = "backup" /\ doc' = live'[s] /\ UNCHANGED todo
       ELSE fileStep' = "recover" /\ doc' = NoFile /\ todo' = todo \ {s}
    /\ UNCHANGED backup

\* backupOnce: one that exists is the original and is not touched.
Taken(s) == backup[s][doc.v] # NoFile

OpenBackup(s) ==
    /\ fileStep = "backup"
    /\ IF Taken(s) THEN fileStep' = "stage" /\ UNCHANGED backup
       ELSE fileStep' = "backing" /\ backup' = [backup EXCEPT ![s][doc.v] = Torn]
    /\ UNCHANGED <<live, staged, doc, todo>>
WriteBackup(s) ==
    /\ fileStep = "backing" /\ fileStep' = "stage"
    /\ backup' = [backup EXCEPT ![s][doc.v] = live[s]]
    /\ UNCHANGED <<live, staged, doc, todo>>

\* The step is applied to what was read; writeStaged.
OpenStaged(s) ==
    /\ fileStep = "stage" /\ fileStep' = "staging"
    /\ doc' = [doc EXCEPT !.v = @ + 1]
    /\ staged' = [staged EXCEPT ![s] = Torn]
    /\ UNCHANGED <<live, backup, todo>>
WriteStaged(s) ==
    /\ fileStep = "staging" /\ fileStep' = "rename"
    /\ staged' = [staged EXCEPT ![s] = doc]
    /\ UNCHANGED <<live, backup, doc, todo>>
CommitStaged(s) ==
    /\ fileStep = "rename"
    /\ live' = [live EXCEPT ![s] = staged[s]] /\ staged' = [staged EXCEPT ![s] = NoFile]
    /\ IF doc.v < MaxV THEN fileStep' = "backup" /\ UNCHANGED <<doc, todo>>
       ELSE fileStep' = "recover" /\ doc' = NoFile /\ todo' = todo \ {s}
    /\ UNCHANGED backup

\* The files are processed in a fixed order.
ProcessFile ==
    /\ Booting
    /\ LET s == CHOOSE f \in todo : TRUE
       IN  \/ Recover(s) \/ OpenBackup(s) \/ WriteBackup(s)
           \/ OpenStaged(s) \/ WriteStaged(s) \/ CommitStaged(s)

\* What a boot starts from: the files as they are on disk.
Reboot == todo' = Services /\ fileStep' = "recover" /\ doc' = NoFile /\ UNCHANGED files

-----------------------------------------------------------------------------
(* What the boot is for.                                                   *)

\* "the live file is never opened for in-place writes, so a crash mid-write
\* can never leave it torn" (migrate.go:158-160).
NeverTorn == \A s \in Services : Whole(live[s])

-----------------------------------------------------------------------------
(* The writers of the files: lexa-api and the root-side script. *)

CONSTANTS
    Scenes,      \* bounds: which writer writes to which service, with which
                 \* schema version, one after the other (turns) or not, and how
                 \* many faults there may be
    MaxTime      \* seconds

ASSUME ScenesAssumption ==
    \A sc \in Scenes :
        /\ DOMAIN sc.writes \subseteq Writers
        /\ \A w \in DOMAIN sc.writes :
              sc.writes[w].service \in Services /\ sc.writes[w].v \in Nat

VARIABLES
    scene, faults, now,
    sealed,      \* is the commissioned marker there?
    pc, fd,      \* each write: where it is, and the file its descriptor is open on
    request,     \* the names in restart.request
    result,      \* restart.result: its time and each service's status
    reqAt,       \* when each write asked for its restart
    batchOf, left, body,  \* the oneshot: names it works off, those left, statuses
    running,     \* the document each service was last started with
    overlap,     \* ghost: writes whose request met a batch under way, or a result
                 \* of the same second
    untold       \* ghost: services not told of what was written: the request fell
                 \* into a batch that had read the file, and will be removed with
                 \* it; the API died before it asked; or the restart failed

apiVars == <<pc, fd, reqAt>>
oneshotVars == <<batchOf, left, body>>
commissionVars == <<migrateVars, scene, faults, now, sealed, apiVars, request, result,
                    oneshotVars, running, overlap, untold>>

Idle == {}
Statuses == {"ok", "failed"}
NoResult == [ts |-> 0, of |-> [s \in Services |-> "absent"]]
Target(w) == scene.writes[w]
Writing == DOMAIN scene.writes
Finished == {"idle", "failed", "refused", "yes", "no", "late"}
Fault == faults > 0 /\ faults' = faults - 1

InitCommission ==
    /\ InitMigrate
    /\ scene \in Scenes /\ faults = scene.faults /\ now = 1
    /\ sealed = FALSE
    /\ pc = [w \in Writers |-> "idle"] /\ fd = [w \in Writers |-> "none"]
    /\ reqAt = [w \in Writers |-> 0]
    /\ request = {} /\ result = NoResult
    /\ batchOf = {} /\ left = Idle /\ body = NoResult.of
    /\ running = [s \in Services |-> NoFile]
    /\ overlap = {} /\ untold = {}

-----------------------------------------------------------------------------
(* One write: gate, staged write, rename, request, poll.                   *)

Goto(w, label) == pc' = [pc EXCEPT ![w] = label]

Begin(w) ==
    /\ pc[w] = "idle" /\ ~Booting
    /\ scene.turns => \A o \in Writing : pc[o] \in Finished
    /\ IF sealed THEN Goto(w, "refused") /\ UNCHANGED <<files, fd>>
       ELSE /\ Goto(w, "write")
            /\ staged' = [staged EXCEPT ![Target(w).service] = Torn]
            /\ fd' = [fd EXCEPT ![w] = "staged"]
            /\ UNCHANGED <<live, backup>>
    /\ UNCHANGED <<request, reqAt, overlap, faults, untold>>

\* The bytes go to the file behind the descriptor, wherever its name is now.
Filled(w, content) ==
    LET s == Target(w).service
    IN  CASE fd[w] = "staged" -> staged' = [staged EXCEPT ![s] = content] /\ UNCHANGED live
          [] fd[w] = "live"   -> live' = [live EXCEPT ![s] = content] /\ UNCHANGED staged
          [] OTHER            -> UNCHANGED <<live, staged>>

Write(w) ==
    /\ pc[w] = "write"
    /\ \/ /\ Filled(w, Doc(w, Target(w).v)) /\ Goto(w, "rename") /\ UNCHANGED faults
       \/ /\ Fault /\ Filled(w, Torn) /\ Goto(w, "failed")
    /\ UNCHANGED <<backup, fd, request, reqAt, overlap, untold>>

\* rename, unless chmod or rename fails or the staged file is gone.
Rename(w) ==
    LET s == Target(w).service
    IN  /\ pc[w] = "rename"
        /\ \/ /\ staged[s] # NoFile
              /\ live' = [live EXCEPT ![s] = staged[s]]
              /\ staged' = [staged EXCEPT ![s] = NoFile]
              /\ fd' = [o \in Writers |->
                          CASE o = w -> "none"
                            [] o \in Writing \ {w} /\ Target(o).service = s ->
                                  (IF fd[o] = "staged" THEN "live" ELSE "none")
                            [] OTHER -> fd[o]]
              /\ Goto(w, "request") /\ UNCHANGED faults
           \/ /\ (staged[s] = NoFile /\ UNCHANGED faults) \/ Fault
              /\ fd' = [fd EXCEPT ![w] = "none"]
              /\ Goto(w, "failed") /\ UNCHANGED <<live, staged>>
        /\ UNCHANGED <<backup, request, reqAt, overlap, untold>>

\* requestRestart: the name is added to those pending.
RequestRestart(s) == request' = request \cup {s}

Request(w) ==
    LET s == Target(w).service
    IN  /\ pc[w] = "request" /\ Goto(w, "poll")
        /\ reqAt' = [reqAt EXCEPT ![w] = now]
        /\ RequestRestart(s)
        /\ overlap' = IF batchOf # {} \/ result.ts >= now THEN overlap \cup {w} ELSE overlap
        /\ untold' = IF batchOf # {} THEN untold \cup {s} ELSE untold
        /\ UNCHANGED <<files, fd, faults>>

\* Mutant: the first status of the service will do.
MutAnswered(w) == result.of[Target(w).service] # "absent"

\* A result counts if it is not older than the request.
Answered(w) ==
    result.of[Target(w).service] # "absent" /\ result.ts >= reqAt[w]

\* defaultRestartRunner's poll, or its deadline.
PollResult(w) ==
    /\ pc[w] = "poll"
    /\ \/ /\ Answered(w)
          /\ Goto(w, IF result.of[Target(w).service] = "ok" THEN "yes" ELSE "no")
          /\ UNCHANGED faults
       \/ ~Answered(w) /\ Fault /\ Goto(w, "late")
    /\ UNCHANGED <<files, fd, request, reqAt, overlap, untold>>

ApiWrites ==
    /\ \E w \in Writing : Begin(w) \/ Write(w) \/ Rename(w) \/ Request(w) \/ PollResult(w)
    /\ UNCHANGED <<todo, fileStep, doc, scene, now, sealed, result, oneshotVars, running>>

-----------------------------------------------------------------------------
(* The oneshot.  It leaves at once on a commissioned unit.                 *)

Rest == <<migrateVars, scene, apiVars, overlap>>

Start ==
    /\ ~Booting /\ batchOf = {} /\ request # {} /\ ~sealed
    /\ batchOf' = request /\ left' = request /\ body' = NoResult.of
    /\ UNCHANGED <<Rest, faults, now, sealed, request, result, running, untold>>

\* systemctl restart; it fails, or is given up after 30 s.
RestartService(s) ==
    /\ s \in left /\ left' = left \ {s}
    /\ \/ /\ running' = [running EXCEPT ![s] = live[s]]
          /\ body' = [body EXCEPT ![s] = "ok"] /\ UNCHANGED faults
          /\ untold' = untold \ {s}
       \/ /\ Fault /\ body' = [body EXCEPT ![s] = "failed"] /\ UNCHANGED running
          /\ untold' = untold \cup {s}
    /\ UNCHANGED <<Rest, now, sealed, request, result, batchOf>>

WriteResult ==
    /\ batchOf # {} /\ left = Idle /\ body # NoResult.of
    /\ result' = [ts |-> now, of |-> body] /\ body' = NoResult.of
    /\ UNCHANGED <<Rest, faults, now, sealed, request, batchOf, left, running, untold>>

\* rm -f: the file goes, with the names that came after it was read.
RemoveRequest ==
    /\ batchOf # {} /\ left = Idle /\ body = NoResult.of
    /\ request' = {} /\ batchOf' = {}
    /\ UNCHANGED <<Rest, faults, now, sealed, result, left, body, running, untold>>

-----------------------------------------------------------------------------
(* The box.                                                                *)

Second ==
    /\ now < MaxTime /\ now' = now + 1
    /\ UNCHANGED <<Rest, faults, sealed, request, result, oneshotVars, running, untold>>

Commissioned ==
    /\ Fault /\ ~sealed /\ sealed' = TRUE
    /\ UNCHANGED <<Rest, now, request, result, oneshotVars, running, untold>>

\* The API's process dies, and systemd starts it again.
ApiDies ==
    /\ Fault /\ ~Booting
    /\ pc' = [w \in Writers |-> IF pc[w] \in Finished THEN pc[w] ELSE "failed"]
    /\ fd' = [w \in Writers |-> "none"]
    /\ untold' = untold \cup {Target(w).service : w \in {a \in Writing : pc[a] = "request"}}
    /\ UNCHANGED <<migrateVars, scene, now, sealed, request, result, reqAt, oneshotVars,
                   running, overlap>>

\* The power fails: writes that had not answered never will.
PowerFails ==
    /\ Fault /\ Reboot
    /\ pc' = [w \in Writers |-> IF pc[w] \in Finished THEN pc[w] ELSE "failed"]
    /\ fd' = [w \in Writers |-> "none"]
    /\ batchOf' = {} /\ left' = Idle /\ body' = NoResult.of
    /\ running' = [s \in Services |-> NoFile]
    /\ UNCHANGED <<scene, now, sealed, request, result, reqAt, overlap, untold>>

\* The boot runs; when it is over, the services start.
Boot ==
    /\ ProcessFile
    /\ running' = IF todo' = {} THEN live' ELSE running
    /\ untold' = {}
    /\ UNCHANGED <<scene, faults, now, sealed, apiVars, request, result, oneshotVars, overlap>>

NextCommission ==
    \/ ApiWrites \/ Start \/ WriteResult \/ RemoveRequest
    \/ \E s \in Services : RestartService(s)
    \/ Second \/ Commissioned \/ ApiDies \/ PowerFails \/ Boot

\* systemd starts the oneshot and runs it to its end; a boot runs to its end.
FairCommission ==
    /\ WF_commissionVars(Start) /\ WF_commissionVars(WriteResult)
    /\ WF_commissionVars(RemoveRequest) /\ WF_commissionVars(Boot)
    /\ WF_commissionVars(\E s \in Services : RestartService(s))
    /\ WF_commissionVars(ApiWrites)

SpecCommission == InitCommission /\ [][NextCommission]_commissionVars /\ FairCommission

-----------------------------------------------------------------------------
(* Properties.                                                             *)

\* Two writes of one service at once share its staged file.
Apart ==
    scene.turns \/ \A w, o \in Writing : w # o => Target(w).service # Target(o).service

\* A service's file is whole at every moment, whatever fails or crashes in a
\* write of the API or in a migration, as long as no service is written by
\* two requests at once.
ConfigIsWhole == Apart => NeverTorn

\* What a migration changes is kept as it was: the version a step started
\* from, of the first time the step was taken, by whoever wrote it.  (A power
\* cut while the backup is written leaves it torn for good.)
OriginalIsKept ==
    [][\A s \in Services, v \in 0..MaxV - 1 :
          /\ Whole(backup[s][v]) => backup'[s][v] = backup[s][v]
          /\ live'[s].by = live[s].by /\ live'[s].v = v + 1 /\ live[s].v = v
                => backup[s][v] # NoFile]_commissionVars

\* "restarted": the service runs what the answered request has written.
\* (Excepted: a request that met a batch under way or a result of the same
\* second, which the time stamps do not tell apart.)
RestartWasReal ==
    [][\A w \in Writing \ overlap :
          pc[w] = "poll" /\ pc'[w] = "yes" /\ Apart /\ ~Booting =>
              running[Target(w).service].by = w]_commissionVars

\* Both of what the API answers and what a migration leaves can be relied on.
AnswersAreHonest == RestartWasReal /\ OriginalIsKept

\* What is written is run in the end, on a box that is still being
\* commissioned, whatever else failed, unless the service was not told.
WrittenRuns ==
    sealed \/ \A s \in Services : s \in untold \/ running[s] = live[s]
=============================================================================
