------------------------------ MODULE Rotation ------------------------------
(***************************************************************************)
(* The sessions of lexa-northbound with the utility's server               *)
(* (internal/tlsclient/fetcher.go), and their replacement while they are   *)
(* in use (cmd/northbound/rotate.go): a sentinel file asks for it, each    *)
(* fetcher in turn gets a new client that has been dialled and probed.     *)
(*                                                                         *)
(* A client is the CA it trusts and a number.  The certificate's identity  *)
(* (LFDI) is a digest of the certificate itself, so a request for another  *)
(* certificate is a stranger's, and what can be rotated is the CA.         *)
(***************************************************************************)
EXTENDS Integers, Sequences, FiniteSets

CONSTANTS
    Order,        \* the fetchers, in the order they are rotated
    CAs, BootCA,  \* CAs, and the configured one, loaded at each start
    MaxSentinels, \* bound on the sentinels written
    MaxFaults     \* bound on lost exchanges, failed renames, restarts and CA changes

Fetchers == {Order[i] : i \in DOMAIN Order}

ASSUME RotationAssumption ==
    /\ Order \in Seq(Fetchers) \ {<<>>}
    /\ BootCA \in CAs
    /\ MaxSentinels \in Nat /\ MaxFaults \in Nat

VARIABLES
    root,      \* the CA of the server's certificate
    client,    \* client[f]: the CA a fetcher's client trusts, and its number
    open,      \* open[f]: has the client a session?
    op,        \* op[f]: the exchange that holds the fetcher's mutex, or NoOp
    sentinel,  \* the request file, or NoSentinel
    work,      \* checkOnce: the sentinel it has read, where it is, which fetchers failed
    written,   \* sentinels written so far
    faults,    \* what is left of MaxFaults
    clients,   \* clients built so far
    outdated,  \* ghost: clients older than the server's last change, and those of a restart
    report     \* ghost: the last outcome: the sentinel it was for and what it said

rotationVars == <<root, client, open, op, sentinel, work, written, faults, clients,
                  outdated, report>>

NoOp == [kind |-> "none"]
NoSentinel == [id |-> 0, form |-> "none", ca |-> BootCA]
Resting == [at |-> "idle", i |-> 1, req |-> NoSentinel, failed |-> {}, new |-> 0]
Fault == faults > 0 /\ faults' = faults - 1

\* What may be in a sentinel: nonsense or another identity; a key that does
\* not fit the certificate; or a request that a client can be built from.
Forms == {"refused", "unfit", "fit"}

InitRotation ==
    /\ root = BootCA
    /\ client = [f \in Fetchers |-> [ca |-> BootCA, id |-> 0]]
    /\ open = [f \in Fetchers |-> FALSE] /\ op = [f \in Fetchers |-> NoOp]
    /\ sentinel = NoSentinel /\ work = Resting /\ written = 0
    /\ faults = MaxFaults /\ clients = 0
    /\ outdated = {} /\ report = [id |-> 0, outcome |-> "none"]

-----------------------------------------------------------------------------
(* An exchange: doGet, doPost and doPut, under the fetcher's mutex.        *)

Accepts(c) == c.ca = root
OpsUnchanged == UNCHANGED <<root, client, sentinel, work, written, clients, outdated, report>>

\* ensureDialed; without a session the exchange ends here.
BeginOp(f) ==
    /\ op[f] = NoOp
    /\ \E kind \in {"get", "post"} :
          IF open[f] \/ Accepts(client[f])
          THEN /\ open' = [open EXCEPT ![f] = TRUE]
               /\ op' = [op EXCEPT ![f] = [kind |-> kind, by |-> client[f].id, try |-> 1]]
          ELSE UNCHANGED <<open, op>>
    /\ UNCHANGED faults /\ OpsUnchanged

\* An answer, which may close the session.
Answered(f) ==
    /\ op[f] # NoOp /\ op' = [op EXCEPT ![f] = NoOp]
    /\ open' \in {open, [open EXCEPT ![f] = FALSE]}
    /\ UNCHANGED faults /\ OpsUnchanged

\* The session broke: it is closed, dialled again and the request repeated,
\* once; a GET that has used up its time is not repeated.
Broken(f) ==
    /\ op[f] # NoOp /\ Fault
    /\ \E slow \in BOOLEAN :
          IF op[f].try = 1 /\ ~(slow /\ op[f].kind = "get") /\ Accepts(client[f])
          THEN op' = [op EXCEPT ![f].try = 2] /\ open' = [open EXCEPT ![f] = TRUE]
          ELSE op' = [op EXCEPT ![f] = NoOp] /\ open' = [open EXCEPT ![f] = FALSE]
    /\ OpsUnchanged

-----------------------------------------------------------------------------
(* checkOnce, every 5 s.                                                   *)

RotatorUnchanged == UNCHANGED <<root, written>>

ReadSentinel ==
    /\ work.at = "idle" /\ sentinel # NoSentinel
    /\ work' = [Resting EXCEPT !.req = sentinel,
                               !.at = IF sentinel.form = "refused" THEN "consume" ELSE "probe"]
    /\ UNCHANGED <<client, open, op, sentinel, faults, clients, outdated, report>>
    /\ RotatorUnchanged

\* The next fetcher's turn, or the end of the round.
After(w) ==
    IF w.i = Len(Order) THEN [w EXCEPT !.at = "consume"]
    ELSE [w EXCEPT !.at = "probe", !.i = @ + 1]

\* planReload: dialled, and /dcap answered with 200.
Probed == work.req.form = "fit" /\ Accepts(work.req)

Probe ==
    /\ work.at = "probe"
    /\ \/ /\ Probed
          /\ clients' = clients + 1
          /\ work' = [work EXCEPT !.at = "swap", !.new = clients + 1]
          /\ UNCHANGED faults
       \/ /\ (~Probed /\ UNCHANGED faults) \/ Fault
          /\ work' = After([work EXCEPT !.failed = @ \cup {Order[work.i]}])
          /\ UNCHANGED clients
    /\ UNCHANGED <<client, open, op, sentinel, outdated, report>>
    /\ RotatorUnchanged

\* Mutant: the swap does not wait for the exchange under way.
MutMutexFree(f) == TRUE
MutexFree(f) == op[f] = NoOp

\* Reload: the pointer is swapped under the mutex; the old client is freed.
Swap ==
    LET f == Order[work.i]
    IN  /\ work.at = "swap" /\ MutexFree(f)
        /\ client' = [client EXCEPT ![f] = [ca |-> work.req.ca, id |-> work.new]]
        /\ open' = [open EXCEPT ![f] = Accepts(work.req)]
        /\ work' = After(work)
        /\ UNCHANGED <<op, sentinel, faults, clients, outdated, report>>
        /\ RotatorUnchanged

Outcome ==
    CASE work.req.form = "refused" -> "rejected"
      [] work.failed # {} -> "failed"
      [] OTHER -> "done"

Consumed(outcome) == TRUE

\* consume renames what is there now; a rename that fails leaves it there.
Consume ==
    /\ work.at = "consume" /\ work' = Resting
    /\ \/ /\ Consumed(Outcome)
          /\ sentinel' = NoSentinel
          /\ report' = [id |-> sentinel.id, outcome |-> Outcome]
          /\ UNCHANGED faults
       \/ ((~Consumed(Outcome) /\ UNCHANGED faults) \/ Fault) /\ UNCHANGED <<sentinel, report>>
    /\ UNCHANGED <<client, open, op, clients, outdated>>
    /\ RotatorUnchanged

-----------------------------------------------------------------------------
(* Who else acts.                                                          *)

\* The operator's script writes a sentinel, over an older one too.
WriteSentinel ==
    /\ written < MaxSentinels /\ written' = written + 1
    /\ \E form \in Forms, ca \in CAs :
          sentinel' = [id |-> written + 1, form |-> form, ca |-> ca]
    /\ UNCHANGED <<root, client, open, op, work, faults, clients, outdated, report>>

\* The utility's server comes back with a certificate of another CA.
ServerMoves ==
    /\ Fault /\ \E ca \in CAs \ {root} : root' = ca
    /\ open' = [f \in Fetchers |-> FALSE]
    /\ outdated' = 0..clients
    /\ UNCHANGED <<client, op, sentinel, work, written, clients, report>>

RestartNorthbound ==
    /\ Fault
    /\ client' = [f \in Fetchers |-> [ca |-> BootCA, id |-> 0]]
    /\ open' = [f \in Fetchers |-> FALSE] /\ op' = [f \in Fetchers |-> NoOp]
    /\ work' = Resting /\ outdated' = outdated \cup (IF root = BootCA THEN {} ELSE {0})
    /\ UNCHANGED <<root, sentinel, written, clients, report>>

CheckOnce == ReadSentinel \/ Probe \/ Swap \/ Consume

NextRotation ==
    \/ CheckOnce
    \/ \E f \in Fetchers : BeginOp(f) \/ Answered(f) \/ Broken(f)
    \/ WriteSentinel \/ ServerMoves \/ RestartNorthbound

\* The poll goes on, exchanges end within their time, and Go's mutex lets the
\* one who waits for it have its turn (a wait over 1 ms makes it fair).
FairRotation ==
    /\ WF_rotationVars(ReadSentinel \/ Probe \/ Consume)
    /\ SF_rotationVars(Swap)
    /\ \A f \in Fetchers : WF_rotationVars(Answered(f))

SpecRotation == InitRotation /\ [][NextRotation]_rotationVars /\ FairRotation

-----------------------------------------------------------------------------
(* Properties.                                                             *)

\* A rotation never costs a session: whichever sentinel, refused, failed half
\* way or repeated, a fetcher's client is one the server accepts, or older
\* than the server's own change ("keeping previous cert on this fetcher").
StaysAdmitted ==
    \A f \in Fetchers : ~Accepts(client[f]) => client[f].id \in outdated

\* The client an exchange runs on is not the one that was freed.
NoFreedSessionInUse ==
    \A f \in Fetchers : op[f] # NoOp => op[f].by = client[f].id

\* A rotation takes nothing away, and nothing from under an exchange.
SessionsStand == StaysAdmitted /\ NoFreedSessionInUse

-----------------------------------------------------------------------------
(* The watch over the certificates that run out: cmd/northbound/certmon.go *)
(* and its copy for the cloud, cmd/cloudlink/certmon.go.  A check at the   *)
(* start and every 24 h reads a client certificate and a CA, and tells how *)
(* many days are left until the first of them expires.  A unit of its time *)
(* is 12 h.  It shares no state with the rotation.                         *)

CONSTANTS
    WarnDays,   \* cert_expiry_warn_days
    Horizon,    \* bound on the time
    MaxIssues   \* bound on replaced or unreadable files and restarts

ASSUME CertAssumption == WarnDays \in Nat \ {0} /\ Horizon \in Nat /\ MaxIssues \in Nat

VARIABLES
    today,     \* the time
    expires,   \* expires[c]: when a certificate file's NotAfter is, or Unreadable
    due,       \* when the next check is
    status,    \* what the last check published: days left, and the alarm's level
    issues,    \* what is left of MaxIssues
    issued     \* ghost: when a file was last changed

certVars == <<today, expires, due, status, issues, issued>>

Files == {"client", "ca"}
Unreadable == Horizon + 100
Day == 2

\* daysUntil: what is left of a day counts as one, and so does what is over.
DaysUntil(notAfter) ==
    LET left == notAfter - today
    IN  IF left <= 0 THEN left \div Day ELSE (left + Day - 1) \div Day

\* Mutant: the CA counts only where the client's file cannot be read.
MutDaysLeft(readable) ==
    IF "client" \in readable THEN DaysUntil(expires["client"])
    ELSE IF readable # {} THEN DaysUntil(expires["ca"]) ELSE 0

\* CheckOnce's combination: the sooner one of those that can be read.
DaysLeft(readable) ==
    IF readable = {} THEN 0
    ELSE CHOOSE d \in {DaysUntil(expires[c]) : c \in readable} :
            \A c \in readable : d <= DaysUntil(expires[c])

\* classify, over the days left; a file that cannot be read is an alarm of its own.
Level(readable) ==
    IF readable # Files THEN "unreadable"
    ELSE CASE DaysLeft(readable) <= 0            -> "expired"
           [] DaysLeft(readable) \in 1..WarnDays -> "expiring"
           [] OTHER                              -> "ok"

Checked ==
    LET readable == {c \in Files : expires[c] # Unreadable}
    IN  [days |-> DaysLeft(readable), level |-> Level(readable)]

InitCert ==
    /\ today = 0 /\ due = 0 /\ issues = MaxIssues /\ issued = 0
    /\ expires \in [Files -> Horizon - 3..Horizon + 1]
    /\ status = [days |-> 0, level |-> "none"]

\* The ticker fires, or the start of the service or a rotation calls CheckOnce.
CheckCerts ==
    /\ today = due
    /\ status' = Checked /\ due' = due + Day
    /\ UNCHANGED <<today, expires, issues, issued>>

HalfDay ==
    /\ today < due /\ today < Horizon /\ today' = today + 1
    /\ UNCHANGED <<expires, due, status, issues, issued>>

RestartMonitor ==
    /\ issues > 0 /\ issues' = issues - 1
    /\ due' = today
    /\ UNCHANGED <<today, expires, status, issued>>

\* A file is replaced, or cannot be read.
ChangeFile ==
    /\ issues > 0 /\ issues' = issues - 1
    /\ \E c \in Files, e \in {Unreadable, today + 3, Horizon} :
          expires' = [expires EXCEPT ![c] = e]
    /\ issued' = today
    /\ UNCHANGED <<today, due, status>>

NextCert == CheckCerts \/ HalfDay \/ RestartMonitor \/ ChangeFile
SpecCert == InitCert /\ [][NextCert]_certVars

\* A certificate that has expired, or will within WarnDays, has been reported
\* as that within a day of it, whichever of the two files it is, whatever
\* restarts and replacements came before: a rounding towards the later day
\* must not hide the last one.
ExpiryIsKnown ==
    today < due /\ issued + Day <= today =>
        \A c \in Files :
            /\ expires[c] # Unreadable /\ expires[c] + Day <= today =>
                  status.level \in {"expired", "unreadable"}
            /\ expires[c] # Unreadable /\ expires[c] - today <= (WarnDays - 1) * Day =>
                  status.level # "ok"
            /\ expires[c] = Unreadable => status.level = "unreadable"
=============================================================================
