------------------------------ MODULE AuthStore ------------------------------
(***************************************************************************)
(* The account store of the backend (internal/auth/store.go), the HTTP     *)
(* handlers that use it (internal/api/auth.go) and the reset-password      *)
(* subcommand (cli.go), which is another process writing the same          *)
(* auth.json.                                                              *)
(*                                                                         *)
(* The server's goroutines share Store.mu; the CLI does not.  A store      *)
(* operation is therefore one critical section of the server (stat, read,  *)
(* body, stat after the rename) between whose steps only the CLI and the   *)
(* administrator's hands on the file can move.                             *)
(*                                                                         *)
(* A bcrypt hash is represented by the password it accepts, the random     *)
(* session secret by the number of the setup that drew it, the fingerprint *)
(* (mtime, size) of the file by the number of the write that produced it,  *)
(* and the time to live of a token by its age: "fresh", then "due" for a   *)
(* sliding refresh, then gone.                                             *)
(***************************************************************************)
EXTENDS Naturals, FiniteSets

CONSTANTS
  Handlers,   \* goroutines of the server, one request each at a time
  Passwords,  \* plaintext passwords
  Nobody,     \* not a handler: nobody holds Store.mu
  NoRec,      \* no account record: file absent, or Store.present = false
  Corrupt,    \* the file exists but is not JSON
  NoTok,      \* a request without a token
  Budgets     \* how often each outside event may happen, one case or several (a bound)

Events == {"setup", "change", "cli", "tamper", "crash", "ioerr"}

Records == [pw : Passwords, secret : Nat, epoch : Nat]
Tokens  == [secret : Nat, epoch : Nat, age : {"fresh", "due"}, gen : Nat]

ASSUME BudgetAssumption == Budgets \subseteq [Events -> Nat]
ASSUME SentinelAssumption ==
  /\ NoRec \notin Records /\ Corrupt \notin Records /\ NoRec # Corrupt
  /\ NoRec \notin Passwords /\ NoTok \notin Tokens
  /\ Nobody \notin Handlers

VARIABLES
  file,    \* auth.json: [rec, stamp]
  writes,  \* number of renames over auth.json so far: the next fingerprint
  up,      \* the server process runs
  mem,     \* Store.rec, or NoRec while Store.present is false
  stamp,   \* Store.stamp
  cs,      \* the critical section under Store.mu: [by, step, saw]
  req,     \* what each handler is doing
  tokens,  \* unexpired session tokens handed to browsers
  cli,     \* the reset-password process: [step, rec]
  gen,     \* history: number of account records there have been, failed writes included
  left     \* what remains of the case chosen

server == <<up, mem, stamp, cs, req>>
vars   == <<file, writes, up, mem, stamp, cs, req, tokens, cli, gen, left>>

Free   == [by |-> Nobody, step |-> "free", saw |-> 0]
Idle   == [op |-> "none", step |-> "idle", pw |-> NoRec, new |-> NoRec, tok |-> NoTok]
CliOff == [step |-> "off", rec |-> NoRec]

Ops   == {"none", "status", "setup", "login", "verify", "change"}
Steps == {"idle", "lock", "in", "issue", "served"}

Spend(e) == left[e] > 0 /\ left' = [left EXCEPT ![e] = @ - 1]

(* verifyToken: the signature is over the secret, the epoch is in the claims *)
Matches(t, r) == r \notin {NoRec, Corrupt} /\ t.secret = r.secret /\ t.epoch = r.epoch

(* A file that reloadIfNeeded can read and parse. *)
Readable == file.rec \notin {NoRec, Corrupt}

(* The reload is skipped: no file, or a known fingerprint. *)
UpToDate == file.rec = NoRec \/ (mem # NoRec /\ stamp = file.stamp)

(* The record the next store operation of the server will work on. *)
Effective == IF UpToDate THEN mem ELSE file.rec

-----------------------------------------------------------------------------
(* The server has just started, before the account is set up or with the     *)
(* account an earlier run left in auth.json.                                 *)
Init ==
  /\ \/ file = [rec |-> NoRec, stamp |-> 0] /\ writes = 0 /\ gen = 0
     \/ \E p \in Passwords :
          /\ file = [rec |-> [pw |-> p, secret |-> 1, epoch |-> 1], stamp |-> 1]
          /\ writes = 1 /\ gen = 1
  /\ up = TRUE
  /\ mem = file.rec
  /\ stamp = file.stamp
  /\ cs = Free
  /\ req = [h \in Handlers |-> Idle]
  /\ tokens = {}
  /\ cli = CliOff
  /\ left \in Budgets

(* jsonfile.Write succeeded: the rename puts r in place atomically. *)
Rename(r) ==
  /\ file' = [rec |-> r, stamp |-> writes + 1]
  /\ writes' = writes + 1
  /\ gen' = gen + 1

-----------------------------------------------------------------------------
(* Requests arrive.                                                        *)

Arrive(h, op, pw, new, tok) ==
  /\ up /\ req[h] = Idle
  /\ req' = [req EXCEPT ![h] = [op |-> op, step |-> "lock", pw |-> pw, new |-> new, tok |-> tok]]

ArriveSetup(h) ==
  /\ \E p \in Passwords : Arrive(h, "setup", p, p, NoTok)
  /\ Spend("setup")
  /\ UNCHANGED <<file, writes, up, mem, stamp, cs, tokens, cli, gen>>

ArriveLogin(h) ==
  /\ \E p \in Passwords : Arrive(h, "login", p, p, NoTok)
  /\ UNCHANGED <<file, writes, up, mem, stamp, cs, tokens, cli, gen, left>>

(* A request of the protected group, with its session cookie. *)
ArriveProtected(h) ==
  /\ \E t \in tokens : Arrive(h, "verify", NoRec, NoRec, t)
  /\ UNCHANGED <<file, writes, up, mem, stamp, cs, tokens, cli, gen, left>>

(* authStatus: SetupRequired.  (With a cookie it goes on to VerifyToken, but *)
(* renews nothing: that is one more critical section that at most reloads.) *)
ArriveStatus(h) ==
  /\ Arrive(h, "status", NoRec, NoRec, NoTok)
  /\ UNCHANGED <<file, writes, up, mem, stamp, cs, tokens, cli, gen, left>>

-----------------------------------------------------------------------------
(* The critical section.                                                   *)

(* Mutant: a file that has gone is taken for an account never set up.        *)
LockDowngrading(h) ==
  /\ req[h].step = "lock" /\ cs = Free
  /\ cs' = [by |-> h, step |-> IF UpToDate THEN "body" ELSE "read", saw |-> file.stamp]
  /\ mem' = IF file.rec = NoRec THEN NoRec ELSE mem
  /\ req' = [req EXCEPT ![h].step = "in"]
  /\ UNCHANGED <<file, writes, up, stamp, tokens, cli, gen, left>>

(* s.mu.Lock() and the statFile of reloadIfNeeded *)
Lock(h) ==
  /\ req[h].step = "lock" /\ cs = Free
  /\ cs' = [by |-> h, step |-> IF UpToDate THEN "body" ELSE "read", saw |-> file.stamp]
  /\ req' = [req EXCEPT ![h].step = "in"]
  /\ UNCHANGED <<file, writes, up, mem, stamp, tokens, cli, gen, left>>

(* Mutant: an early return before the Unlock is deferred.                    *)
ReturnLocked(h) ==
  /\ UNCHANGED cs
  /\ req' = [req EXCEPT ![h] = Idle]

(* The operation ends the request: the deferred Unlock, and the response.   *)
Return(h) ==
  /\ cs' = Free
  /\ req' = [req EXCEPT ![h] = Idle]

(* os.ReadFile and json.Unmarshal of reloadIfNeeded *)
Read(h) ==
  /\ cs.by = h /\ cs.step = "read"
  /\ \/ /\ Readable
        /\ mem' = file.rec /\ stamp' = cs.saw
        /\ cs' = [cs EXCEPT !.step = "body"]
        /\ UNCHANGED req
     \/ ~Readable /\ Return(h) /\ UNCHANGED <<mem, stamp>>
  /\ UNCHANGED <<file, writes, up, tokens, cli, gen, left>>

InBody(h, op) == cs.by = h /\ cs.step = "body" /\ req[h].op = op

(* Success of a body that writes nothing: unlock, go on to step s. *)
Leave(h, s) ==
  /\ cs' = Free
  /\ req' = [req EXCEPT ![h].step = s]

(* SetupRequired *)
Status(h) ==
  /\ InBody(h, "status")
  /\ Return(h)
  /\ UNCHANGED <<file, writes, up, mem, stamp, tokens, cli, gen, left>>

(* VerifyLogin *)
VerifyLogin(h) ==
  /\ InBody(h, "login")
  /\ IF mem # NoRec /\ mem.pw = req[h].pw THEN Leave(h, "issue") ELSE Return(h)
  /\ UNCHANGED <<file, writes, up, mem, stamp, tokens, cli, gen, left>>

(* VerifyToken, and the middleware's decision to refresh *)
VerifyToken(h) ==
  /\ InBody(h, "verify")
  /\ IF Matches(req[h].tok, mem)
     THEN Leave(h, IF req[h].tok.age = "due" THEN "issue" ELSE "served")
     ELSE Return(h)
  /\ UNCHANGED <<file, writes, up, mem, stamp, tokens, cli, gen, left>>

(* Mutant: a record that is replaced goes to disk but not to memory.         *)
PersistForgetting(r) ==
  /\ Rename(r)
  /\ mem' = IF mem = NoRec THEN r ELSE mem
  /\ cs' = [cs EXCEPT !.step = "restat"]
  /\ UNCHANGED <<req, left>>

(* persistLocked up to the rename; the statFile that follows is Restat *)
Persist(r) ==
  /\ Rename(r)
  /\ mem' = r
  /\ cs' = [cs EXCEPT !.step = "restat"]
  /\ UNCHANGED <<req, left>>

Setup(h) ==
  /\ InBody(h, "setup")
  /\ \/ mem # NoRec /\ Return(h) /\ UNCHANGED <<file, writes, mem, gen, left>>
     \/ mem = NoRec /\ Persist([pw |-> req[h].pw, secret |-> gen + 1, epoch |-> 1])
     \/ /\ mem = NoRec /\ Spend("ioerr")
        /\ Return(h) /\ UNCHANGED <<file, writes, mem, gen>>
  /\ UNCHANGED <<up, stamp, tokens, cli>>

(* Mutants: the epoch stands still; the record is built anew without the old *)
(* epoch.                                                                    *)
ChangedSameEpoch(r, new) == [r EXCEPT !.pw = new]
ChangedNoEpoch(r, new)   == [r EXCEPT !.pw = new, !.epoch = 0]

(* ChangePassword changes s.rec in place before it is persisted, so that a *)
(* failed write leaves the new password and epoch in memory.               *)
Changed(r, new) == [pw |-> new, secret |-> r.secret, epoch |-> r.epoch + 1]

ChangePassword(h) ==
  /\ InBody(h, "change")
  /\ LET right == mem # NoRec /\ mem.pw = req[h].pw
         r     == Changed(mem, req[h].new)
     IN  \/ ~right /\ Return(h) /\ UNCHANGED <<file, writes, mem, gen, left>>
         \/ right /\ Persist(r)
         \/ /\ right /\ Spend("ioerr")
            /\ mem' = r /\ gen' = gen + 1
            /\ Return(h) /\ UNCHANGED <<file, writes>>
  /\ UNCHANGED <<up, stamp, tokens, cli>>

(* The statFile after the rename in persistLocked: the fingerprint of       *)
(* whatever the file is by then (the zero stamp when it is gone).           *)
Restat(h) ==
  /\ cs.by = h /\ cs.step = "restat"
  /\ stamp' = file.stamp
  /\ Leave(h, "issue")
  /\ UNCHANGED <<file, writes, up, mem, tokens, cli, gen, left>>

-----------------------------------------------------------------------------
(* IssueToken: under the lock, but without a reload.  It ends the request,  *)
(* except in the middleware, which goes on to the business handler.         *)
(* It carries the number of the record it was minted from, 0 for a record   *)
(* that another process has replaced in the meantime.                       *)
NewToken == [secret |-> mem.secret, epoch |-> mem.epoch, age |-> "fresh",
             gen |-> IF Effective \in {mem, Corrupt} THEN gen ELSE 0]

(* Mutant: the sliding refresh moves the epoch on.                           *)
IssueBumping(h) ==
  /\ req[h].step = "issue" /\ cs = Free
  /\ tokens' = tokens \cup {NewToken}
  /\ mem' = IF req[h].op = "verify" THEN [mem EXCEPT !.epoch = @ + 1] ELSE mem
  /\ req' = [req EXCEPT ![h] = IF req[h].op = "verify" THEN [@ EXCEPT !.step = "served"] ELSE Idle]
  /\ UNCHANGED <<file, writes, up, stamp, cs, cli, gen, left>>

Issue(h) ==
  /\ req[h].step = "issue" /\ cs = Free
  /\ tokens' = tokens \cup {NewToken}
  /\ req' = [req EXCEPT ![h] = IF req[h].op = "verify" THEN [@ EXCEPT !.step = "served"] ELSE Idle]
  /\ UNCHANGED <<file, writes, up, mem, stamp, cs, cli, gen, left>>

(* c.Next(): any other business handler ... *)
Serve(h) ==
  /\ req[h].step = "served"
  /\ req' = [req EXCEPT ![h] = Idle]
  /\ UNCHANGED <<file, writes, up, mem, stamp, cs, tokens, cli, gen, left>>

(* ... or authChangePassword. *)
ServeChange(h) ==
  /\ req[h].step = "served"
  /\ \E old, new \in Passwords :
       req' = [req EXCEPT ![h] = [op |-> "change", step |-> "lock", pw |-> old, new |-> new, tok |-> NoTok]]
  /\ Spend("change")
  /\ UNCHANGED <<file, writes, up, mem, stamp, cs, tokens, cli, gen>>

-----------------------------------------------------------------------------
(* Time passes for a token. *)
Age(t) ==
  /\ tokens' = (tokens \ {t}) \cup (IF t.age = "fresh" THEN {[t EXCEPT !.age = "due"]} ELSE {})
  /\ UNCHANGED <<file, writes, up, mem, stamp, cs, req, cli, gen, left>>

(* The server dies at any point and loses everything but the file. *)
Crash ==
  /\ up /\ Spend("crash")
  /\ up' = FALSE /\ mem' = NoRec /\ stamp' = 0 /\ cs' = Free
  /\ req' = [h \in Handlers |-> Idle]
  /\ UNCHANGED <<file, writes, tokens, cli, gen>>

(* Mutant: the server starts with whatever it could not parse.               *)
StartAnyway ==
  /\ ~up
  /\ up' = TRUE
  /\ mem' = file.rec /\ stamp' = file.stamp
  /\ UNCHANGED <<file, writes, cs, req, tokens, cli, gen, left>>

(* NewStore: a corrupt file makes runServer refuse to start. *)
Start ==
  /\ ~up /\ file.rec # Corrupt
  /\ up' = TRUE
  /\ mem' = file.rec /\ stamp' = file.stamp
  /\ UNCHANGED <<file, writes, cs, req, tokens, cli, gen, left>>

(* Someone with write access to data/ deletes auth.json, or truncates it.   *)
Tamper ==
  /\ Spend("tamper")
  /\ \/ file' = [rec |-> NoRec, stamp |-> 0] /\ UNCHANGED writes
     \/ /\ file.rec # NoRec
        /\ file' = [rec |-> Corrupt, stamp |-> writes + 1]
        /\ writes' = writes + 1
  /\ UNCHANGED <<server, tokens, cli, gen>>

-----------------------------------------------------------------------------
(* reset-password *)

(* NewStore, then the password is drawn and hashed *)
CliLoad ==
  /\ cli.step = "off" /\ Spend("cli")
  /\ file.rec # Corrupt
  /\ cli' = [step |-> "loaded", rec |-> file.rec]
  /\ UNCHANGED <<file, writes, server, tokens, gen>>

(* SetPasswordHash up to the rename: reload, refuse when there is no account *)
CliPrepare ==
  /\ cli.step = "loaded"
  /\ LET r == IF file.rec = NoRec THEN cli.rec ELSE file.rec
     IN  \/ r \in {NoRec, Corrupt} /\ cli' = CliOff
         \/ /\ r \notin {NoRec, Corrupt}
            /\ \E p \in Passwords : cli' = [step |-> "write", rec |-> Changed(r, p)]
  /\ UNCHANGED <<file, writes, server, tokens, gen, left>>

CliWrite ==
  /\ cli.step = "write"
  /\ \/ Rename(cli.rec) /\ UNCHANGED left
     \/ Spend("ioerr") /\ UNCHANGED <<file, writes, gen>>
  /\ cli' = CliOff
  /\ UNCHANGED <<server, tokens>>

-----------------------------------------------------------------------------
InStore(h) == Read(h) \/ Status(h) \/ VerifyLogin(h) \/ VerifyToken(h)
              \/ Setup(h) \/ ChangePassword(h) \/ Restat(h)

Arrival(h) == ArriveSetup(h) \/ ArriveLogin(h) \/ ArriveProtected(h) \/ ArriveStatus(h)

Progress(h) == Lock(h) \/ InStore(h) \/ Issue(h) \/ Serve(h) \/ ServeChange(h)

Cli == CliLoad \/ CliPrepare \/ CliWrite

Next ==
  \/ \E h \in Handlers : Arrival(h) \/ Progress(h)
  \/ \E t \in tokens : Age(t)
  \/ Crash \/ Start \/ Tamper
  \/ Cli

(* The server's goroutines run; sync.Mutex hands the lock over in order     *)
(* once a waiter starves, so acquiring it is strongly fair.                 *)
Fairness == \A h \in Handlers :
  /\ WF_vars(InStore(h)) /\ WF_vars(Serve(h))
  /\ SF_vars(Lock(h)) /\ SF_vars(Issue(h))

Spec == Init /\ [][Next]_vars /\ Fairness
-----------------------------------------------------------------------------
(* Properties.                                                              *)

(* Type invariant: every variable keeps the shape of the Go value it stands  *)
(* for.                                                                      *)
TypeOK ==
  /\ file \in [rec : Records \cup {NoRec, Corrupt}, stamp : Nat]
  /\ writes \in Nat /\ gen \in Nat /\ up \in BOOLEAN
  /\ mem \in Records \cup {NoRec}
  /\ stamp \in Nat
  /\ cs \in [by : Handlers \cup {Nobody}, step : {"free", "read", "body", "restat"}, saw : Nat]
  /\ req \in [Handlers -> [op : Ops, step : Steps, pw : Passwords \cup {NoRec},
                            new : Passwords \cup {NoRec}, tok : Tokens \cup {NoTok}]]
  /\ tokens \subseteq Tokens
  /\ cli \in [step : {"off", "loaded", "write"}, rec : Records \cup {NoRec}]
  /\ left \in [Events -> Nat]

Quiet == up /\ cs = Free

(* Hot reload (store.go reloadIfNeeded): while no store operation is under   *)
(* way, a fingerprint the server takes for known belongs to the record it    *)
(* has in memory, or to the one before a change whose write failed;          *)
(* otherwise it would never notice a reset by the CLI.                       *)
StampCoherent ==
  Quiet /\ mem # NoRec /\ Readable /\ stamp = file.stamp =>
    file.rec = mem \/ (file.rec.secret = mem.secret /\ file.rec.epoch < mem.epoch)

(* A password change or reset kicks out every session (store.go Record): a   *)
(* token the next request could get through with was minted from the record  *)
(* of the last change, be that on disk or, its write failed, in memory.      *)
SessionsKicked == Quiet => \A t \in tokens : Matches(t, Effective) => t.gen = gen

(* ... and nothing else does: refreshes in other tabs, logins, restarts and  *)
(* the loss of the file leave the tokens of the current account valid        *)
(* (store.go VerifyToken, session.go).                                       *)
SessionsKept == Quiet /\ mem # NoRec /\ file.rec # Corrupt =>
                  \A t \in tokens : t.gen = gen => Matches(t, Effective)

(* session.go: once the epoch has moved on, all older tokens are void: the   *)
(* epoch the server goes by never falls back for the same secret.  This is   *)
(* of one writer at a time: a server whose writes succeed, through crashes,  *)
(* restarts and damage to the file; a server one of whose writes fails, as   *)
(* long as it runs (ChangePassword has bumped the epoch in memory, and a     *)
(* restart takes the old one from the file); or the CLI, whose writes may    *)
(* fail, through restarts of the server.                                     *)
EpochNeverRollsBack ==
  [][LET r == Effective IN
       r \notin {NoRec, Corrupt} /\ Effective' \notin {NoRec, Corrupt} /\ Effective'.secret = r.secret
         => Effective'.epoch >= r.epoch]_vars

(* store.go reloadIfNeeded: deleting or corrupting auth.json under a running *)
(* server does not open the setup again; the account changes hands only      *)
(* through a restart.                                                        *)
NoTakeoverWhileRunning ==
  [][up /\ up' /\ mem # NoRec => mem' # NoRec /\ mem'.secret = mem.secret]_vars

(* The account the running server goes by: what the next request will find, *)
(* which is the memory while the file is gone, cannot be parsed or has not  *)
(* taken a change whose write failed; with no server running, the account   *)
(* the next one will start with.                                            *)
Now ==
  IF up /\ (UpToDate \/ ~Readable) THEN mem
  ELSE IF Readable THEN file.rec ELSE NoRec

Password == IF Now = NoRec THEN NoRec ELSE Now.pw
LetIn    == LET r == Now IN
            IF r = NoRec THEN {} ELSE {t \in tokens : t.secret = r.secret /\ t.epoch = r.epoch}

Promise == INSTANCE Account WITH password <- Password, sessions <- LetIn, NoAccount <- NoRec

(* The store keeps the promise of Account for one writer at a time, with the *)
(* limits of EpochNeverRollsBack: through reloads, failed reads, damage,     *)
(* restarts, resets and refreshes there is one password, and a session dies  *)
(* of a change, of age or with the account.                                  *)
AccountKept == Promise!Spec

(* Every request is answered: no path through the store keeps the mutex.     *)
RequestsAnswered == \A h \in Handlers : req[h] # Idle ~> req[h] = Idle
=============================================================================
