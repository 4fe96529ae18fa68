--------------------------- MODULE AuthStoreProofs ---------------------------
(* Theorems about AuthStore, for any handlers, passwords and budgets.       *)
EXTENDS AuthStore, TLAPS

USE DEF Events, Ops, Steps

-----------------------------------------------------------------------------
(* Type correctness.  It needs to know which fields of a request are filled *)
(* in for which operation, and that a token is only minted from a record.   *)

Requests == [op : Ops, step : Steps, pw : Passwords \cup {NoRec},
             new : Passwords \cup {NoRec}, tok : Tokens \cup {NoTok}]
Sections == [by : Handlers \cup {Nobody}, step : {"free", "read", "body", "restat"}, saw : Nat]

Filled == \A h \in Handlers :
  /\ req[h].op \in {"setup", "login", "change"} => req[h].pw \in Passwords /\ req[h].new \in Passwords
  /\ req[h].op = "verify" => req[h].tok \in Tokens

Minting ==
  /\ \A h \in Handlers : req[h].step = "issue" => mem # NoRec
  /\ cs.step = "restat" => mem # NoRec
  /\ cli.step = "write" => cli.rec \in Records

Alive ==
  /\ \A h \in Handlers : req[h].step # "idle" => up
  /\ cs.step # "free" => up
  /\ ~up => mem = NoRec

TypeInv == TypeOK /\ Filled /\ Minting /\ Alive

(* Initially every variable has its type, no request is under way.          *)
LEMMA Initially == Init => TypeInv
<1> SUFFICES ASSUME Init PROVE TypeInv
  OBVIOUS
<1> USE BudgetAssumption, SentinelAssumption DEF Init
<1>1. file \in [rec : Records \cup {NoRec, Corrupt}, stamp : Nat] /\ writes \in Nat /\ gen \in Nat
  BY DEF Records
<1>2. mem \in Records \cup {NoRec} /\ stamp \in Nat
  BY DEF Records
<1>3. req \in [Handlers -> Requests]
  BY DEF Idle, Requests
<1>4. TypeOK
  BY <1>1, <1>2, <1>3 DEF TypeOK, Free, CliOff, Requests
<1>5. Filled /\ Minting /\ Alive
  BY DEF Filled, Minting, Alive, Idle, Free, CliOff
<1>6. QED
  BY <1>4, <1>5 DEF TypeInv

(* A changed record is a record.                                            *)
LEMMA ChangedType == ASSUME NEW r \in Records, NEW p \in Passwords PROVE Changed(r, p) \in Records
  BY DEF Changed, Records

(* Spending an event leaves a budget.                                       *)
LEMMA SpendType == ASSUME TypeOK, NEW e \in Events, Spend(e) PROVE left' \in [Events -> Nat]
  BY DEF TypeOK, Spend

(* The four actions that start a request fill in its fields.                *)
LEMMA ArrivalType ==
  ASSUME TypeInv, NEW h \in Handlers, Arrival(h)
  PROVE  TypeInv'
<1> USE DEF TypeInv, TypeOK, Filled, Minting, Alive, Arrive, Idle
<1>1. CASE ArriveSetup(h)
  BY <1>1, SpendType DEF ArriveSetup
<1>2. CASE ArriveLogin(h)
  BY <1>2 DEF ArriveLogin
<1>3. CASE ArriveProtected(h)
  BY <1>3 DEF ArriveProtected
<1>4. CASE ArriveStatus(h)
  BY <1>4 DEF ArriveStatus
<1>5. QED
  BY <1>1, <1>2, <1>3, <1>4 DEF Arrival

(* Return and Leave change nothing but the lock and the request's step.     *)
LEMMA ReturnType ==
  ASSUME TypeInv, NEW h \in Handlers, Return(h)
  PROVE  /\ cs' \in Sections /\ cs'.step = "free" /\ req' \in [Handlers -> Requests]
         /\ \A g \in Handlers : req'[g] = req[g] \/ req'[g] = Idle
  BY DEF Return, TypeInv, TypeOK, Requests, Sections, Idle, Free

(* A body that writes nothing frees the lock and moves only its request.    *)
LEMMA LeaveType ==
  ASSUME TypeInv, NEW h \in Handlers, NEW s \in Steps, Leave(h, s)
  PROVE  /\ cs' \in Sections /\ cs'.step = "free" /\ req' \in [Handlers -> Requests]
         /\ \A g \in Handlers : g # h => req'[g] = req[g]
         /\ req'[h] = [req[h] EXCEPT !.step = s]
  BY DEF Leave, TypeInv, TypeOK, Requests, Sections, Free

(* A successful persistLocked up to its rename keeps the types.             *)
LEMMA PersistType ==
  ASSUME TypeInv, NEW r \in Records, Persist(r), cs.step = "body", up, UNCHANGED <<up, stamp, tokens, cli>>
  PROVE  TypeInv'
<1> USE SentinelAssumption DEF Persist, Rename, TypeInv, TypeOK
<1>1. file' \in [rec : Records \cup {NoRec, Corrupt}, stamp : Nat]
  OBVIOUS
<1>2. cs' \in Sections /\ cs'.step = "restat"
  BY DEF Sections
<1>3. TypeOK'
  BY <1>1, <1>2 DEF Sections
<1>4. Filled' /\ Minting' /\ Alive'
  BY <1>2 DEF Filled, Minting, Alive
<1>5. QED
  BY <1>3, <1>4

(* A step that ends the request and changes no record keeps the types.      *)
LEMMA EndType ==
  ASSUME TypeInv, NEW h \in Handlers, Return(h),
         mem' \in Records, gen' \in Nat, up, left' \in [Events -> Nat],
         UNCHANGED <<file, writes, up, stamp, tokens, cli>>
  PROVE  TypeInv'
  BY ReturnType, SentinelAssumption DEF TypeInv, TypeOK, Filled, Minting, Alive, Requests, Sections, Idle

(* A body that ends its request and changes no record keeps the types.      *)
LEMMA EndSameType ==
  ASSUME TypeInv, NEW h \in Handlers, Return(h), left' \in [Events -> Nat],
         UNCHANGED <<file, writes, up, mem, stamp, tokens, cli, gen>>
  PROVE  TypeInv'
  BY ReturnType DEF TypeInv, TypeOK, Filled, Minting, Alive, Requests, Sections, Idle

(* Leaving the critical section for a later step keeps the types.           *)
LEMMA LeaveKeepsType ==
  ASSUME TypeInv, NEW h \in Handlers, NEW s \in Steps, Leave(h, s), s = "issue" => mem # NoRec, up,
         stamp' \in Nat, UNCHANGED <<file, writes, up, mem, tokens, cli, gen, left>>
  PROVE  TypeInv'
<1>1. /\ cs' \in Sections /\ cs'.step = "free" /\ req' \in [Handlers -> Requests]
      /\ \A g \in Handlers : g # h => req'[g] = req[g]
      /\ req'[h] = [req[h] EXCEPT !.step = s]
  BY LeaveType
<1>2. TypeOK'
  BY <1>1 DEF TypeInv, TypeOK, Requests, Sections
<1>3. Filled' /\ Minting' /\ Alive'
  BY <1>1 DEF TypeInv, TypeOK, Filled, Minting, Alive
<1>4. QED
  BY <1>2, <1>3 DEF TypeInv

(* Every step of a request inside the server keeps the types.               *)
LEMMA ProgressType ==
  ASSUME TypeInv, NEW h \in Handlers, Progress(h)
  PROVE  TypeInv'
<1> USE DEF InBody
<1>0. cs.by = h /\ cs.step \in {"body", "restat"} => up
  BY DEF TypeInv, Alive
<1>1. CASE Lock(h)
  BY <1>1 DEF Lock, TypeInv, TypeOK, Filled, Minting, Alive
<1>2. CASE Read(h)
  <2>1. CASE Readable /\ mem' = file.rec /\ stamp' = cs.saw /\ cs' = [cs EXCEPT !.step = "body"] /\ UNCHANGED req
    BY <1>2, <2>1, SentinelAssumption DEF Read, Readable, TypeInv, TypeOK, Filled, Minting, Alive
  <2>2. CASE Return(h) /\ UNCHANGED <<mem, stamp>>
    BY <1>2, <2>2, EndSameType DEF Read, TypeInv, TypeOK
  <2>3. QED
    BY <1>2, <2>1, <2>2 DEF Read
<1>3. CASE Status(h)
  BY <1>3, EndSameType DEF Status, TypeInv, TypeOK
<1>4. CASE VerifyLogin(h)
  <2>1. CASE mem # NoRec /\ Leave(h, "issue")
    BY <1>0, <1>4, <2>1, LeaveKeepsType DEF VerifyLogin, TypeInv, TypeOK
  <2>2. CASE Return(h)
    BY <1>4, <2>2, EndSameType DEF VerifyLogin, TypeInv, TypeOK
  <2>3. QED
    BY <1>4, <2>1, <2>2 DEF VerifyLogin
<1>5. CASE VerifyToken(h)
  <2>1. CASE mem # NoRec /\ \E s \in Steps : Leave(h, s)
    BY <1>0, <1>5, <2>1, LeaveKeepsType DEF VerifyToken, TypeInv, TypeOK
  <2>2. CASE Return(h)
    BY <1>5, <2>2, EndSameType DEF VerifyToken, TypeInv, TypeOK
  <2>3. QED
    BY <1>5, <2>1, <2>2 DEF VerifyToken, Matches
<1>6. CASE Setup(h)
  <2> DEFINE r == [pw |-> req[h].pw, secret |-> gen + 1, epoch |-> 1]
  <2>1. CASE Persist(r)
    <3>1. r \in Records
      BY <1>6 DEF Setup, TypeInv, TypeOK, Filled, Records
    <3>2. QED
      BY <1>0, <1>6, <2>1, <3>1, PersistType DEF Setup
  <2>2. CASE Return(h) /\ Spend("ioerr") /\ UNCHANGED <<file, writes, mem, gen>>
    BY <1>6, <2>2, EndSameType, SpendType DEF Setup, TypeInv
  <2>3. CASE Return(h) /\ UNCHANGED <<file, writes, mem, gen, left>>
    BY <1>6, <2>3, EndSameType DEF Setup, TypeInv, TypeOK
  <2>4. QED
    BY <1>6, <2>1, <2>2, <2>3 DEF Setup
<1>7. CASE ChangePassword(h)
  <2> DEFINE r == Changed(mem, req[h].new)
  <2>1. mem # NoRec => r \in Records
    BY <1>7, ChangedType DEF ChangePassword, TypeInv, TypeOK, Filled
  <2> HIDE DEF r
  <2>2. CASE mem # NoRec /\ Persist(r)
    BY <1>0, <1>7, <2>1, <2>2, PersistType DEF ChangePassword
  <2>3. CASE mem # NoRec /\ Spend("ioerr") /\ mem' = r /\ gen' = gen + 1 /\ Return(h) /\ UNCHANGED <<file, writes>>
    BY <1>0, <1>7, <2>1, <2>3, EndType, SpendType DEF ChangePassword, TypeInv, TypeOK
  <2>4. CASE Return(h) /\ UNCHANGED <<file, writes, mem, gen, left>>
    BY <1>7, <2>4, EndSameType DEF ChangePassword, TypeInv, TypeOK
  <2>5. QED
    BY <1>7, <2>2, <2>3, <2>4 DEF ChangePassword, r
<1>8. CASE Restat(h)
  BY <1>0, <1>8, LeaveKeepsType DEF Restat, TypeInv, TypeOK, Minting
<1>9. CASE Issue(h)
  <2>1. NewToken \in Tokens
    BY <1>9 DEF Issue, NewToken, Tokens, Records, TypeInv, TypeOK, Minting
  <2>2. req' \in [Handlers -> Requests] /\ \A g \in Handlers :
          req'[g] = req[g] \/ req'[g] = Idle \/ req'[g] = [req[g] EXCEPT !.step = "served"]
    BY <1>9 DEF Issue, TypeInv, TypeOK, Requests, Idle
  <2>3. QED
    BY <1>9, <2>1, <2>2 DEF Issue, TypeInv, TypeOK, Filled, Minting, Alive, Requests, Idle
<1>10. CASE Serve(h)
  BY <1>10 DEF Serve, TypeInv, TypeOK, Filled, Minting, Alive, Idle
<1>11. CASE ServeChange(h)
  BY <1>11, SpendType DEF ServeChange, TypeInv, TypeOK, Filled, Minting, Alive
<1>12. QED
  BY <1>1, <1>2, <1>3, <1>4, <1>5, <1>6, <1>7, <1>8, <1>9, <1>10, <1>11 DEF Progress, InStore

(* Crash, start, tampering and the ageing of tokens keep the types.         *)
LEMMA EnvironmentType ==
  ASSUME TypeInv, Crash \/ Start \/ Tamper \/ (\E t \in tokens : Age(t))
  PROVE  TypeInv'
<1> USE DEF TypeInv, TypeOK
<1>1. CASE Crash
  <2>1. req' \in [Handlers -> Requests] /\ \A h \in Handlers : req'[h] = Idle
    BY <1>1 DEF Crash, Requests, Idle
  <2>2. QED
    BY <1>1, <2>1, SpendType DEF Crash, Filled, Minting, Alive, Requests, Idle, Free
<1>2. CASE Start
  BY <1>2, SentinelAssumption DEF Start, Filled, Minting, Alive
<1>3. CASE Tamper
  BY <1>3, SpendType DEF Tamper, server, Filled, Minting, Alive
<1>4. ASSUME NEW t \in tokens, Age(t) PROVE TypeInv'
  <2>1. tokens' \subseteq Tokens
    BY <1>4 DEF Age, Tokens
  <2>2. QED
    BY <1>4, <2>1 DEF Age, Filled, Minting, Alive
<1>5. QED
  BY <1>1, <1>2, <1>3, <1>4

(* The steps of reset-password keep the types.                              *)
LEMMA CliType == ASSUME TypeInv, Cli PROVE TypeInv'
<1> USE SentinelAssumption DEF TypeInv, TypeOK, server
<1>1. CASE CliLoad
  BY <1>1, SpendType DEF CliLoad, Filled, Minting, Alive
<1>2. CASE CliPrepare
  <2>1. CASE cli' = CliOff
    BY <1>2, <2>1 DEF CliPrepare, CliOff, Filled, Minting, Alive
  <2>2. ASSUME NEW r \in Records, NEW p \in Passwords, cli' = [step |-> "write", rec |-> Changed(r, p)]
        PROVE  TypeInv'
    BY <1>2, <2>2, ChangedType DEF CliPrepare, Filled, Minting, Alive
  <2>3. QED
    BY <1>2, <2>1, <2>2 DEF CliPrepare
<1>3. CASE CliWrite
  BY <1>3, SpendType DEF CliWrite, Rename, CliOff, Filled, Minting, Alive
<1>4. QED
  BY <1>1, <1>2, <1>3 DEF Cli

(* The strengthened type invariant is inductive.                            *)
LEMMA NextType == TypeInv /\ [Next]_vars => TypeInv'
<1>1. ASSUME TypeInv, UNCHANGED vars PROVE TypeInv'
  BY <1>1 DEF vars, TypeInv, TypeOK, Filled, Minting, Alive
<1>2. QED
  BY <1>1, ArrivalType, ProgressType, EnvironmentType, CliType DEF Next

(* Type correctness of the account store (store.go, api/auth.go, cli.go).   *)
THEOREM TypeCorrect == Spec => []TypeOK
<1>1. Spec => []TypeInv
  BY Initially, NextType, PTL DEF Spec
<1>2. QED
  BY <1>1, PTL DEF TypeInv

-----------------------------------------------------------------------------
(* The server as the only writer of auth.json.  The file and the memory     *)
(* agree whenever both hold a record (Agree), and the generation in which a *)
(* token was minted can be read off its secret and epoch (Generations).     *)

SoleWriter == \A b \in Budgets : b["cli"] = 0 /\ b["ioerr"] = 0

Alone == left["cli"] = 0 /\ left["ioerr"] = 0 /\ cli = CliOff

Current == IF mem # NoRec THEN mem ELSE file.rec

Agree == up /\ Readable => mem = file.rec

Bounded == \A t \in tokens : t.gen <= gen /\ t.secret <= gen

Generations == Current \in Records =>
  /\ Current.secret <= gen
  /\ \A t \in tokens :
       /\ t.secret = Current.secret => t.epoch <= Current.epoch /\ (t.gen = gen <=> t.epoch = Current.epoch)
       /\ t.gen = gen => t.secret = Current.secret

WriterInv == TypeInv /\ Alone /\ Agree /\ Bounded /\ Generations

(* The invariant of the sole writer holds initially.                        *)
LEMMA InitWriter == SoleWriter /\ Init => WriterInv
<1> SUFFICES ASSUME SoleWriter, Init PROVE WriterInv
  OBVIOUS
<1>1. TypeInv
  BY Initially
<1>2. Alone /\ Agree /\ Bounded
  BY DEF SoleWriter, Init, Alone, Agree, Bounded, Readable
<1>3. Generations
  <2>1. Current \in Records => file.rec \in Records
    BY DEF Init, Current
  <2>2. file.rec \in Records => file.rec.secret = 1 /\ gen = 1
    BY SentinelAssumption DEF Init
  <2>3. QED
    BY <2>1, <2>2 DEF Generations, Init, Current
<1>4. QED
  BY <1>1, <1>2, <1>3 DEF WriterInv

(* A record of a new secret or a new epoch starts a new generation.         *)
LEMMA PersistGenerations ==
  ASSUME WriterInv, NEW r \in Records, Persist(r), up, UNCHANGED <<up, stamp, tokens, cli>>,
         r.secret <= gen + 1,
         \A t \in tokens : t.secret = r.secret => t.epoch < r.epoch
  PROVE  Alone' /\ Agree' /\ Bounded' /\ Generations'
<1> USE DEF Persist, Rename
<1>1. gen \in Nat /\ tokens \subseteq Tokens /\ r # NoRec
  BY SentinelAssumption DEF WriterInv, TypeInv, TypeOK
<1>2. gen' = gen + 1 /\ Current' = r /\ tokens' = tokens
  BY <1>1 DEF Current
<1>3. \A t \in tokens : t.gen \in Nat /\ t.secret \in Nat /\ t.epoch \in Nat /\ t.gen <= gen /\ t.secret <= gen
  BY <1>1 DEF WriterInv, Bounded, Tokens
<1>4. Bounded' /\ Generations'
  BY <1>1, <1>2, <1>3 DEF Bounded, Generations, Records
<1>5. Alone' /\ Agree'
  BY DEF WriterInv, Alone, Agree, Readable
<1>6. QED
  BY <1>4, <1>5

(* A step that leaves the records and tokens alone changes no generation.   *)
LEMMA SameGenerations ==
  ASSUME WriterInv, UNCHANGED <<file, up, mem, tokens, cli, gen>>, left'["cli"] = 0, left'["ioerr"] = 0
  PROVE  Alone' /\ Agree' /\ Bounded' /\ Generations'
  BY DEF WriterInv, Alone, Agree, Bounded, Generations, Current, Readable

(* Spending another event leaves the CLI and the failing writes at zero.    *)
LEMMA SpendOther ==
  ASSUME TypeOK, NEW e \in Events \ {"cli", "ioerr"}, Spend(e)
  PROVE  left'["cli"] = left["cli"] /\ left'["ioerr"] = left["ioerr"]
  BY DEF TypeOK, Spend

(* The invariant of the sole writer is inductive.                           *)
LEMMA NextWriter == WriterInv /\ [Next]_vars => WriterInv'
<1> SUFFICES ASSUME WriterInv, [Next]_vars PROVE Alone' /\ Agree' /\ Bounded' /\ Generations'
  BY NextType DEF WriterInv
<1> USE DEF InBody
<1>1. /\ TypeOK /\ left["cli"] = 0 /\ left["ioerr"] = 0 /\ cli = CliOff
      /\ ~Spend("cli") /\ ~Spend("ioerr")
  BY DEF WriterInv, TypeInv, Alone, Spend
<1>2. ASSUME NEW h \in Handlers, Arrival(h) PROVE Alone' /\ Agree' /\ Bounded' /\ Generations'
  BY <1>1, <1>2, SpendOther, SameGenerations
     DEF Arrival, ArriveSetup, ArriveLogin, ArriveProtected, ArriveStatus
<1>3. ASSUME NEW h \in Handlers, Lock(h) \/ Status(h) \/ VerifyLogin(h) \/ VerifyToken(h) \/ Restat(h) \/ Serve(h)
      PROVE  Alone' /\ Agree' /\ Bounded' /\ Generations'
  BY <1>1, <1>3, SameGenerations DEF Lock, Status, VerifyLogin, VerifyToken, Restat, Serve
<1>4. ASSUME NEW h \in Handlers, Read(h) PROVE Alone' /\ Agree' /\ Bounded' /\ Generations'
  <2>1. up
    BY <1>4 DEF Read, WriterInv, TypeInv, Alive
  <2>2. mem' = mem
    BY <1>4, <2>1 DEF Read, WriterInv, Agree
  <2>3. QED
    BY <1>1, <1>4, <2>2, SameGenerations DEF Read
<1>5. ASSUME NEW h \in Handlers, Setup(h) PROVE Alone' /\ Agree' /\ Bounded' /\ Generations'
  <2> DEFINE r == [pw |-> req[h].pw, secret |-> gen + 1, epoch |-> 1]
  <2>1. CASE Persist(r)
    <3>1. r \in Records /\ up
      BY <1>1, <1>5 DEF Setup, WriterInv, TypeInv, TypeOK, Filled, Alive, Records
    <3>2. \A t \in tokens : t.secret # r.secret
      BY <1>1 DEF WriterInv, Bounded, TypeOK, Tokens
    <3>3. r.secret <= gen + 1
      BY <1>1 DEF TypeOK
    <3> HIDE DEF r
    <3>4. QED
      BY <1>5, <2>1, <3>1, <3>2, <3>3, PersistGenerations DEF Setup
  <2>2. CASE UNCHANGED <<file, writes, mem, gen, left>>
    BY <1>1, <1>5, <2>2, SameGenerations DEF Setup
  <2>3. QED
    BY <1>1, <1>5, <2>1, <2>2 DEF Setup
<1>6. ASSUME NEW h \in Handlers, ChangePassword(h) PROVE Alone' /\ Agree' /\ Bounded' /\ Generations'
  <2> DEFINE r == Changed(mem, req[h].new)
  <2>1. CASE mem # NoRec /\ Persist(r)
    <3>1. mem \in Records /\ up /\ Current = mem /\ req[h].new \in Passwords
      BY <1>1, <1>6, <2>1 DEF ChangePassword, WriterInv, TypeInv, TypeOK, Filled, Alive, Current
    <3>2. r \in Records /\ r.secret = mem.secret /\ r.epoch = mem.epoch + 1
      BY <3>1, ChangedType DEF Changed
    <3>3. mem.secret \in Nat /\ mem.epoch \in Nat /\ gen \in Nat /\ mem.secret <= gen
      BY <1>1, <3>1 DEF WriterInv, Generations, Records, TypeOK
    <3>4. \A t \in tokens : t.secret = r.secret => t.epoch < r.epoch
      BY <1>1, <3>1, <3>2, <3>3 DEF WriterInv, Generations, Tokens, TypeOK
    <3>5. r.secret <= gen + 1
      BY <3>2, <3>3
    <3> HIDE DEF r
    <3>6. QED
      BY <1>6, <2>1, <3>1, <3>2, <3>4, <3>5, PersistGenerations DEF ChangePassword
  <2>2. CASE UNCHANGED <<file, writes, mem, gen, left>>
    BY <1>1, <1>6, <2>2, SameGenerations DEF ChangePassword
  <2>3. QED
    BY <1>1, <1>6, <2>1, <2>2 DEF ChangePassword
<1>7. ASSUME NEW h \in Handlers, Issue(h) PROVE Alone' /\ Agree' /\ Bounded' /\ Generations'
  <2>1. mem \in Records /\ Current = mem /\ UNCHANGED <<file, up, mem, cli, gen, left>>
    BY <1>1, <1>7 DEF Issue, WriterInv, TypeInv, TypeOK, Minting, Current
  <2>2. tokens' = tokens \cup {NewToken}
    BY <1>7 DEF Issue
  <2>3. gen \in Nat /\ mem.secret \in Nat /\ mem.epoch \in Nat /\ mem.secret <= gen
    BY <1>1, <2>1 DEF WriterInv, Generations, Records, TypeOK
  <2>4. NewToken.gen = gen /\ NewToken.secret = mem.secret /\ NewToken.epoch = mem.epoch
    <3>1. up
      BY <1>1, <1>7, SentinelAssumption DEF Issue, WriterInv, TypeInv, Alive
    <3>2. QED
      BY <3>1 DEF NewToken, Effective, UpToDate, Readable, WriterInv, Agree
  <2>5. Alone' /\ Agree'
    BY <2>1 DEF WriterInv, Alone, Agree, Readable
  <2>6. Bounded'
    BY <2>1, <2>2, <2>3, <2>4 DEF WriterInv, Bounded
  <2>7. Generations'
    BY <2>1, <2>2, <2>3, <2>4 DEF WriterInv, Generations, Current
  <2>8. QED
    BY <2>5, <2>6, <2>7
<1>8. ASSUME NEW h \in Handlers, ServeChange(h) PROVE Alone' /\ Agree' /\ Bounded' /\ Generations'
  BY <1>1, <1>8, SpendOther, SameGenerations DEF ServeChange
<1>9. ASSUME NEW t \in tokens, Age(t) PROVE Alone' /\ Agree' /\ Bounded' /\ Generations'
  <2>1. \A u \in tokens' : \E v \in tokens : u.gen = v.gen /\ u.secret = v.secret /\ u.epoch = v.epoch
    BY <1>1, <1>9 DEF Age, TypeOK, Tokens
  <2>2. UNCHANGED <<file, up, mem, cli, gen, left>>
    BY <1>9 DEF Age
  <2>3. Bounded' /\ Generations'
    BY <2>1, <2>2 DEF WriterInv, Bounded, Generations, Current
  <2>4. QED
    BY <2>2, <2>3 DEF WriterInv, Alone, Agree, Readable
<1>10. CASE Crash
  <2>1. Current' \in Records => Current' = Current
    BY <1>10, SentinelAssumption DEF Crash, Current, WriterInv, Agree, Readable
  <2>2. UNCHANGED <<file, tokens, cli, gen>> /\ ~up'
    BY <1>10 DEF Crash
  <2>3. Bounded' /\ Generations'
    BY <2>1, <2>2 DEF WriterInv, Bounded, Generations
  <2>4. QED
    BY <1>1, <1>10, <2>2, <2>3, SpendOther DEF Crash, WriterInv, Alone, Agree
<1>11. CASE Start
  <2>1. Current' = Current /\ UNCHANGED <<file, tokens, cli, gen, left>>
    BY <1>11 DEF Start, Current, WriterInv, TypeInv, Alive
  <2>2. Bounded' /\ Generations'
    BY <2>1 DEF WriterInv, Bounded, Generations
  <2>3. QED
    BY <1>11, <2>1, <2>2 DEF Start, WriterInv, Alone, Agree
<1>12. CASE Tamper
  <2>1. ~Readable' /\ UNCHANGED <<up, mem, tokens, cli, gen>> /\ file'.rec \notin Records
    BY <1>12, SentinelAssumption DEF Tamper, Readable, server
  <2>2. Current' \in Records => Current' = Current
    BY <2>1 DEF Current
  <2>3. Bounded' /\ Generations'
    BY <2>1, <2>2 DEF WriterInv, Bounded, Generations
  <2>4. QED
    BY <1>1, <1>12, <2>1, <2>3, SpendOther DEF Tamper, WriterInv, Alone, Agree
<1>13. ~Cli
  BY <1>1 DEF Cli, CliLoad, CliPrepare, CliWrite, CliOff
<1>14. CASE UNCHANGED vars
  BY <1>1, <1>14, SameGenerations DEF vars
<1>15. QED
  BY <1>2, <1>3, <1>4, <1>5, <1>6, <1>7, <1>8, <1>9, <1>10, <1>11, <1>12, <1>13, <1>14
     DEF Next, Progress, InStore

(* It holds in every behaviour of a server that is the sole writer.         *)
LEMMA WriterInvariant == SoleWriter /\ Spec => []WriterInv
  BY InitWriter, NextWriter, PTL DEF Spec

(* What the next operation will work on is the current account record.      *)
LEMMA EffectiveIsCurrent ==
  WriterInv => (Effective \notin {NoRec, Corrupt} => Effective = Current /\ Current \in Records)
<1> SUFFICES ASSUME WriterInv, Effective \notin {NoRec, Corrupt} PROVE Effective = Current /\ Current \in Records
  OBVIOUS
<1>1. mem \in Records \cup {NoRec} /\ file.rec \in Records \cup {NoRec, Corrupt} /\ (~up => mem = NoRec)
  BY DEF WriterInv, TypeInv, TypeOK, Alive
<1>2. up /\ file.rec \in Records => mem = file.rec
  BY SentinelAssumption DEF WriterInv, Agree, Readable
<1>3. QED
  BY <1>1, <1>2 DEF Effective, UpToDate, Current

(* With the server as the only writer, the fingerprint never lies           *)
(* (store.go reloadIfNeeded).                                               *)
THEOREM StampsNeverLie == SoleWriter /\ Spec => []StampCoherent
<1>1. WriterInv => StampCoherent
  BY DEF WriterInv, Agree, StampCoherent, Quiet
<1>2. QED
  BY <1>1, WriterInvariant, PTL

(* With the server as the only writer, a password change kicks out every    *)
(* session older than itself, for any number of requests in flight.         *)
THEOREM ChangeKicksSessions == SoleWriter /\ Spec => []SessionsKicked
<1>1. WriterInv => SessionsKicked
  <2> SUFFICES ASSUME WriterInv, NEW t \in tokens, Matches(t, Effective) PROVE t.gen = gen
    BY DEF SessionsKicked
  <2>1. Effective = Current /\ Current \in Records
    BY EffectiveIsCurrent DEF Matches
  <2>2. QED
    BY <2>1 DEF WriterInv, Generations, Matches
<1>2. QED
  BY <1>1, WriterInvariant, PTL

(* With the server as the only writer, nothing but a password change (or a  *)
(* new setup) ends a session: not a refresh, a login, a restart, nor the    *)
(* loss of the file.                                                        *)
THEOREM SessionsSurvive == SoleWriter /\ Spec => []SessionsKept
<1>1. WriterInv => SessionsKept
  <2> SUFFICES ASSUME WriterInv, up, mem # NoRec, file.rec # Corrupt, NEW t \in tokens, t.gen = gen
               PROVE  Matches(t, Effective)
    BY DEF SessionsKept, Quiet
  <2>1. mem \in Records /\ Current = mem
    BY DEF WriterInv, TypeInv, TypeOK, Current
  <2>2. Effective = mem
    BY DEF Effective, UpToDate, WriterInv, Agree, Readable
  <2>3. t.secret = mem.secret /\ t.epoch = mem.epoch
    BY <2>1 DEF WriterInv, Generations
  <2>4. QED
    BY <2>1, <2>2, <2>3, SentinelAssumption DEF Matches
<1>2. QED
  BY <1>1, WriterInvariant, PTL

(* With the server as the only writer, an account that is set up changes    *)
(* hands only through a restart, whatever happens to auth.json.             *)
THEOREM NoTakeover == SoleWriter /\ Spec => NoTakeoverWhileRunning
<1>1. ASSUME WriterInv, [Next]_vars, up, up', mem # NoRec
      PROVE  mem' # NoRec /\ mem'.secret = mem.secret
  <2> USE DEF InBody
  <2>1. mem \in Records /\ mem # NoRec
    BY <1>1 DEF WriterInv, TypeInv, TypeOK
  <2>2. CASE mem' = mem
    BY <2>1, <2>2
  <2>3. ASSUME NEW h \in Handlers, ChangePassword(h) PROVE mem' # NoRec /\ mem'.secret = mem.secret
    <3>1. mem' = mem \/ mem' = Changed(mem, req[h].new)
      BY <2>3 DEF ChangePassword, Persist
    <3>2. req[h].new \in Passwords
      BY <1>1, <2>3 DEF ChangePassword, WriterInv, TypeInv, Filled
    <3>3. Changed(mem, req[h].new) \in Records /\ Changed(mem, req[h].new).secret = mem.secret
      BY <2>1, <3>2, ChangedType DEF Changed
    <3>4. QED
      BY <2>1, <3>1, <3>3, SentinelAssumption
  <2>4. ASSUME NEW h \in Handlers, Read(h) PROVE mem' = mem
    BY <1>1, <2>4 DEF Read, WriterInv, Agree
  <2>5. ASSUME NEW h \in Handlers, Setup(h) PROVE mem' = mem
    BY <1>1, <2>5 DEF Setup
  <2>6. ASSUME NEW h \in Handlers, Arrival(h) PROVE mem' = mem
    BY <2>6 DEF Arrival, ArriveSetup, ArriveLogin, ArriveProtected, ArriveStatus
  <2>7. ASSUME NEW h \in Handlers, Lock(h) \/ Status(h) \/ VerifyLogin(h) \/ VerifyToken(h) \/ Restat(h)
                                   \/ Issue(h) \/ Serve(h) \/ ServeChange(h)
        PROVE  mem' = mem
    BY <2>7 DEF Lock, Status, VerifyLogin, VerifyToken, Restat, Issue, Serve, ServeChange
  <2>8. CASE Tamper \/ Cli \/ (\E t \in tokens : Age(t)) \/ UNCHANGED vars
    BY <2>2, <2>8 DEF Tamper, Cli, CliLoad, CliPrepare, CliWrite, Age, server, vars
  <2>9. ~Crash /\ ~Start
    BY <1>1 DEF Crash, Start
  <2>10. QED
    BY <1>1, <2>2, <2>3, <2>4, <2>5, <2>6, <2>7, <2>8, <2>9 DEF Next, Progress, InStore
<1>2. WriterInv /\ [Next]_vars => [up /\ up' /\ mem # NoRec => mem' # NoRec /\ mem'.secret = mem.secret]_vars
  BY <1>1
<1>3. QED
  BY <1>2, WriterInvariant, PTL DEF Spec, NoTakeoverWhileRunning

(* With the server as the only writer, an epoch that has moved on never     *)
(* falls back, through crashes, restarts and damage to auth.json (store.go  *)
(* Record).                                                                 *)
THEOREM EpochsMoveOn == SoleWriter /\ Spec => EpochNeverRollsBack
<1>1. ASSUME WriterInv, WriterInv', [Next]_vars, Current \in Records, Current' \in Records,
             Current'.secret = Current.secret
      PROVE  Current'.epoch >= Current.epoch
  <2> USE DEF InBody
  <2>1. Current.epoch \in Nat /\ Current.secret \in Nat /\ gen \in Nat /\ Current.secret <= gen
    BY <1>1 DEF WriterInv, TypeInv, TypeOK, Generations, Records
  <2>2. CASE Current' = Current
    BY <2>1, <2>2
  <2>3. CASE UNCHANGED <<mem, file>>
    BY <2>2, <2>3 DEF Current
  <2>4. ASSUME NEW h \in Handlers, Arrival(h) PROVE UNCHANGED <<mem, file>>
    BY <2>4 DEF Arrival, ArriveSetup, ArriveLogin, ArriveProtected, ArriveStatus
  <2>5. ASSUME NEW h \in Handlers, Lock(h) \/ Status(h) \/ VerifyLogin(h) \/ VerifyToken(h) \/ Restat(h)
                                   \/ Issue(h) \/ Serve(h) \/ ServeChange(h)
        PROVE  UNCHANGED <<mem, file>>
    BY <2>5 DEF Lock, Status, VerifyLogin, VerifyToken, Restat, Issue, Serve, ServeChange
  <2>6. ASSUME NEW h \in Handlers, Read(h) PROVE UNCHANGED <<mem, file>>
    BY <1>1, <2>6 DEF Read, WriterInv, TypeInv, Alive, Agree
  <2>7. ASSUME NEW h \in Handlers, Setup(h) PROVE UNCHANGED <<mem, file>>
    <3> DEFINE r == [pw |-> req[h].pw, secret |-> gen + 1, epoch |-> 1]
    <3>1. CASE mem = NoRec /\ Persist(r)
      <4>1. mem' = r /\ r.secret = gen + 1
        BY <3>1 DEF Persist
      <4>2. r \in Records
        BY <1>1, <2>7, <2>1 DEF Setup, WriterInv, TypeInv, Filled, Records
      <4>3. Current' = r
        BY <4>1, <4>2, SentinelAssumption DEF Current
      <4>4. QED
        BY <1>1, <2>1, <4>1, <4>3
    <3>2. QED
      BY <2>7, <3>1 DEF Setup
  <2>8. ASSUME NEW h \in Handlers, ChangePassword(h), mem # NoRec, Persist(Changed(mem, req[h].new))
        PROVE  Current'.epoch >= Current.epoch
    <3>1. Current = mem /\ mem \in Records /\ req[h].new \in Passwords
      BY <1>1, <2>8 DEF ChangePassword, Current, WriterInv, TypeInv, TypeOK, Filled
    <3>2. Changed(mem, req[h].new) # NoRec /\ Changed(mem, req[h].new).epoch = mem.epoch + 1
      BY <3>1, ChangedType, SentinelAssumption DEF Changed
    <3>3. mem' = Changed(mem, req[h].new)
      BY <2>8 DEF Persist
    <3>4. Current' = mem'
      BY <3>2, <3>3 DEF Current
    <3>5. QED
      BY <2>1, <3>1, <3>2, <3>3, <3>4
  <2>9. ASSUME NEW h \in Handlers, ChangePassword(h)
        PROVE  UNCHANGED <<mem, file>> \/ (mem # NoRec /\ Persist(Changed(mem, req[h].new)))
    BY <1>1, <2>9 DEF ChangePassword, WriterInv, Alone, Spend
  <2>10. CASE Crash \/ Start \/ Tamper
    <3>1. Current' = Current
      BY <1>1, <2>10, SentinelAssumption
         DEF Crash, Start, Tamper, Current, WriterInv, TypeInv, Alive, Agree, Readable, server
    <3>2. QED
      BY <2>2, <3>1
  <2>11. CASE Cli \/ (\E t \in tokens : Age(t)) \/ UNCHANGED vars
    <3>1. UNCHANGED <<mem, file>>
      BY <1>1, <2>11 DEF Cli, CliLoad, CliPrepare, CliWrite, CliOff, Age, vars, WriterInv, Alone, Spend
    <3>2. QED
      BY <2>3, <3>1
  <2>12. QED
    BY <1>1, <2>3, <2>4, <2>5, <2>6, <2>7, <2>8, <2>9, <2>10, <2>11 DEF Next, Progress, InStore
<1>2. ASSUME WriterInv, WriterInv', [Next]_vars
      PROVE  Effective \notin {NoRec, Corrupt} /\ Effective' \notin {NoRec, Corrupt}
               /\ Effective'.secret = Effective.secret => Effective'.epoch >= Effective.epoch
  <2>1. (Effective \notin {NoRec, Corrupt} => Effective = Current /\ Current \in Records)'
    BY <1>2, EffectiveIsCurrent, PTL
  <2>2. QED
    BY <1>1, <1>2, <2>1, EffectiveIsCurrent
<1>3. WriterInv /\ WriterInv' /\ [Next]_vars =>
        [LET r == Effective IN
           r \notin {NoRec, Corrupt} /\ Effective' \notin {NoRec, Corrupt} /\ Effective'.secret = r.secret
             => Effective'.epoch >= r.epoch]_vars
  BY <1>2
<1>4. QED
  BY <1>3, WriterInvariant, PTL DEF Spec, EpochNeverRollsBack

-----------------------------------------------------------------------------
(* The refinement of Account, with the server as the only writer.           *)

(* With a sole writer, a running server goes by its memory.                 *)
LEMMA NowAlone == WriterInv => Now = (IF up THEN mem ELSE IF Readable THEN file.rec ELSE NoRec)
  BY DEF WriterInv, Agree, Now

(* The record the account stands for is the current one.                    *)
LEMMA NowIsCurrent ==
  ASSUME WriterInv
  PROVE  /\ Now \in Records \cup {NoRec}
         /\ Now \in Records => Now = Current
         /\ up => Now = mem
         /\ Now # NoRec => Now \in Records /\ Now.pw \in Passwords
<1>1. mem \in Records \cup {NoRec} /\ file.rec \in Records \cup {NoRec, Corrupt} /\ (~up => mem = NoRec)
  BY DEF WriterInv, TypeInv, TypeOK, Alive
<1>2. QED
  BY <1>1, NowAlone, SentinelAssumption DEF Current, Readable, Records

(* A step that leaves the record and the tokens alone is not visible.       *)
LEMMA SameAccount ==
  ASSUME Now' = Now, tokens' = tokens
  PROVE  UNCHANGED <<Password, LetIn>>
  BY DEF Password, LetIn

(* A record no token was minted for lets nobody in.                         *)
LEMMA FreshAccount ==
  ASSUME NEW r \in Records, Now' = r, tokens' = tokens,
         \A t \in tokens : t.secret # r.secret \/ t.epoch # r.epoch
  PROVE  Password' = r.pw /\ LetIn' = {}
<1>1. r # NoRec
  BY SentinelAssumption
<1>2. QED
  BY <1>1 DEF Password, LetIn

(* An account that is gone lets nobody in either.                           *)
LEMMA LostAccount ==
  ASSUME Now' = NoRec
  PROVE  Password' = NoRec /\ LetIn' = {}
  BY DEF Password, LetIn

(* Each step of the store is a step of the account, or none.                *)
LEMMA StepKept ==
  ASSUME WriterInv, WriterInv', [Next]_vars
  PROVE  Promise!Next \/ UNCHANGED <<Password, LetIn>>
<1> USE DEF InBody
<1>1. /\ TypeOK /\ left["cli"] = 0 /\ left["ioerr"] = 0 /\ cli = CliOff
      /\ ~Spend("cli") /\ ~Spend("ioerr")
  BY DEF WriterInv, TypeInv, Alone, Spend
<1>2. \A t \in tokens : t.secret \in Nat /\ t.epoch \in Nat /\ t.secret <= gen
  BY <1>1 DEF TypeOK, Tokens, WriterInv, Bounded
<1>0. (Now = (IF up THEN mem ELSE IF Readable THEN file.rec ELSE NoRec))'
  BY NowAlone, PTL
<1>3. CASE UNCHANGED <<file, up, mem, tokens>>
  <2>1. Now' = Now
    BY <1>0, <1>3, NowAlone DEF Readable
  <2>2. QED
    BY <1>3, <2>1, SameAccount
<1>4. ASSUME NEW h \in Handlers, Arrival(h) PROVE UNCHANGED <<file, up, mem, tokens>>
  BY <1>4 DEF Arrival, ArriveSetup, ArriveLogin, ArriveProtected, ArriveStatus
<1>5. ASSUME NEW h \in Handlers, Lock(h) \/ Status(h) \/ VerifyLogin(h) \/ VerifyToken(h) \/ Restat(h)
                                 \/ Serve(h) \/ ServeChange(h)
      PROVE  UNCHANGED <<file, up, mem, tokens>>
  BY <1>5 DEF Lock, Status, VerifyLogin, VerifyToken, Restat, Serve, ServeChange
<1>6. ASSUME NEW h \in Handlers, Read(h) PROVE UNCHANGED <<file, up, mem, tokens>>
  BY <1>6 DEF Read, WriterInv, TypeInv, Alive, Agree
<1>7. ASSUME NEW h \in Handlers, Setup(h) PROVE Promise!Next \/ UNCHANGED <<file, up, mem, tokens>>
  <2> DEFINE r == [pw |-> req[h].pw, secret |-> gen + 1, epoch |-> 1]
  <2>1. CASE mem = NoRec /\ Persist(r)
    <3>1. up /\ gen \in Nat /\ req[h].pw \in Passwords /\ tokens' = tokens
      BY <1>1, <1>7 DEF Setup, WriterInv, TypeInv, Alive, Filled, TypeOK
    <3>2. r \in Records
      BY <3>1 DEF Records
    <3>3. Now = NoRec
      BY <2>1, <3>1, NowIsCurrent
    <3>4. Now' = r
      BY <1>0, <2>1, <3>1, <1>7 DEF Setup, Persist
    <3>5. \A t \in tokens : t.secret # r.secret
      BY <1>2, <3>1
    <3>6. Password' = r.pw /\ LetIn' = {}
      BY <3>1, <3>2, <3>4, <3>5, FreshAccount
    <3>7. Promise!SetUp(req[h].pw)
      BY <3>3, <3>6 DEF Promise!SetUp, Password
    <3>8. QED
      BY <3>1, <3>7 DEF Promise!Next
  <2>2. QED
    BY <1>7, <2>1 DEF Setup
<1>8. ASSUME NEW h \in Handlers, ChangePassword(h) PROVE Promise!Next \/ UNCHANGED <<file, up, mem, tokens>>
  <2> DEFINE r == Changed(mem, req[h].new)
  <2>1. CASE mem # NoRec /\ Persist(r)
    <3>1. /\ up /\ mem \in Records /\ req[h].new \in Passwords /\ tokens' = tokens
          /\ mem.secret \in Nat /\ mem.epoch \in Nat
      BY <1>1, <1>8, <2>1 DEF ChangePassword, WriterInv, TypeInv, Alive, Filled, TypeOK, Records
    <3>2. r \in Records /\ r.secret = mem.secret /\ r.epoch = mem.epoch + 1 /\ r.pw = req[h].new
      BY <3>1, ChangedType DEF Changed
    <3> HIDE DEF r
    <3>3. Now = mem /\ Now # NoRec /\ Current = mem
      BY <2>1, <3>1, NowIsCurrent DEF Current
    <3>4. Now' = r
      BY <1>0, <2>1, <3>1, <1>8 DEF ChangePassword, Persist
    <3>5. \A t \in tokens : t.secret = r.secret => t.epoch <= mem.epoch
      BY <3>1, <3>2, <3>3 DEF WriterInv, Generations
    <3>6. \A t \in tokens : t.secret # r.secret \/ t.epoch # r.epoch
      BY <1>2, <3>1, <3>2, <3>5
    <3>7. Password' = r.pw /\ LetIn' = {}
      BY <3>1, <3>2, <3>4, <3>6, FreshAccount
    <3>8. Password # NoRec
      BY <3>1, <3>3, NowIsCurrent, SentinelAssumption DEF Password
    <3>9. QED
      BY <3>1, <3>2, <3>7, <3>8 DEF Promise!Next, Promise!Change
  <2>2. QED
    BY <1>1, <1>8, <2>1 DEF ChangePassword
<1>9. ASSUME NEW h \in Handlers, Issue(h) PROVE Promise!Next \/ UNCHANGED <<Password, LetIn>>
  <2>1. up /\ mem \in Records /\ mem # NoRec /\ UNCHANGED <<file, up, mem>>
    BY <1>1, <1>9, SentinelAssumption DEF Issue, WriterInv, TypeInv, TypeOK, Alive, Minting
  <2>2. Now = mem /\ Now' = Now
    BY <1>0, <2>1, NowIsCurrent
  <2>3. Matches(NewToken, Now)
    BY <2>1, <2>2, SentinelAssumption DEF Matches, NewToken
  <2>4. LetIn' = LetIn \cup {NewToken} /\ Password' = Password /\ tokens' = tokens \cup {NewToken}
    BY <1>9, <2>1, <2>2, <2>3 DEF Issue, LetIn, Matches, Password
  <2>5. Password # NoRec
    BY <2>1, <2>2, NowIsCurrent, SentinelAssumption DEF Password
  <2>6. QED
    BY <2>4, <2>5 DEF Promise!Next, Promise!Grant
<1>10. ASSUME NEW t \in tokens, Age(t) PROVE Promise!Next \/ UNCHANGED <<Password, LetIn>>
  <2>1. Now' = Now /\ Password' = Password
    BY <1>0, <1>10, NowAlone DEF Age, Readable, Password
  <2>2. CASE t.age = "fresh"
    <3> DEFINE u == [t EXCEPT !.age = "due"]
    <3>1. tokens' = (tokens \ {t}) \cup {u} /\ u.secret = t.secret /\ u.epoch = t.epoch
      BY <1>1, <1>10, <2>2 DEF Age, TypeOK, Tokens
    <3> HIDE DEF u
    <3>2. CASE t \in LetIn
      <4>1. LetIn' = (LetIn \ {t}) \cup {u}
        BY <2>1, <3>1, <3>2 DEF LetIn
      <4>2. CASE u = t
        BY <2>1, <3>2, <4>1, <4>2
      <4>3. CASE u # t /\ u \in LetIn
        <5>1. LetIn' = LetIn \ {t} /\ t \in LetIn \ LetIn'
          BY <3>2, <4>1, <4>3
        <5>2. QED
          BY <2>1, <5>1 DEF Promise!Next, Promise!Age
      <4>4. CASE u \notin LetIn
        <5>1. t \in LetIn \ LetIn' /\ u \in LetIn' \ LetIn
          BY <3>2, <4>1, <4>4
        <5>2. QED
          BY <2>1, <4>1, <5>1 DEF Promise!Next, Promise!Age
      <4>5. QED
        BY <4>2, <4>3, <4>4
    <3>3. CASE t \notin LetIn
      BY <2>1, <3>1, <3>3 DEF LetIn
    <3>4. QED
      BY <3>2, <3>3
  <2>3. CASE t.age # "fresh"
    <3>1. tokens' = tokens \ {t}
      BY <1>10, <2>3 DEF Age
    <3>2. LetIn' = LetIn \ {t}
      BY <2>1, <3>1 DEF LetIn
    <3>3. QED
      BY <2>1, <3>2 DEF Promise!Next, Promise!Age
  <2>4. QED
    BY <2>2, <2>3
<1>11. CASE Now' = NoRec
  BY <1>11, LostAccount DEF Promise!Next, Promise!Lose
<1>12. CASE Crash \/ Start \/ Tamper
  <2>1. tokens' = tokens /\ (Now' = Now \/ Now' = NoRec)
    BY <1>0, <1>12, NowAlone, SentinelAssumption
       DEF Crash, Start, Tamper, WriterInv, TypeInv, TypeOK, Alive, Agree, Readable, server
  <2>2. QED
    BY <1>11, <2>1, SameAccount
<1>13. ~Cli
  BY <1>1 DEF Cli, CliLoad, CliPrepare, CliWrite, CliOff
<1>14. CASE UNCHANGED vars
  BY <1>3, <1>14 DEF vars
<1>15. QED
  BY <1>3, <1>4, <1>5, <1>6, <1>7, <1>8, <1>9, <1>10, <1>12, <1>13, <1>14 DEF Next, Progress, InStore

(* The store implements the account as long as the server is the only       *)
(* writer of auth.json and its writes succeed: a refinement, for any number *)
(* of requests in flight, crashes and losses of the file.                   *)
THEOREM ServerKeepsAccount == SoleWriter /\ Spec => AccountKept
<1>1. Init => Promise!Init
  <2> SUFFICES ASSUME Init PROVE Promise!Init
    OBVIOUS
  <2>1. Now = NoRec \/ Now \in Records
    BY SentinelAssumption DEF Init, Now, Readable, Records
  <2>2. Now \in Records => Now.pw \in Passwords
    BY DEF Records
  <2>3. LetIn = {}
    BY DEF Init, LetIn
  <2>4. QED
    BY <2>1, <2>2, <2>3 DEF Promise!Init, Password
<1>2. WriterInv /\ WriterInv' /\ [Next]_vars => [Promise!Next]_(Promise!account)
  BY StepKept DEF Promise!account
<1>3. QED
  BY <1>1, <1>2, WriterInvariant, PTL DEF Spec, AccountKept, Promise!Spec

-----------------------------------------------------------------------------
(* The other side: a server that only reads notices every reset, however    *)
(* many the CLI makes and whatever fails or is tampered with.               *)

Reader == \A b \in Budgets : b["setup"] = 0 /\ b["change"] = 0

Reading ==
  /\ left["setup"] = 0 /\ left["change"] = 0
  /\ \A h \in Handlers : req[h].op \notin {"setup", "change"}
  /\ cs.step # "restat"

Older == stamp <= writes /\ cs.saw <= writes /\ file.stamp <= writes

Coherent == mem # NoRec /\ Readable /\ stamp = file.stamp => file.rec = mem

ReaderInv == TypeInv /\ Reading /\ Older /\ Coherent

(* The invariant of a server that only reads is inductive.                  *)
LEMMA NextReader == ReaderInv /\ [Next]_vars => ReaderInv'
<1> SUFFICES ASSUME ReaderInv, [Next]_vars PROVE Reading' /\ Older' /\ Coherent'
  BY NextType DEF ReaderInv
<1> USE DEF InBody, Reading, Older, Coherent, Readable
<1>1. TypeOK /\ Reading /\ Older /\ Coherent /\ ~Spend("setup") /\ ~Spend("change")
  BY DEF ReaderInv, TypeInv, Spend
<1>2. \A e \in Events : Spend(e) => left'["setup"] = 0 /\ left'["change"] = 0
  BY <1>1 DEF TypeOK, Spend
<1>3. ASSUME NEW h \in Handlers, Arrival(h) PROVE Reading' /\ Older' /\ Coherent'
  BY <1>1, <1>3 DEF Arrival, ArriveSetup, ArriveLogin, ArriveProtected, ArriveStatus, Arrive, TypeOK
<1>4. ASSUME NEW h \in Handlers, Progress(h) PROVE Reading' /\ Older' /\ Coherent'
  <2>1. CASE Lock(h)
    BY <1>1, <2>1 DEF Lock, TypeOK
  <2>2. CASE Read(h)
    BY <1>1, <2>2 DEF Read, Return, Free, Idle, TypeOK
  <2>3. CASE Status(h) \/ VerifyLogin(h) \/ VerifyToken(h)
    BY <1>1, <2>3 DEF Status, VerifyLogin, VerifyToken, Return, Leave, Free, Idle, TypeOK
  <2>4. ~Setup(h) /\ ~ChangePassword(h) /\ ~Restat(h) /\ ~ServeChange(h)
    BY <1>1 DEF Setup, ChangePassword, Restat, ServeChange
  <2>5. CASE Issue(h) \/ Serve(h)
    BY <1>1, <2>5 DEF Issue, Serve, Idle, TypeOK
  <2>6. QED
    BY <1>4, <2>1, <2>2, <2>3, <2>4, <2>5 DEF Progress, InStore
<1>5. ASSUME NEW t \in tokens, Age(t) PROVE Reading' /\ Older' /\ Coherent'
  BY <1>1, <1>5 DEF Age
<1>6. CASE Crash
  BY <1>1, <1>2, <1>6 DEF Crash, Free, Idle, TypeOK
<1>7. CASE Start
  BY <1>1, <1>7 DEF Start
<1>8. CASE Tamper
  BY <1>1, <1>2, <1>8, SentinelAssumption DEF Tamper, server, TypeOK
<1>9. CASE Cli
  BY <1>1, <1>2, <1>9 DEF Cli, CliLoad, CliPrepare, CliWrite, Rename, server, TypeOK
<1>10. CASE UNCHANGED vars
  BY <1>1, <1>10 DEF vars
<1>11. QED
  BY <1>3, <1>4, <1>5, <1>6, <1>7, <1>8, <1>9, <1>10 DEF Next

(* cli.go: while nobody changes the password through the server, no reset   *)
(* goes unnoticed.                                                          *)
THEOREM ResetsAreNoticed == Reader /\ Spec => []StampCoherent
<1>1. Reader /\ Init => ReaderInv
  BY Initially DEF Reader, Init, ReaderInv, Reading, Older, Coherent, Idle, Free, Readable
<1>2. ReaderInv => StampCoherent
  BY DEF ReaderInv, Coherent, StampCoherent
<1>3. QED
  BY <1>1, <1>2, NextReader, PTL DEF Spec
=============================================================================
