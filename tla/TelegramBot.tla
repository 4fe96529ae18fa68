----------------------------- MODULE TelegramBot -----------------------------
(***************************************************************************)
(* The life of the Telegram bot (internal/telegram/manager.go) and the     *)
(* settings endpoint that drives it (internal/api/telegram.go).            *)
(*                                                                         *)
(* Each save ends in a Reconcile.  Manager.mu guards single reads and      *)
(* writes of the fields; startMu is held while a Reconcile stops the old   *)
(* instance and waits for it.  An instance is a goroutine (run) that asks  *)
(* the Telegram API who it is and then polls until its context is          *)
(* cancelled.  A configuration is represented by its fingerprint; the      *)
(* white list, which the fingerprint leaves out, is read at each update.   *)
(***************************************************************************)
EXTENDS Naturals

CONSTANTS
  Putters,     \* goroutines of PUT /telegram
  BotConfigs,  \* fingerprints of configurations that start a bot
  Disabled,    \* the fingerprint of one that does not
  NoHash,      \* Manager.hash before the first Reconcile
  MaxRuns,     \* instances started (a bound)
  MaxSaves     \* saves (a bound)

ASSUME BotAssumption ==
  /\ Disabled \notin BotConfigs /\ NoHash \notin BotConfigs \cup {Disabled}
  /\ MaxRuns \in Nat /\ MaxSaves \in Nat

VARIABLES
  saved,      \* the configuration in the settings store
  putter,     \* per goroutine: [step, cfg]
  botHash,    \* Manager.hash
  botStatus,  \* Manager.status
  current,    \* the instance Manager.cancel and Manager.done belong to, 0 for nil
  instances,  \* per instance: [cfg, cancelled, phase]
  begun,      \* instances so far
  saves       \* saves so far

botVars == <<saved, putter, botHash, botStatus, current, instances, begun, saves>>

Fingerprints == BotConfigs \cup {Disabled}

(* The steps of a putter: "check" is the first look, "lock" waits for        *)
(* startMu, "wait" holds it and waits for the old instance.                  *)
PutterSteps == {"idle", "check", "lock", "wait"}
Phases      == {"unborn", "new", "asking", "menu", "polling", "over"}

BotInit ==
  /\ saved \in Fingerprints
  /\ putter = [p \in Putters |-> [step |-> "idle", cfg |-> NoHash]]
  /\ botHash = NoHash /\ botStatus = "stopped" /\ current = 0
  /\ instances = [n \in 1..MaxRuns |-> [cfg |-> NoHash, cancelled |-> FALSE, phase |-> "unborn"]]
  /\ begun = 0 /\ saves = 0

Aligned(c) == c = botHash /\ botStatus = "running"

GoTo(p, step) == putter' = [putter EXCEPT ![p].step = step]

(* updateTelegramConfig; main does the same with the stored configuration.  *)
(* The settings are replaced before the write that may fail, and a failed   *)
(* write ends the request.                                                  *)
PutTelegram(p, c) ==
  /\ putter[p].step = "idle" /\ saves < MaxSaves
  /\ saved' = c /\ saves' = saves + 1
  /\ \/ putter' = [putter EXCEPT ![p] = [step |-> "check", cfg |-> c]]
     \/ UNCHANGED putter
  /\ UNCHANGED <<botHash, botStatus, current, instances, begun>>

(* Reconcile: nothing to do when this configuration runs already            *)
Look(p) ==
  /\ putter[p].step = "check"
  /\ GoTo(p, IF Aligned(putter[p].cfg) THEN "idle" ELSE "lock")
  /\ UNCHANGED <<saved, botHash, botStatus, current, instances, begun, saves>>

(* startMu, the second look, and the cancellation of the old instance       *)
StopOld(p) ==
  /\ putter[p].step = "lock"
  /\ \A q \in Putters : putter[q].step # "wait"
  /\ \/ /\ Aligned(putter[p].cfg)
        /\ GoTo(p, "idle") /\ UNCHANGED instances
     \/ /\ ~Aligned(putter[p].cfg)
        /\ instances' = [n \in 1..MaxRuns |->
             IF n = current THEN [instances[n] EXCEPT !.cancelled = TRUE] ELSE instances[n]]
        /\ GoTo(p, "wait")
  /\ UNCHANGED <<saved, botHash, botStatus, current, begun, saves>>

(* Mutant: the old instance is cancelled but not waited for.                *)
OverAtOnce(n) == TRUE

(* <-done: the instance has returned                                        *)
Over(n) == n # 0 => instances[n].phase = "over"

StartNew(p) ==
  LET c == putter[p].cfg IN
  /\ putter[p].step = "wait" /\ Over(current)
  /\ botHash' = c
  /\ \/ /\ c = Disabled
        /\ botStatus' = "stopped" /\ current' = 0
        /\ UNCHANGED <<instances, begun>>
     \/ /\ c # Disabled /\ begun < MaxRuns
        /\ begun' = begun + 1 /\ current' = begun + 1
        /\ instances' = [instances EXCEPT ![begun + 1] = [cfg |-> c, cancelled |-> FALSE, phase |-> "new"]]
        /\ UNCHANGED botStatus
  /\ GoTo(p, "idle")
  /\ UNCHANGED <<saved, saves>>

-----------------------------------------------------------------------------
(* run                                                                      *)
Enter(n, phase) == instances' = [instances EXCEPT ![n].phase = phase]

(* httpClientFor or bot.New may fail, whether cancelled or not.             *)
Build(n) ==
  /\ instances[n].phase = "new"
  /\ \/ Enter(n, "asking") /\ UNCHANGED botStatus
     \/ Enter(n, "over") /\ botStatus' = "error"
  /\ UNCHANGED <<saved, putter, botHash, current, begun, saves>>

(* GetMe; the error of a cancelled one is left to the Reconcile that did it *)
GetMe(n) ==
  /\ instances[n].phase = "asking"
  /\ \/ Enter(n, "menu") /\ UNCHANGED botStatus
     \/ Enter(n, "over") /\ botStatus' = IF instances[n].cancelled THEN botStatus ELSE "error"
  /\ UNCHANGED <<saved, putter, botHash, current, begun, saves>>

(* SetMyCommands, and the instance calls itself running, cancelled or not.  *)
Announce(n) ==
  /\ instances[n].phase = "menu"
  /\ Enter(n, "polling") /\ botStatus' = "running"
  /\ UNCHANGED <<saved, putter, botHash, current, begun, saves>>

(* The deferred function when Start returns.                                *)
Leave(n) ==
  /\ instances[n].phase = "polling"
  /\ Enter(n, "over")
  /\ botStatus' = IF ~instances[n].cancelled THEN "error"
                  ELSE IF botStatus = "running" THEN "stopped" ELSE botStatus
  /\ UNCHANGED <<saved, putter, botHash, current, begun, saves>>

-----------------------------------------------------------------------------
BotNext ==
  \/ \E p \in Putters :
       \/ \E c \in Fingerprints : PutTelegram(p, c)
       \/ Look(p) \/ StopOld(p) \/ StartNew(p)
  \/ \E n \in 1..MaxRuns : Build(n) \/ GetMe(n) \/ Announce(n) \/ Leave(n)

BotSpec == BotInit /\ [][BotNext]_botVars

-----------------------------------------------------------------------------
(* Type invariant, not checked by itself: the shapes the proofs start from. *)
BotTypeOK ==
  /\ saved \in Fingerprints
  /\ putter \in [Putters -> [step : PutterSteps, cfg : Fingerprints \cup {NoHash}]]
  /\ botHash \in Fingerprints \cup {NoHash}
  /\ botStatus \in {"running", "stopped", "error"}
  /\ begun \in 0..MaxRuns /\ current \in 0..begun /\ saves \in Nat
  /\ instances \in [1..MaxRuns -> [cfg : BotConfigs \cup {NoHash}, cancelled : BOOLEAN, phase : Phases]]

Working(n) == instances[n].phase \in {"new", "asking", "menu", "polling"}

(* manager.go Reconcile: two instances never run at once, or the API would   *)
(* answer their getUpdates with 409; and the status badge tells the truth:   *)
(* "running" means that the instance of the configuration last aligned polls.*)
OnePoller ==
  /\ \A m, n \in 1..MaxRuns : Working(m) /\ Working(n) => m = n
  /\ botStatus = "running" =>
       /\ current # 0 /\ instances[current].phase = "polling"
       /\ instances[current].cfg = botHash
=============================================================================
