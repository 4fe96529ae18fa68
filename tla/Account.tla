------------------------------- MODULE Account -------------------------------
(***************************************************************************)
(* What the account store promises (the comments of internal/auth/store.go *)
(* and session.go): one account, whose password changes hands only through *)
(* a change or a reset, and a set of valid sessions which every change     *)
(* empties, and nothing else takes from but time and the loss of the       *)
(* account itself.  Files, fingerprints, epochs, reloads and restarts are  *)
(* below this level: AuthStore implements it.                              *)
(***************************************************************************)
CONSTANTS
  Passwords,
  NoAccount  \* the setup page is shown

VARIABLES password, sessions

account == <<password, sessions>>

Init == password \in Passwords \cup {NoAccount} /\ sessions = {}

SetUp(p) == password = NoAccount /\ password' = p /\ sessions' = {}

(* By the settings page or by reset-password: every session is kicked out.  *)
Change(p) == password # NoAccount /\ password' = p /\ sessions' = {}

(* A login, or the setup or the change itself, opens a session.             *)
Grant ==
  /\ password # NoAccount
  /\ \E s \in sessions' \ sessions : sessions' = sessions \cup {s}
  /\ UNCHANGED password

(* A session grows older and becomes another, or is over.                   *)
Age(s) ==
  /\ \/ sessions' = sessions \ {s}
     \/ \E t \in sessions' \ sessions : sessions' = (sessions \ {s}) \cup {t}
  /\ UNCHANGED password

(* Somebody takes the file away, and the server is restarted.               *)
Lose == password' = NoAccount /\ sessions' = {}

Next ==
  \/ \E p \in Passwords : SetUp(p) \/ Change(p)
  \/ Grant
  \/ \E s \in sessions \ sessions' : Age(s)
  \/ Lose

Spec == Init /\ [][Next]_account
=============================================================================
