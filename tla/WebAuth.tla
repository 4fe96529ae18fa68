------------------------------- MODULE WebAuth -------------------------------
(***************************************************************************)
(* Login in the browser (frontend/src/stores/authStore.ts, auth/AuthGate,  *)
(* auth/RequireAuth, the login, set-up and account pages) and the auth     *)
(* endpoints as the browser sees them.                                     *)
(***************************************************************************)
EXTENDS AppStore

VARIABLES
  status,     \* authStore.status
  hasAccount  \* backend: the account has been set up

authVars == <<status, hasAccount>>

Phases == {"loading", "error", "setup", "anonymous", "authenticated"}

AuthInit == status = "loading" /\ hasAccount \in {TRUE, sessions # {}}

(* AuthGate: an effect on the status loads the servers once logged in.      *)
Enter(c, newStatus, newCookie) ==
  /\ status' = newStatus /\ cookie' = newCookie
  /\ IF newStatus = "authenticated" /\ status # "authenticated"
     THEN Send({c}, {[LoadCall EXCEPT !.cred = newCookie]}) /\ loading' = TRUE
     ELSE Send({c}, {}) /\ UNCHANGED loading

(* Mutant: the list of servers outlives the login. *)
ForgetNothing == UNCHANGED <<servers, active>>

(* logout, markUnauthenticated: the poll goes by the list of servers *)
Forget == servers' = {} /\ active' = None

-----------------------------------------------------------------------------
(* What the user starts.                                                    *)

(* the retry button of AuthGate *)
Bootstrap ==
  /\ status = "error" /\ Take("click")
  /\ Start({NewCall("status", None, None)})
  /\ status' = "loading"
  /\ UNCHANGED <<muted, cookie, sessions, storeVars, hasAccount>>

(* One call at a time: a submit under way disables its button.              *)
Submit(op, phase) ==
  /\ status = phase /\ InFlight({op}) = {}
  /\ Take("click") /\ Start({NewCall(op, None, None)})
  /\ UNCHANGED <<muted, cookie, sessions, storeVars, authVars>>

(* RequireAuth and the pages' own redirects show the login form to an       *)
(* anonymous user, the set-up form before there is an account, the rest     *)
(* only to who is logged in.  The forms' rules let valid values through.    *)
LoginPage  == Submit("login", "anonymous")
SetupPage  == Submit("setup", "setup")
Logout     == Submit("logout", "authenticated")
AccountTab == Submit("password", "authenticated")

AuthClick == Bootstrap \/ LoginPage \/ SetupPage \/ Logout \/ AccountTab

-----------------------------------------------------------------------------
(* The backend handles them (backend/internal/api/auth.go).                 *)

Sent(c, op) == calls[c].op = op /\ calls[c].verdict = "sent"

Grant(c) == calls' = [calls EXCEPT ![c].verdict = "ok", ![c].cred = Fresh]

(* Sessions are not kept by the backend: a logout only clears the cookie.   *)
HandleAuth(c) ==
  \/ /\ Sent(c, "status")
     /\ Settle(c, IF ~hasAccount THEN "setup" ELSE IF Admitted(c) THEN "ok" ELSE "anonymous")
     /\ UNCHANGED <<sessions, budget, hasAccount>>
  \/ /\ Sent(c, "login") /\ hasAccount
     /\ Take("grant") /\ Grant(c) /\ sessions' = sessions \cup {Fresh}
     /\ UNCHANGED hasAccount
  \/ /\ Sent(c, "setup") /\ ~hasAccount
     /\ Take("grant") /\ Grant(c) /\ sessions' = sessions \cup {Fresh}
     /\ hasAccount' = TRUE
  \/ /\ Sent(c, "password") /\ Admitted(c)
     /\ Take("grant") /\ Grant(c) /\ sessions' = {Fresh}
     /\ UNCHANGED hasAccount
  \/ /\ Sent(c, "logout")
     /\ calls' = [calls EXCEPT ![c].verdict = "ok", ![c].cred = 0]
     /\ UNCHANGED <<sessions, budget, hasAccount>>

(* a wrong password, or too many attempts; an account that exists already   *)
Deny(c) ==
  \/ /\ Sent(c, "login") \/ (Sent(c, "password") /\ Admitted(c))
     /\ Take("wrong") /\ Settle(c, "unauth")
  \/ /\ Sent(c, "setup") /\ hasAccount
     /\ Settle(c, "fail") /\ UNCHANGED budget

(* The account is set up in another browser. *)
SetUpElsewhere ==
  /\ ~hasAccount /\ Take("expire")
  /\ hasAccount' = TRUE
  /\ UNCHANGED <<calls, muted, cookie, sessions, storeVars, status>>

Handle(c) ==
  /\ HandleAuth(c) \/ (Deny(c) /\ UNCHANGED <<sessions, hasAccount>>)
  /\ UNCHANGED <<muted, cookie, storeVars, status>>

-----------------------------------------------------------------------------
(* The continuations.                                                       *)

(* request() on a 401: the report, unless there was one within a second     *)
(* (fireUnauthorized, markUnauthenticated); the caller sees it afterwards.  *)
Unauthorized(c) ==
  /\ calls[c].verdict = "unauth"
  /\ Throw(c)
  /\ IF Dispatched(c) /\ ~muted
     THEN muted' = TRUE /\ status' = "anonymous" /\ Forget
     ELSE UNCHANGED <<muted, status, servers, active>>
  /\ UNCHANGED <<cookie, sessions, budget, loading, stored, hasAccount>>

BootstrapDone(c) ==
  /\ \/ Done(c, "status", "ok") /\ Enter(c, "authenticated", cookie)
     \/ Done(c, "status", "setup") /\ Enter(c, "setup", cookie)
     \/ Done(c, "status", "anonymous") /\ Enter(c, "anonymous", cookie)
     \/ Done(c, "status", "fail") /\ Enter(c, "error", cookie)
  /\ UNCHANGED <<muted, sessions, budget, servers, active, stored, hasAccount>>

(* Set-Cookie comes with the answer *)
LoginDone(c) ==
  /\ calls[c].op \in {"login", "setup"}
  /\ \/ calls[c].verdict = "ok" /\ Enter(c, "authenticated", calls[c].cred)
     \/ calls[c].verdict = "fail" /\ Send({c}, {}) /\ UNCHANGED <<cookie, status, loading>>
  /\ UNCHANGED <<muted, sessions, budget, servers, active, stored, hasAccount>>

(* a failure logs out locally all the same *)
LogoutDone(c) ==
  /\ \/ Done(c, "logout", "ok") /\ Enter(c, "anonymous", calls[c].cred)
     \/ Done(c, "logout", "fail") /\ Enter(c, "anonymous", cookie)
  /\ Forget
  /\ UNCHANGED <<muted, sessions, budget, stored, hasAccount>>

PasswordDone(c) ==
  /\ \/ Done(c, "password", "ok") /\ cookie' = calls[c].cred
     \/ Done(c, "password", "fail") /\ UNCHANGED cookie
  /\ Send({c}, {})
  /\ UNCHANGED <<muted, sessions, budget, storeVars, authVars>>

AuthDone(c) == BootstrapDone(c) \/ LoginDone(c) \/ LogoutDone(c) \/ PasswordDone(c)
=============================================================================
