------------------------------ MODULE MCBackend ------------------------------
(***************************************************************************)
(* Instances for TLC of the backend's login limiter and of the session it  *)
(* keeps with a qBittorrent.  They share nothing, so that a behaviour looks *)
(* at one of them (focus) while the other rests.                           *)
(***************************************************************************)
EXTENDS LoginLimiter, QbtSession, TLC

VARIABLE focus

Symmetry == Permutations(Keys) \cup Permutations(LoginHandlers)
              \cup Permutations(Handlers) \cup Permutations(Instances)

ThreeInTwo == [max |-> 3, window |-> 2, lockout |-> 2]
FourInOne  == [max |-> 4, window |-> 1, lockout |-> 2]

BackendInit ==
  /\ focus \in {"limiter", "session"}
  /\ LoginInit
  /\ Init /\ (focus = "limiter" => conf.good)

BackendNext ==
  /\ UNCHANGED focus
  /\ \/ focus = "limiter" /\ LoginNext /\ UNCHANGED vars
     \/ focus = "session" /\ Next /\ UNCHANGED loginVars

BackendSpec == BackendInit /\ [][BackendNext]_<<focus, loginVars, vars>>
=============================================================================
