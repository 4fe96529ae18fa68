----------------------------- MODULE MCAuthStore -----------------------------
(* Instances of AuthStore for TLC. *)
EXTENDS AuthStore, TLC

CONSTANTS h1, h2, p1, p2

Symmetry == Permutations(Handlers) \cup Permutations(Passwords)

Events0 == [e \in Events |-> 0]

(* The server is the only writer; it may lose its file and be restarted. *)
ServerAlone == [Events0 EXCEPT !["setup"] = 2, !["change"] = 1, !["tamper"] = 1, !["crash"] = 1]

(* A write of the server's fails, and the server goes on.                   *)
ServerFailing == [Events0 EXCEPT !["setup"] = 1, !["change"] = 1, !["tamper"] = 1, !["ioerr"] = 1]

(* Resets by the CLI, against logins and refreshes but no password change   *)
(* through the server: two of them, or one whose write may fail and a       *)
(* restart of the server.                                                   *)
TwoResets == [Events0 EXCEPT !["cli"] = 2]
WithCli   == [Events0 EXCEPT !["cli"] = 1, !["crash"] = 1, !["ioerr"] = 1]

(* Any of the cases with one writer.                                        *)
OneWriter == {ServerAlone, ServerFailing, TwoResets, WithCli}

(* One reset by the CLI against one password change through the server.     *)
TwoWriters == {[Events0 EXCEPT !["change"] = 1, !["cli"] = 1]}

(* A setup and a password change, one of whose writes may fail, for liveness. *)
Faults == {[Events0 EXCEPT !["setup"] = 1, !["change"] = 1, !["ioerr"] = 1]}
=============================================================================
