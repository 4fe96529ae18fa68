------------------------------- MODULE Listing -------------------------------
(***************************************************************************)
(* What a directory listing promises (the opening comment of               *)
(* internal/api/fs.go and the comments of internal/agent/manager.go): the  *)
(* agent of the downloader asked for is asked, and no other, at most once; *)
(* only its answer to that very request is passed on, once; without an     *)
(* agent a downloader on this machine is listed by the backend itself, and *)
(* so is one whose agent has just gone, but never one whose agent is only  *)
(* slow.  Connections, ids and channels are below this level: AgentManager *)
(* implements it.                                                          *)
(***************************************************************************)
CONSTANTS
  Calls,     \* directory listings
  Servers, Loopback,
  None

VARIABLES
  online,  \* the downloaders whose agent is connected
  goal,    \* per listing, the downloader to list
  asked,   \* per listing, the downloaders whose agent was asked
  box,     \* per listing, the request whose answer has arrived for it
  stage    \* per listing: unused, open, late (given up), cut (its agent has gone), or its outcome

listing == <<online, goal, asked, box, stage>>

Init ==
  /\ online = {}
  /\ goal = [k \in Calls |-> None] /\ asked = [k \in Calls |-> {}]
  /\ box = [k \in Calls |-> None] /\ stage = [k \in Calls |-> "unused"]

Come(s) == online' = online \cup {s} /\ UNCHANGED <<goal, asked, box, stage>>
Go(s)   == online' = online \ {s} /\ UNCHANGED <<goal, asked, box, stage>>

Move(k, to) == stage' = [stage EXCEPT ![k] = to]

WithoutAgent(s, refusal) == IF s \in Loopback THEN "local" ELSE refusal

Begin(k, s) ==
  /\ stage[k] = "unused" /\ goal' = [goal EXCEPT ![k] = s]
  /\ Move(k, IF s \in online THEN "open" ELSE WithoutAgent(s, "required"))
  /\ UNCHANGED <<online, asked, box>>

(* The agent that was online at first is gone before it is asked.           *)
Miss(k) ==
  /\ stage[k] = "open" /\ asked[k] = {} /\ goal[k] \notin online
  /\ Move(k, WithoutAgent(goal[k], "offline"))
  /\ UNCHANGED <<online, goal, asked, box>>

Ask(k) ==
  /\ stage[k] = "open" /\ asked[k] = {}
  /\ asked' = [asked EXCEPT ![k] = {goal[k]}]
  /\ UNCHANGED <<online, goal, box, stage>>

(* An answer may be late, but there is one at most.                         *)
Arrive(k) ==
  /\ asked[k] # {} /\ box[k] = None /\ stage[k] # "answered"
  /\ box' = [box EXCEPT ![k] = k]
  /\ UNCHANGED <<online, goal, asked, stage>>

Answer(k) ==
  /\ stage[k] = "open" /\ box[k] = k
  /\ box' = [box EXCEPT ![k] = None] /\ Move(k, "answered")
  /\ UNCHANGED <<online, goal, asked>>

GiveUp(k) ==
  /\ stage[k] = "open" /\ asked[k] # {} /\ Move(k, "late")
  /\ UNCHANGED <<online, goal, asked, box>>

CutOff(k) ==
  /\ stage[k] = "open" /\ Move(k, "cut")
  /\ UNCHANGED <<online, goal, asked, box>>

End(k) ==
  /\ \/ stage[k] = "late" /\ Move(k, "timeout")
     \/ stage[k] = "cut" /\ Move(k, WithoutAgent(goal[k], "offline"))
  /\ UNCHANGED <<online, goal, asked, box>>

Next ==
  \/ \E s \in Servers : Come(s) \/ Go(s)
  \/ \E k \in Calls :
       \/ \E s \in Servers : Begin(k, s)
       \/ Miss(k) \/ Ask(k) \/ Arrive(k) \/ Answer(k) \/ GiveUp(k) \/ CutOff(k) \/ End(k)

Spec == Init /\ [][Next]_listing
=============================================================================
