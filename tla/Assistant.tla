------------------------------ MODULE Assistant ------------------------------
(***************************************************************************)
(* The assistant's chat (frontend/src/assistant) and the stream of events  *)
(* it reads (frontend/src/services/api/ai.ts).  The stream is a sequence   *)
(* of frames, each ended by an empty line, cut into chunks anywhere.       *)
(***************************************************************************)
EXTENDS Page, Filter

Seqs == INSTANCE SequencesExt

CONSTANTS MaxHistory, MaxEvents  \* MAX_HISTORY; events of an answer (a bound)

Events == {"delta", "start", "end", "error", "done"}

VARIABLES
  configured,  \* assistant/store.ts
  msgs,        \* the bubbles
  abortRef,    \* the stream under way: the number of its reply (at most one)
  aborted,     \* abort() was called on it
  chat,        \* the backend's side: idle, asked, answering, ended or broken
  asked,       \* the history it was asked with
  wire, buf,   \* what is under way, what streamChat has read but not parsed
  said, heard  \* the events the backend wrote and those that were called back

chatVars == <<configured, msgs, abortRef, aborted, chat, asked, wire, buf, said, heard>>

Message(n, role, content) == [id |-> n, role |-> role, content |-> content, steps |-> {}, error |-> FALSE]

ChatInit ==
  /\ configured \in BOOLEAN /\ msgs = <<>> /\ abortRef = {} /\ aborted = FALSE
  /\ chat = "idle" /\ asked = <<>> /\ wire = <<>> /\ buf = <<>> /\ said = <<>> /\ heard = <<>>

-----------------------------------------------------------------------------
(* Parsing: an empty line ends a frame.                                     *)

Cut(b) ==
  LET ends == {i \in 1 .. Len(b) - 1 : b[i] = "nl" /\ b[i + 1] = "nl"}
  IN  IF ends = {} THEN 0 ELSE 1 + CHOOSE i \in ends : \A j \in ends : j <= i

Frames(b) == Sifted(SubSeq(b, 1, Cut(b)), Events)

(* Mutant: a frame that a chunk cut in two is forgotten.                    *)
RemainderNone(b) == <<>>

Remainder(b) == SubSeq(b, Cut(b) + 1, Len(b))

-----------------------------------------------------------------------------
(* AssistantFab asks when the layout mounts; the settings page asks again   *)
(* after a save.                                                            *)
RefreshStatus == Press /\ Asked("status", NoArg) /\ UNCHANGED chatVars

StatusDone(r) ==
  /\ configured' \in BOOLEAN
  /\ Ended(r) /\ UNCHANGED clicks
  /\ UNCHANGED <<msgs, abortRef, aborted, chat, asked, wire, buf, said, heard>>

Recent(s, n) == IF Len(s) <= n THEN s ELSE SubSeq(s, Len(s) - n + 1, Len(s))

(* the roles of the messages that are sent: those with text, the last ones *)
History(bubbles) ==
  LET spoken == SelectSeq(bubbles, LAMBDA m : m.content)
  IN  Recent([i \in DOMAIN spoken |-> spoken[i].role], MaxHistory)

(* handleSend, handleSendSample, and send up to the fetch *)
Send ==
  /\ configured /\ abortRef = {} /\ Press
  /\ LET history == Append(msgs, Message(clicks', "user", TRUE))
     IN  /\ msgs' = Append(history, Message(clicks', "assistant", FALSE))
         /\ asked' = History(history)
  /\ abortRef' = {clicks'} /\ aborted' = FALSE
  /\ chat' = "asked" /\ wire' = <<>> /\ buf' = <<>> /\ said' = <<>> /\ heard' = <<>>
  /\ UNCHANGED <<reqs, configured>>

Abort ==
  /\ abortRef # {} /\ ~aborted /\ Press
  /\ aborted' = TRUE
  /\ UNCHANGED <<reqs, configured, msgs, abortRef, chat, asked, wire, buf, said, heard>>

Clear ==
  /\ msgs # <<>> /\ Press
  /\ msgs' = <<>> /\ aborted' = (abortRef # {})
  /\ UNCHANGED <<reqs, configured, abortRef, chat, asked, wire, buf, said, heard>>

-----------------------------------------------------------------------------
(* The backend (api/ai.go): an error status, or events until it is done or  *)
(* the connection breaks.                                                   *)

Speak ==
  /\ \/ chat = "asked" /\ chat' \in {"answering", "broken"} /\ UNCHANGED <<wire, said>>
     \/ /\ chat = "answering" /\ Len(said) < MaxEvents
        /\ \E e \in Events :
             /\ e = "end" => \E i \in DOMAIN said : said[i] = "start"
             /\ wire' = wire \o <<e, "nl", "nl">> /\ said' = Append(said, e)
             /\ chat' = IF e \in {"done", "error"} THEN "ended" ELSE chat
     \/ chat = "answering" /\ chat' \in {"ended", "broken"} /\ UNCHANGED <<wire, said>>
  /\ UNCHANGED <<clicks, reqs, configured, msgs, abortRef, aborted, asked, buf, heard>>

(* the callback of streamChat, folded into a bubble *)
Fold(m, e) ==
  CASE e = "delta" -> [m EXCEPT !.content = TRUE]
    [] e = "start" -> [m EXCEPT !.steps = @ \cup {"running"}]
    [] e = "end"   -> [m EXCEPT !.steps = (@ \ {"running"}) \cup {"over"}]
    [] e = "error" -> [m EXCEPT !.error = TRUE]
    [] e = "done"  -> m

(* updateReply: by the reply's id, which clear() may have removed *)
IsReply(m) == m.role = "assistant" /\ m.id \in abortRef

(* setMessages by a function of the bubbles there are *)
Updated(Op(_)) == [i \in DOMAIN msgs |-> IF IsReply(msgs[i]) THEN Op(msgs[i]) ELSE msgs[i]]

(* one turn of streamChat's loop: a chunk of any length *)
Read ==
  /\ abortRef # {} /\ ~aborted /\ chat \in {"answering", "ended", "broken"}
  /\ \E k \in 1 .. Len(wire) :
       LET b == buf \o SubSeq(wire, 1, k)
       IN  /\ wire' = SubSeq(wire, k + 1, Len(wire))
           /\ buf' = Remainder(b)
           /\ heard' = heard \o Frames(b)
           /\ msgs' = Updated(LAMBDA m : Seqs!FoldLeft(Fold, m, Frames(b)))
  /\ UNCHANGED <<clicks, reqs, configured, abortRef, aborted, chat, asked, said>>

(* the finally of send: an empty reply is taken away *)
Settled(bubbles) ==
  SelectSeq(bubbles, LAMBDA m : m.id \notin abortRef \/ m.content \/ m.error \/ m.steps # {})

(* the stream is over: at its end, by an error, or aborted *)
SendDone ==
  /\ abortRef # {}
  /\ \/ aborted /\ msgs' = Settled(msgs)
     \/ ~aborted /\ chat = "ended" /\ wire = <<>> /\ msgs' = Settled(msgs)
     \/ ~aborted /\ chat = "broken" /\ msgs' = Settled(Updated(LAMBDA m : [m EXCEPT !.error = TRUE]))
  /\ abortRef' = {} /\ aborted' = FALSE /\ chat' = "idle"
  /\ wire' = <<>> /\ buf' = <<>> /\ said' = <<>> /\ heard' = <<>>
  /\ UNCHANGED <<clicks, reqs, configured, asked>>

ChatNext ==
  \/ RefreshStatus \/ Send \/ Abort \/ Clear
  \/ \E r \in Waiting("status") : StatusDone(r)
  \/ Speak \/ Read \/ SendDone

ChatSpec == PageInit /\ ChatInit /\ [][ChatNext]_<<clicks, reqs, chatVars>>

-----------------------------------------------------------------------------

(* The events called back are the events written, in order and whole,       *)
(* however the connection cuts the stream; nothing is left over at its end. *)
FramesWhole ==
  /\ abortRef # {} => heard \o Frames(buf \o wire) = said
  /\ abortRef # {} /\ wire = <<>> => buf = <<>>
=============================================================================
