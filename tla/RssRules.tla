------------------------------ MODULE RssRules ------------------------------
(***************************************************************************)
(* The rules that download what a feed offers: the dialog                  *)
(* (frontend/src/pages/rss/RssRulesModal.tsx) and the calls it makes       *)
(* (rssApi in frontend/src/services/api/client.ts), on one server after     *)
(* another.  The settings of a rule are one value, told apart by who made   *)
(* them: the user, somebody else, or nobody yet.                           *)
(***************************************************************************)
EXTENDS Page, SequencesExt

CONSTANTS
  RuleServers,  \* the qBittorrent servers
  Fifth,        \* those of version 5: a rule has its settings in torrentParams too
  Numbered,     \* the names createRule tries, in their order (a bound)
  OtherRule     \* the name of another rule

ASSUME RuleAssumption ==
  /\ Fifth \subseteq RuleServers
  /\ Numbered \in Seq(ToSet(Numbered)) /\ Numbered # <<>>
  /\ OtherRule \notin ToSet(Numbered)

VARIABLES
  rules,      \* remote: server -> the settings of its rules, by name
  ruleTab,    \* serverId
  rulesOpen,  \* the dialog is open
  list,       \* the rules it holds: records [name, val, kept], kept the torrentParams
  rule,       \* selected, at most one
  form,       \* [name, val, touched]
  discard,    \* the rule to go to once the user confirms, at most one
  saving

ruleVars == <<rules, ruleTab, rulesOpen, list, rule, form, discard, saving>>

RuleNames == ToSet(Numbered) \cup {OtherRule}

Blank  == "blank"
Mine   == "mine"
Theirs == "theirs"

Rule(name, val, kept) == [name |-> name, val |-> val, kept |-> kept]
Formed(r)             == [name |-> r.name, val |-> r.val, touched |-> FALSE]

RuleInit ==
  /\ rules \in [RuleServers -> {[n \in D |-> Theirs] : D \in {{OtherRule}, {OtherRule, Head(Numbered)}}}]
  /\ ruleTab \in RuleServers
  /\ rulesOpen = FALSE /\ list = {} /\ rule = {} /\ discard = {} /\ saving = FALSE
  /\ form = Formed(Rule(OtherRule, Blank, {}))

-----------------------------------------------------------------------------
(* The calls of rssApi, as a server carries them out.                       *)

(* parseRssRule of what getRules returns *)
ParseRssRule(s, name) ==
  Rule(name, rules[s][name], IF s \in Fifth THEN {rules[s][name]} ELSE {})

GetRules(s) == {ParseRssRule(s, n) : n \in DOMAIN rules[s]}

(* Mutant: the copy goes back as it came.                                   *)
PayloadStale(r) == r

(* setRule: the copy in torrentParams follows what was edited *)
Payload(r) == [r EXCEPT !.kept = IF r.kept = {} THEN {} ELSE {r.val}]

(* a server obeys torrentParams where it is given them *)
Obeyed(payload) == IF payload.kept = {} THEN payload.val ELSE CHOOSE v \in payload.kept : TRUE

Put(s, name, val) == [rules EXCEPT ![s] = [n \in DOMAIN @ \cup {name} |-> IF n = name THEN val ELSE @[n]]]
Without(s, name)  == [rules EXCEPT ![s] = [n \in DOMAIN @ \ {name} |-> @[n]]]

(* what the rules become: nothing where the server refuses *)
RuleOutcomes(r) ==
  LET s == r.arg.server
      has == DOMAIN rules[s]
  IN CASE r.op = "setRule" -> {Put(s, r.arg.name, Obeyed(Payload(r.arg.rule)))}
       [] r.op = "renameRule" ->
            IF r.arg.name \in has /\ r.arg.dest \notin has
            THEN {[rules EXCEPT ![s] = [n \in (has \ {r.arg.name}) \cup {r.arg.dest} |->
                                        IF n = r.arg.dest THEN @[r.arg.name] ELSE @[n]]]}
            ELSE {}
       [] r.op = "removeRule" -> IF r.arg.name \in has THEN {Without(s, r.arg.name)} ELSE {}
       [] OTHER -> {rules}

RuleOps == {"rules", "setRule", "renameRule", "removeRule"}

(* carried out, refused, or carried out with the answer lost *)
RuleServer(r) ==
  /\ r \in Open(r.op)
  /\ \/ \E now \in RuleOutcomes(r) :
          /\ rules' = now
          /\ \/ Handled(r, [ok |-> TRUE, list |-> GetRules(r.arg.server)])
             \/ Handled(r, [ok |-> FALSE, list |-> {}])
     \/ Handled(r, [ok |-> FALSE, list |-> {}]) /\ UNCHANGED rules
  /\ UNCHANGED <<clicks, ruleTab, rulesOpen, list, rule, form, discard, saving>>

-----------------------------------------------------------------------------
(* The dialog.                                                              *)

(* a tab of the page below: the dialog has a mask *)
RuleTab(s) ==
  /\ ~rulesOpen /\ s # ruleTab /\ Press
  /\ ruleTab' = s
  /\ UNCHANGED <<reqs, rules, rulesOpen, list, rule, form, discard, saving>>

(* awaited: the handler's finally comes after it *)
AsksRules(n, s, wanted, awaited) ==
  Request(n, "rules", [server |-> s, wanted |-> wanted, awaited |-> awaited])

OpenRules ==
  /\ ~rulesOpen /\ Press
  /\ rulesOpen' = TRUE
  /\ reqs' = reqs \cup {AsksRules(clicks', ruleTab, {}, FALSE)}
  /\ UNCHANGED <<rules, ruleTab, list, rule, form, discard, saving>>

CloseRules ==
  /\ rulesOpen /\ discard = {}
  /\ rulesOpen' = FALSE /\ list' = {} /\ rule' = {}
  /\ UNCHANGED <<clicks, reqs, rules, ruleTab, form, discard, saving>>

(* setSelected and the effect that fills the form *)
Selects(r) == rule' = {r} /\ form' = Formed(r)

SelectRule(r) ==
  /\ rulesOpen /\ discard = {} /\ r \in list /\ \A q \in rule : q.name # r.name
  /\ IF form.touched THEN discard' = {r} /\ UNCHANGED <<rule, form>>
                     ELSE Selects(r) /\ UNCHANGED discard
  /\ UNCHANGED <<clicks, reqs, rules, ruleTab, rulesOpen, list, saving>>

(* the confirmation, with yes or no *)
Confirmed ==
  /\ discard # {} /\ discard' = {}
  /\ (\E r \in discard : Selects(r)) \/ UNCHANGED <<rule, form>>
  /\ UNCHANGED <<clicks, reqs, rules, ruleTab, rulesOpen, list, saving>>

Edit(name) ==
  /\ rulesOpen /\ discard = {} /\ rule # {}
  /\ form' = [name |-> name, val |-> Mine, touched |-> TRUE]
  /\ UNCHANGED <<clicks, reqs, rules, ruleTab, rulesOpen, list, rule, discard, saving>>

(* the first of a sequence that is one of the names *)
FirstOf(seq, names) ==
  seq[CHOOSE i \in DOMAIN seq : seq[i] \in names /\ \A j \in DOMAIN seq : seq[j] \in names => i <= j]

Taken(rs) == {r.name : r \in rs}

FirstFree == FirstOf(Numbered, RuleNames \ Taken(list))

(* the names taken are those of the list, also while it is being read *)
CreateRule ==
  /\ rulesOpen /\ discard = {} /\ ToSet(Numbered) \ Taken(list) # {} /\ Press
  /\ saving' = TRUE
  /\ Asked("setRule", [server |-> ruleTab, name |-> FirstFree, rule |-> Rule(FirstFree, Blank, {}),
                       from |-> "create"])
  /\ UNCHANGED <<rules, ruleTab, rulesOpen, list, rule, form, discard>>

(* what Save sends: the rule selected, with what the form holds *)
Edited(r) == Rule(form.name, form.val, r.kept)

HandleSave(r) ==
  /\ rulesOpen /\ discard = {} /\ ~saving /\ r \in rule /\ Press
  /\ saving' = TRUE
  /\ IF form.name # r.name
     THEN Asked("renameRule", [server |-> ruleTab, name |-> r.name, dest |-> form.name, rule |-> Edited(r)])
     ELSE Asked("setRule", [server |-> ruleTab, name |-> form.name, rule |-> Edited(r), from |-> "save"])
  /\ UNCHANGED <<rules, ruleTab, rulesOpen, list, rule, form, discard>>

(* confirmDelete, confirmed *)
DeleteRule(r) ==
  /\ rulesOpen /\ discard = {} /\ r \in list /\ Press
  /\ Asked("removeRule", [server |-> ruleTab, name |-> r.name])
  /\ UNCHANGED ruleVars

-----------------------------------------------------------------------------
(* The handlers go on, with the server they began with.                     *)

(* list[0]: the first by name *)
TopOf(got) == CHOOSE q \in got : q.name = FirstOf(<<OtherRule>> \o Numbered, Taken(got))

(* reload: whether or not the dialog is open, and for which server *)
RulesDone(r, ok, got) ==
  /\ IF ok
     THEN /\ list' = got
          /\ LET target == {q \in got : q.name \in r.arg.wanted}
             IN IF got = {} THEN rule' = {} /\ UNCHANGED form
                ELSE Selects(TopOf(IF target # {} THEN target ELSE got))
     ELSE UNCHANGED <<list, rule, form>>
  /\ saving' = (saving /\ ~r.arg.awaited)
  /\ Ended(r)
  /\ UNCHANGED <<rules, ruleTab, rulesOpen, discard>>

(* the list is read again after a success; after a failure only if a name    *)
(* was to change, and nobody waits for it                                   *)
RenameDone(r, ok) ==
  /\ IF ok THEN Then(r, "setRule", [server |-> r.arg.server, name |-> r.arg.dest, rule |-> r.arg.rule,
                                    from |-> "rename"])
           ELSE reqs' = (reqs \ {r}) \cup {AsksRules(r.n, r.arg.server, {r.arg.dest}, FALSE)}
  /\ saving' = (saving /\ ok)
  /\ UNCHANGED <<rules, ruleTab, rulesOpen, list, rule, form, discard>>

SetDone(r, ok) ==
  /\ reqs' = (reqs \ {r}) \cup (IF ok \/ r.arg.from = "rename"
                                THEN {AsksRules(r.n, r.arg.server, {r.arg.name}, ok)} ELSE {})
  /\ saving' = (saving /\ ok)
  /\ UNCHANGED <<rules, ruleTab, rulesOpen, list, rule, form, discard>>

RemoveDone(r, ok) ==
  /\ reqs' = (reqs \ {r}) \cup (IF ok THEN {AsksRules(r.n, r.arg.server, {}, FALSE)} ELSE {})
  /\ UNCHANGED ruleVars

RuleAnswer ==
  \/ \E r \in reqs : r.op \in RuleOps /\ RuleServer(r)
  \/ /\ UNCHANGED clicks
     /\ \/ \E r \in Ready("rules") : \E a \in r.got : RulesDone(r, a.ok, a.list)
        \/ \E r \in Ready("renameRule") : \E a \in r.got : RenameDone(r, a.ok)
        \/ \E r \in Ready("setRule") : \E a \in r.got : SetDone(r, a.ok)
        \/ \E r \in Ready("removeRule") : \E a \in r.got : RemoveDone(r, a.ok)

RuleNext ==
  \/ \E s \in RuleServers : RuleTab(s)
  \/ OpenRules \/ CloseRules \/ Confirmed \/ CreateRule
  \/ \E r \in list : SelectRule(r) \/ DeleteRule(r)
  \/ \E name \in RuleNames : Edit(name)
  \/ \E r \in rule : HandleSave(r)
  \/ RuleAnswer

RuleSpec == PageInit /\ RuleInit /\ [][RuleNext]_<<clicks, reqs, ruleVars>>

-----------------------------------------------------------------------------
(* A rule written with success is obeyed with the settings the form showed,  *)
(* also by a server of version 5 (client.ts:915-941): whatever was read or   *)
(* written since the form was filled.                                       *)
SaveLands ==
  [][\A r \in Open("setRule") :
       (\E q \in Waiting("setRule")' : q.n = r.n /\ \E a \in q.got : a.ok)
         => rules'[r.arg.server][r.arg.name] = r.arg.rule.val]_<<clicks, reqs, ruleVars>>
=============================================================================
