------------------------------ MODULE MCParts ------------------------------
(***************************************************************************)
(* Instances for TLC of the pages of the frontend, and of the two managers *)
(* behind the settings pages.  The pages share the requests of one browser *)
(* tab, the managers nothing, so that a behaviour looks at one part (focus) *)
(* while the others rest.                                                  *)
(***************************************************************************)
EXTENDS DirPicker, Assistant, TorrentList, TorrentDialogs, TorrentRows, TorrentColumns,
        RssFeeds, RssRules, SettingsForms, AiSettings, TelegramBot, McpManager

CONSTANT Foci  \* the parts looked at

VARIABLE focus

(* What is left of MaxClicks for a part; "ai" loads its form at click 0.    *)
ClicksOn == [p \in Foci |-> CASE p \in {"settings", "torrents"} -> 4
                              [] p = "ai" -> 5
                              [] p = "dialogs" -> 4
                              [] OTHER -> 3]

TheWhitelist == {[root |-> "/", segs |-> <<"a">>]}

TheLibrary ==
  [s \in Feeders |-> {Node(<<"f">>, TRUE, FALSE)} \cup (IF s = "a" THEN {Node(<<"f", "x">>, FALSE, TRUE)} ELSE {})]

TheNumbered == <<"new", "new 2">>

TheUnreported == [m \in Machines |-> IF m = "m2" THEN {"queue"} ELSE {}]

Standing == CHOOSE c \in McpConfs : TRUE

TheServers == {McpServer("id-a", "a", "key-a"), McpServer("id-b", "b", "key-b")}

vars == <<focus, clicks, reqs, dirVars, chatVars, torVars, dlgVars, rowVars, colVars, feedVars, ruleVars,
          formVars, aiVars, botVars, mcpVars>>

Init ==
  /\ focus \in Foci /\ PageInit /\ clicks = MaxClicks - ClicksOn[focus]
  /\ DirInit  /\ (focus = "dir" \/ field = None)
  /\ ChatInit /\ (focus = "chat" \/ configured)
  /\ TorInit  /\ active = "q"
  /\ DlgInit  /\ (focus = "dialogs" \/ tab = "q")
  /\ ColInit  /\ (focus = "columns" \/ (offered /\ order = DefaultOrder))
  /\ FeedInit /\ feedTab \in {"a"} \cup (IF focus = "feeds" THEN Guests ELSE {})
  /\ RuleInit /\ ruleTab = "a" /\ DOMAIN rules["b"] = {OtherRule} /\ DOMAIN rules["a"] # {OtherRule}
  /\ FormInit /\ (focus = "settings" \/ (page = "qbt" /\ machine = "m1"))
  /\ BotInit  /\ (focus = "bot" \/ saved = Disabled)
  /\ McpInit  /\ (focus = "mcp" \/ mcpConf = Standing)
  /\ RowInit  /\ AiInit

DirRests  == UNCHANGED dirVars
ChatRests == UNCHANGED chatVars
ListRests == UNCHANGED torVars
DlgRests  == UNCHANGED dlgVars
RowRests  == UNCHANGED rowVars
ColRests  == UNCHANGED colVars
FeedRests == UNCHANGED feedVars
RuleRests == UNCHANGED ruleVars
FormRests == UNCHANGED formVars
AiRests   == UNCHANGED aiVars
BotRests  == UNCHANGED botVars
McpRests  == UNCHANGED mcpVars

TorrentsRest == ListRests /\ DlgRests /\ RowRests /\ ColRests
SettingsRest == FormRests /\ AiRests
RssRests     == FeedRests /\ RuleRests
OthersRest   == DirRests /\ ChatRests
PagesRest    == UNCHANGED <<clicks, reqs>> /\ TorrentsRest /\ SettingsRest /\ RssRests /\ OthersRest
BackendRests == BotRests /\ McpRests

PagesNext ==
  \/ focus = "dir" /\ DirNext /\ ChatRests /\ TorrentsRest /\ SettingsRest /\ RssRests
  \/ focus = "chat" /\ ChatNext /\ DirRests /\ TorrentsRest /\ SettingsRest /\ RssRests
  \/ focus = "torrents" /\ TorNext /\ DlgRests /\ RowRests /\ ColRests /\ SettingsRest /\ RssRests /\ OthersRest
  \/ focus = "dialogs" /\ DlgNext /\ ListRests /\ RowRests /\ ColRests /\ SettingsRest /\ RssRests /\ OthersRest
  \/ focus = "rows" /\ RowNext /\ ListRests /\ DlgRests /\ ColRests /\ SettingsRest /\ RssRests /\ OthersRest
       /\ UNCHANGED <<clicks, reqs>>
  \/ focus = "columns" /\ ColNext /\ ListRests /\ DlgRests /\ RowRests /\ SettingsRest /\ RssRests /\ OthersRest
       /\ UNCHANGED <<clicks, reqs>>
  \/ focus = "feeds" /\ FeedNext /\ RuleRests /\ TorrentsRest /\ SettingsRest /\ OthersRest
  \/ focus = "rules" /\ RuleNext /\ FeedRests /\ TorrentsRest /\ SettingsRest /\ OthersRest
  \/ focus = "settings" /\ FormNext /\ AiRests /\ TorrentsRest /\ RssRests /\ OthersRest
  \/ focus = "ai" /\ AiNext /\ FormRests /\ TorrentsRest /\ RssRests /\ OthersRest

Next ==
  /\ UNCHANGED focus
  /\ \/ PagesNext /\ BackendRests
     \/ focus = "bot" /\ BotNext /\ McpRests /\ PagesRest
     \/ focus = "mcp" /\ McpNext /\ BotRests /\ PagesRest

Spec == Init /\ [][Next]_vars
=============================================================================
