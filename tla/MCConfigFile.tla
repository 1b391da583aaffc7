---------------------------- MODULE MCConfigFile ----------------------------
(* A small instance of ConfigFile: the example of the repository, and files as *)
(* somebody may have written them.                                             *)
EXTENDS ConfigFile

MCUrls == {"https://a", "https://b'"}
MCPaths == {"/x7k2m"}
MCLevels == {"DEBUG"}
MCLimits == {"8"}

\* The quote of one URL stands for ", which TOML takes for the end of the value.
MCQuoted == [v \in MCUrls \cup MCPaths \cup MCLevels \cup MCLimits |->
                IF v = "https://b'" THEN Broken ELSE v]

Tunnel == <<Header("tunnel"), Setting("max_clients", "256")>>
Panel == <<Header("web"), Setting("public_url", ""), Setting("admin_path", "/admin/login")>>
OldPanel == <<Header("web"), Setting("port", "8080")>>
Security == <<Header("security")>>
Level == <<Setting("log_level", "INFO")>>

\* Its last lines, meant for the top level, belong to [security].
TheExample == Tunnel \o Panel \o Security \o Level

OrderlyFiles == {TheExample,
                 Level \o Tunnel \o Panel,          \* log_level where TOML wants it, [web] last
                 OldPanel \o Tunnel,                \* from before the keys of link
                 Level \o Security \o OldPanel}     \* ... and with [web] last

\* [section] # a comment, which the edits pass over, and [ section ], which they take for
\* another one.
Commented(section) == [Header(section) EXCEPT !.seen = None]
Spaced(section) == [Header(section) EXCEPT !.seen = "other"]

\* A name like name_old, which begins with another one, and "name", which does not.
Longer(name, value) == [Setting(name, value) EXCEPT !.name = "longer"]
InQuotes(name, value) == [Setting(name, value) EXCEPT !.starts = None]

OtherFiles == {Panel \o <<Longer("public_url", "https://old")>> \o Tunnel,
               <<Header("tunnel"), Longer("max_clients", "4"), Setting("max_clients", "256")>>
                   \o OldPanel,
               OldPanel \o <<Commented("monitor")>> \o Security,
               <<Spaced("web"), Setting("public_url", "")>> \o Tunnel,
               OldPanel \o <<InQuotes("public_url", "")>> \o Tunnel,
               Panel \o Tunnel \o Panel}             \* no TOML

TheFiles == OrderlyFiles \cup OtherFiles
OneFile == {Level \o Tunnel}
=============================================================================
