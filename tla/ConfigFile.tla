----------------------------- MODULE ConfigFile -----------------------------
(***************************************************************************)
(* The configuration: what load_config of vortexvpn/core/config.py makes   *)
(* of the files and the environment, and how the commands link and         *)
(* settings of vortexvpn/cli.py rewrite configs/config.toml line by line   *)
(* and restart the server.                                                 *)
(*                                                                         *)
(* A file is a sequence of lines, each of which opens a section or sets a  *)
(* key for tomllib.  The edits do not parse it: a line opens a section if  *)
(* it begins with [ and ends with ], and sets a key if its text begins     *)
(* with the key's name; what they write between quotes is not escaped.  A  *)
(* line therefore says both what tomllib makes of it and what they do.     *)
(* Comments, which every edit keeps, are left out, and so are dotted keys, *)
(* values over several lines and arrays of tables.  Of the keys those are  *)
(* modelled that link and settings treat differently from each other.      *)
(***************************************************************************)
EXTENDS Integers, Sequences, FiniteSets, FiniteSetsExt

CONSTANTS Example,   \* config.toml.example
          Files,     \* what somebody may have written as configs/config.toml
          Elsewhere, \* and as one of the files that load_config looks for before it
          Urls,      \* the URLs a server is linked to
          Paths,     \* the hidden login paths
          Levels,    \* the log levels
          Limits,    \* the values of max_clients
          Quoted     \* Quoted[v]: what tomllib reads of v between quotes, or Broken

Top == ""
None == ""

UrlKey == <<"web", "public_url">>
PathKey == <<"web", "admin_path">>
LimitKey == <<"tunnel", "max_clients">>
LevelKey == <<Top, "log_level">>

\* No program reads this one, but load_config keeps what a file says of it.
StrayKey == <<"security", "log_level">>

Keys == {UrlKey, PathKey, LimitKey, LevelKey, StrayKey}
Values(k) == CASE k = UrlKey -> Urls [] k = PathKey -> Paths
               [] k = LimitKey -> Limits [] k = LevelKey -> Levels [] OTHER -> {}
Default == [k \in Keys |-> CASE k = UrlKey -> "" [] k = PathKey -> "/admin/login"
                             [] k = LimitKey -> "256" [] k = LevelKey -> "INFO" [] OTHER -> None]

EditedNames == {k[2] : k \in Keys}

\* A value that tomllib rejects, like one with a quote in it.
Broken == "broken"

\* header: the line opens the section name; otherwise it gives name the value.  To the edits
\* it opens the section seen, if that is not None, and its text begins with the name starts.
FileLines == [header : BOOLEAN, name : STRING, value : STRING, seen : STRING, starts : STRING]

\* The lines that the edits see as tomllib does: [section] and name = value.
Header(section) ==
    [header |-> TRUE, name |-> section, value |-> None, seen |-> section, starts |-> None]
Setting(name, value) ==
    [header |-> FALSE, name |-> name, value |-> value, seen |-> None,
     starts |-> IF name \in EditedNames THEN name ELSE None]

NoFile == <<Header("none")>>

VARIABLES etc,     \* /etc/vortexvpn/config.toml, or NoFile
          home,    \* ~/.vortexvpn/config.toml, or NoFile
          local,   \* ./configs/config.toml, or NoFile
          running, \* the configuration of the server, or Down
          linked,  \* history: link changed the files last, and no start since was given options
          orderly  \* history: local was Orderly, and the values edits gave it Quotable

configVars == <<etc, home, local, running, linked, orderly>>

Down == [k \in Keys |-> "down"]

-----------------------------------------------------------------------------
(* What a file says *)

Section(f, i) ==
    LET opened == {j \in 1..i : f[j].header}
    IN  IF opened = {} THEN Top ELSE f[Max(opened)].name

KeyAt(f, i) == <<Section(f, i), f[i].name>>
Places(f, k) == {i \in DOMAIN f : ~f[i].header /\ KeyAt(f, i) = k}
Sets(f, k) == Places(f, k) # {}

\* TOML knows no second section and no second key of a name.
Parses(f) ==
    /\ \A i \in DOMAIN f : f[i].value # Broken
    /\ \A i, j \in DOMAIN f :
           f[i].header = f[j].header /\ f[i].name = f[j].name
               /\ (f[i].header \/ Section(f, i) = Section(f, j)) => i = j

Says(f, k) == IF Sets(f, k) THEN f[CHOOSE i \in Places(f, k) : TRUE].value ELSE Default[k]

\* Over the file there is what the environment says.
Load(f, env) == [k \in Keys |-> IF k \in DOMAIN env THEN env[k] ELSE Says(f, k)]

-----------------------------------------------------------------------------
(* What the edits see and write *)

SeenSection(f, i) ==
    LET opened == {j \in 1..i : f[j].seen # None}
    IN  IF opened = {} THEN Top ELSE f[Max(opened)].seen

Found(f, i) == <<SeenSection(f, i), f[i].starts>>
Matches(f, k) == {i \in DOMAIN f : Found(f, i) = k}

Written(k, v) == Setting(k[2], Quoted[v])
Quotable(v) == Quoted[v] = v

\* Files in which the edits see what tomllib does.
Legible(f) ==
    \A i \in DOMAIN f :
        /\ f[i] = IF f[i].header THEN Header(f[i].name) ELSE Setting(f[i].name, f[i].value)
        /\ f[i].header => f[i].name # Top
Orderly(f) == Legible(f) /\ Parses(f)

ASSUME ConfigAssumption ==
    /\ NoFile \notin Files \cup Elsewhere \cup {Example}
    /\ Example \in Seq(FileLines) /\ Orderly(Example)
    /\ \A f \in Files : f \in Seq(FileLines)
    /\ EditedNames \cup {None, "none"} \subseteq STRING /\ None \notin EditedNames
    /\ \A v \in Urls \cup Paths \cup Levels \cup Limits : v \in STRING \ {Broken} /\ Quoted[v] \in STRING

-----------------------------------------------------------------------------
(* link *)

\* The environment that link and quick-start.sh's options make.
Env(url, path) == [k \in {UrlKey} \cup (IF path = None THEN {} ELSE {PathKey}) |->
                      IF k = UrlKey THEN url ELSE path]

\* Every line is replaced in which a key is found.
Replaced(f, new) ==
    [i \in DOMAIN f |-> IF Found(f, i) \in DOMAIN new
                        THEN Written(Found(f, i), new[Found(f, i)]) ELSE f[i]]

Missing(f, new) == {k \in DOMAIN new : Matches(f, k) = {}}

Line(k, keys, new) == IF k \in keys THEN <<Written(k, new[k])>> ELSE <<>>
Lines(keys, new) == Line(UrlKey, keys, new) \o Line(PathKey, keys, new)

\* Where the section [web] is seen to end.
AfterWeb(f) == {i \in DOMAIN f : f[i].seen \notin {None, "web"}
                                 /\ \E j \in 1..(i - 1) : f[j].seen = "web"}

InjectAllKeys(f, new) ==
    IF Missing(f, new) = {} \/ AfterWeb(f) = {} THEN Replaced(f, new)
    ELSE LET end == Min(AfterWeb(f))
         IN  SubSeq(Replaced(f, new), 1, end - 1) \o Lines(DOMAIN new, new)
                 \o SubSeq(Replaced(f, new), end, Len(f))

InjectTooLate(f, new) ==
    IF Missing(f, new) = {} \/ AfterWeb(f) = {} THEN Replaced(f, new)
    ELSE LET end == Min(AfterWeb(f))
         IN  SubSeq(Replaced(f, new), 1, end) \o Lines(Missing(f, new), new)
                 \o SubSeq(Replaced(f, new), end + 1, Len(f))

\* Keys that are found are replaced in place, missing ones injected where [web] is seen to
\* end, if it is.
Linked(f, new) ==
    IF Missing(f, new) = {} \/ AfterWeb(f) = {} THEN Replaced(f, new)
    ELSE LET end == Min(AfterWeb(f))
         IN  SubSeq(Replaced(f, new), 1, end - 1) \o Lines(Missing(f, new), new)
                 \o SubSeq(Replaced(f, new), end, Len(f))

-----------------------------------------------------------------------------
(* settings *)

SavedAnySection(f, changes) ==
    [i \in DOMAIN f |->
        IF \E k \in DOMAIN changes : k[2] = f[i].starts
        THEN LET k == CHOOSE k \in DOMAIN changes : k[2] = f[i].starts
             IN  Written(k, changes[k])
        ELSE f[i]]

\* The first line in which a key is found is replaced.  A key that is not found is passed over.
Saved(f, changes) ==
    LET firsts == {Min(Matches(f, k)) : k \in {k \in DOMAIN changes : Matches(f, k) # {}}}
    IN  [i \in DOMAIN f |-> IF i \in firsts THEN Written(Found(f, i), changes[Found(f, i)])
                            ELSE f[i]]

-----------------------------------------------------------------------------
(* The state machine *)

ConfigInit ==
    /\ etc = NoFile
    /\ home = NoFile
    /\ local \in Files \cup {NoFile}
    /\ running = Down
    /\ linked = FALSE
    /\ orderly = Orderly(local)

Present(f) == IF f = NoFile THEN Example ELSE f

\* load_config reads the first file there is; the server does not start on one that tomllib
\* rejects.
Launched(env) ==
    LET f == IF etc # NoFile THEN etc ELSE IF home # NoFile THEN home ELSE local'
    IN  IF Parses(f) THEN Load(f, env) ELSE Down

AllQuotable(new) == \A k \in DOMAIN new : Quotable(new[k])

Link(url, path) ==
    /\ local' = Linked(Present(local), Env(url, path))
    /\ running' = Launched(Env(url, path))
    /\ linked' = TRUE
    /\ orderly' = (orderly /\ AllQuotable(Env(url, path)))
    /\ UNCHANGED <<etc, home>>

\* settings parses the file first.  What was typed is a change if the file says otherwise.
Settings(changes, restart) ==
    /\ Parses(Present(local))
    /\ \A k \in DOMAIN changes : changes[k] # Says(Present(local), k)
    /\ local' = Saved(Present(local), changes)
    /\ running' = IF restart THEN Launched(<<>>) ELSE running
    /\ linked' = FALSE
    /\ orderly' = (orderly /\ AllQuotable(changes))
    /\ UNCHANGED <<etc, home>>

\* quick-start.sh, with options or without, which brings the example if there is no file.
Restart(env) ==
    /\ local' = Present(local)
    /\ running' = Launched(env)
    /\ linked' = (linked /\ env = <<>>)
    /\ UNCHANGED <<etc, home, orderly>>

\* write_text empties the file and fills it: link or settings is interrupted in between.
Torn ==
    /\ local' = <<>>
    /\ linked' = FALSE
    /\ orderly' = TRUE
    /\ UNCHANGED <<etc, home, running>>

\* install.sh
Install ==
    /\ etc = NoFile
    /\ etc' = Example
    /\ UNCHANGED <<home, local, running, linked, orderly>>

\* settings --edit, or any editor.
UserEdits ==
    /\ local' \in Files
    /\ linked' = FALSE
    /\ orderly' = Orderly(local')
    /\ UNCHANGED <<etc, home, running>>

\* No program writes the file in the home directory, and nothing takes the other two away.
UserWrites ==
    /\ \/ home' \in Elsewhere /\ UNCHANGED etc
       \/ etc' \in Elsewhere /\ UNCHANGED home
    /\ UNCHANGED <<local, running, linked, orderly>>

Stop ==
    /\ running' = Down
    /\ UNCHANGED <<etc, home, local, linked, orderly>>

Environments == {<<>>} \cup {Env(url, path) : url \in Urls, path \in Paths \cup {None}}
Changes == {c \in UNION {[ks -> UNION {Values(k) : k \in Keys}] : ks \in SUBSET Keys \ {{}}} :
                \A k \in DOMAIN c : c[k] \in Values(k)}

ConfigNext ==
    \/ \E url \in Urls, path \in Paths \cup {None} : Link(url, path)
    \/ \E changes \in Changes, restart \in BOOLEAN : Settings(changes, restart)
    \/ \E env \in Environments : Restart(env)
    \/ Torn \/ Install \/ UserEdits \/ UserWrites \/ Stop

ConfigSpec == ConfigInit /\ [][ConfigNext]_configVars

-----------------------------------------------------------------------------
(* Properties *)

\* Of a file that tomllib and the edits read alike, no sequence of edits and interruptions
\* makes one that tomllib rejects, which would keep the server from starting: as long as the
\* values they are given need no escape.
Readable == orderly => Parses(local)

\* On such a file link and settings change what they were asked to and nothing else, whatever
\* keys of the same name other sections have.
Changed(f, g, new) ==
    \A k \in Keys : Says(g, k) # Says(f, k) => k \in DOMAIN new /\ Says(g, k) = new[k]
OnlyWhatWasAsked ==
    LET f == Present(local)
    IN  orderly =>
            /\ \A new \in Environments : AllQuotable(new) => Changed(f, Linked(f, new), new)
            /\ \A changes \in Changes :
                   AllQuotable(changes) => Changed(f, Saved(f, changes), changes)

\* What link set in such a file stays set when the server is started again without options:
\* as long as load_config reads that file, and a section follows [web] in it.
LinkLasts ==
    linked /\ orderly /\ etc = NoFile /\ home = NoFile /\ AfterWeb(local) # {} =>
        running \in {Down, Load(local, <<>>)}
=============================================================================
