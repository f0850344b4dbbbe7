------------------------------ MODULE Settings ------------------------------
(* JsonioSettings: the settings in memory and in their file, the directories *)
(* and the schemas that are read from them, the loggers (io_settings.h,      *)
(* io_settings.cpp), the schemas in memory (schema.h, schema_thrift.cpp),    *)
(* and the lists of vertex and edge types that DataBase takes from them      *)
(* (dbconnect.cpp). One action is one call; a call may throw half-way.       *)
EXTENDS TextFile, Integers, FiniteSets, Functions, SequencesExt, TLC

CONSTANTS Modules,      \* names of loggers
          BaseModules,  \* those the library makes by itself, in order; spdlog has the
                        \* first as soon as the library is loaded
          Levels,       \* levels of loggers
          Dirs,         \* values given as directories
          SchemaFiles,  \* directory -> sets of the files in it
          Content,      \* file -> its structures, "broken" where reading throws
          TypeOf,       \* structure -> "vertex", "edge" or "none"
          MaxSets,      \* bound on the calls of a run
          Slips         \* what a program does that leaves something behind: "home",
                        \* "bypass", "registered"

VARIABLES
    up,       \* the program has its settings
    config,   \* the file
    all,      \* all_settings
    dirs,     \* HomeDir, UserDir, SchemDir
    structs,  \* names of the structures in SchemasData
    lists,    \* what DataBase lists: vertexes and edges
    log,      \* level of every logger spdlog has; linked_logger_names; module_loggers
    sets,     \* calls made so far
    behind    \* history: the loggers and directories that did not follow the settings

settingsVars == <<up, config, all, dirs, structs, lists, log, sets, behind>>

------------------------------------------------------------------------------
(* Reading settings. *)

Unset == "unset"
NoSettings ==
    [home |-> Unset, work |-> Unset, schemas |-> Unset, level |-> Unset,
     modules |-> {}, module_level |-> [m \in Modules |-> Unset]]

ASSUME SettingsAssumption == BaseModules \in Seq(Modules) /\ Unset \notin Levels

value(v, default) == IF v = Unset THEN default ELSE v

\* expand_home_dir: "~" is the given home, or the user's own when that is empty.
expand_home_dir(path, home) ==
    CASE path = "~" /\ home = "" -> "$HOME"
      [] path = "~" /\ home # "" -> home
      [] OTHER -> path

HomeOf(a) == expand_home_dir(value(a.home, ""), "")
UserOf(a, home) == expand_home_dir(value(a.work, "."), home)
SchemOf(a, home) == expand_home_dir(value(a.schemas, ""), home)

get_level(a, m) == value(a.module_level[m], value(a.level, "info"))

------------------------------------------------------------------------------
(* Schemas. *)

\* ThriftSchemaRead of one file: what comes before the place that throws is read.
Read(file) == Content[file] \ {"broken"}
Throws(file) == "broken" \in Content[file]

\* update_from_schema: the lists are made anew from all structures.
Listed(S) == [vertexes |-> {s \in S : TypeOf[s] = "vertex"}, edges |-> {s \in S : TypeOf[s] = "edge"}]

\* readSchemaDir, the files in some order: with none of them the structures of
\* the directory before stay.
Orders(files) == {order \in [1..Cardinality(files) -> files] : ToSet(order) = files}

ReadDir(S, order) ==
    LET bad == SelectInSeq(order, Throws)
        read == IF bad = 0 THEN ToSet(order) ELSE {order[i] : i \in 1..bad}
    IN [ok |-> bad = 0,
        structs |-> IF order = <<>> THEN S ELSE UNION {Read(f) : f \in read}]

------------------------------------------------------------------------------
(* The start, and the end. *)

NoDirs == [home |-> ".", user |-> "", schem |-> ""]
NoLog == [level |-> [m \in Modules |-> IF BaseModules # <<>> /\ m = BaseModules[1] THEN "info" ELSE Unset],
          linked |-> {}, loggers |-> {}]
NoneBehind == [logs |-> {}, dirs |-> {}]

InitSettings ==
    /\ up = FALSE /\ config = Absent /\ all = NoSettings /\ dirs = NoDirs
    /\ structs = {} /\ lists = Listed({})
    /\ log = NoLog /\ sets = 0 /\ behind = NoneBehind

\* Mutation of Relevelled: modules keep the level they were made with.
RelevelledNot(l, a) == l

Relevelled(l, a) == [l EXCEPT !.level = [m \in Modules |-> IF m \in l.loggers THEN get_level(a, m) ELSE @[m]]]

\* update_logger: without names the library's own are made, in their order, and
\* what was saved is saved again with each; with names there is nothing to save.
\* set_levels saves once more, and then gives all their level.
Names(loaded) == IF loaded.modules = {} THEN ToSet(BaseModules) ELSE loaded.modules
Logged(loaded) == [loaded EXCEPT !.modules = Names(loaded), !.level = value(@, "info")]

Started(loaded) ==
    /\ up' = TRUE /\ all' = Logged(loaded)
    /\ \E outcome \in Outcomes \ {"refused"} : config' = Saved(config, all', outcome)
    /\ log' = Relevelled([log EXCEPT !.linked = Names(loaded), !.loggers = Names(loaded)], all')

\* No settings: spdlog keeps the loggers that were made.
NotUp == up' = FALSE /\ all' = NoSettings /\ structs' = {} /\ dirs' = NoDirs

\* One of the savings is refused, after those before it.
StartRefused(loaded) ==
    \E k \in 0..Len(BaseModules) :
        LET made == IF loaded.modules = {} THEN {BaseModules[i] : i \in 1..k} ELSE loaded.modules
        IN /\ "refused" \in Outcomes /\ NotUp
           /\ \E outcome \in Outcomes \ {"refused"} :
                 config' = IF loaded.modules = {} /\ k > 0
                           THEN Saved(config, [loaded EXCEPT !.modules = made], outcome) ELSE config
           /\ log' = [NoLog EXCEPT !.level = [m \in Modules |->
                         IF m \in made /\ log.level[m] = Unset THEN get_level(loaded, m) ELSE log.level[m]]]

\* The constructor, getDataFromPreferences: when a step throws there are no
\* settings, until they are asked for again, and a file that is cut is never repaired.
Start ==
    /\ ~up /\ config # Cut
    /\ LET loaded == IF Loads(config) THEN config.doc ELSE NoSettings
           home == HomeOf(loaded)
           dir == SchemOf(loaded, home)
       IN \E order \in Orders(SchemaFiles[dir]) :
          LET read == ReadDir({}, order)
          IN /\ lists' = IF dir # "" /\ read.ok THEN Listed(read.structs) ELSE lists
             /\ \/ /\ read.ok /\ Started(loaded)
                   /\ dirs' = [home |-> home, user |-> UserOf(loaded, home), schem |-> dir]
                   /\ structs' = read.structs
                \/ read.ok /\ StartRefused(loaded)
                \/ ~read.ok /\ NotUp /\ UNCHANGED <<config, log>>
    /\ behind' = NoneBehind
    /\ UNCHANGED sets

\* The end of the program, expected or not: the destructor saves nothing.
Stop ==
    /\ NotUp
    /\ lists' = Listed({}) /\ log' = NoLog /\ behind' = NoneBehind
    /\ UNCHANGED <<config, sets>>

------------------------------------------------------------------------------
(* Calls. Every value that is set is saved at once, with all the others; when *)
(* that throws, the value stays set and the rest of the call is not done.     *)

Called == up /\ sets < MaxSets /\ sets' = sets + 1 /\ UNCHANGED up

Set(a, outcome) == all' = a /\ config' = Saved(config, a, outcome)
Done(outcome) == outcome # "refused"

\* What a call leaves behind, and what it brings up to date.
Behind(logs, paths) == behind' = [logs |-> behind.logs \cup logs, dirs |-> behind.dirs \cup paths]
Ahead(logs, paths) == behind' = [logs |-> behind.logs \ logs, dirs |-> behind.dirs \ paths]

\* setValue by path, without any refresh.
setValue(key, v) ==
    /\ Called /\ (key # "schemas" => "bypass" \in Slips)
    /\ \E outcome \in Outcomes : Set([all EXCEPT ![key] = v], outcome)
    /\ Behind(IF key = "level" THEN log.loggers ELSE {}, {key} \cap {"home", "work"})
    /\ UNCHANGED <<dirs, structs, lists, log>>

setUserDir(path) ==
    /\ Called /\ path # ""
    /\ \E outcome \in Outcomes :
          /\ Set([all EXCEPT !.work = path], outcome)
          /\ IF Done(outcome)
             THEN dirs' = [dirs EXCEPT !.user = UserOf(all', dirs.home)] /\ Ahead({}, {"work"})
             ELSE Behind({}, {"work"}) /\ UNCHANGED dirs
    /\ UNCHANGED <<structs, lists, log>>

\* setHomeDir leaves alone what "~" was expanded in.
setHomeDir(path) ==
    /\ Called /\ (all.work = "~" => "home" \in Slips)
    /\ \E outcome \in Outcomes :
          /\ Set([all EXCEPT !.home = path], outcome)
          /\ IF Done(outcome)
             THEN /\ dirs' = [dirs EXCEPT !.home = HomeOf(all')]
                  /\ behind' = [logs |-> behind.logs,
                              dirs |-> (behind.dirs \ {"home"}) \cup (IF all.work = "~" THEN {"work"} ELSE {})]
             ELSE Behind({}, {"home"}) /\ UNCHANGED dirs
    /\ UNCHANGED <<structs, lists, log>>

\* updateSchemaDir: SchemDir is set first; a file that throws ends the reading
\* before the lists are made.
updateSchemaDir ==
    /\ Called
    /\ SchemOf(all, dirs.home) # dirs.schem
    /\ dirs' = [dirs EXCEPT !.schem = SchemOf(all, dirs.home)]
    /\ \E order \in Orders(SchemaFiles[dirs'.schem]) :
          LET read == ReadDir(structs, order)
          IN /\ structs' = read.structs
             /\ lists' = IF read.ok THEN Listed(read.structs) ELSE lists
    /\ UNCHANGED <<config, all, log, behind>>

addSchemaFile(file) ==
    /\ Called
    /\ structs' = structs \cup Read(file)
    /\ lists' = IF Throws(file) THEN lists ELSE Listed(structs')
    /\ UNCHANGED <<config, all, dirs, log, behind>>

\* addSchemaFormat: the lists are not made anew.
addSchemaFormat(file) ==
    /\ Called
    /\ structs' = structs \cup Read(file)
    /\ UNCHANGED <<config, all, dirs, log, lists, behind>>

\* A logger of that name that the program makes in spdlog by itself, with the
\* level spdlog gives.
Register(m) ==
    /\ "registered" \in Slips /\ sets < MaxSets /\ sets' = sets + 1
    /\ log.level[m] = Unset
    /\ log' = [log EXCEPT !.level[m] = "info"]
    /\ UNCHANGED <<up, config, all, dirs, structs, lists, behind>>

\* get_logger: a logger that spdlog has is taken as it is, with its level.
Found(m) == m \notin log.loggers /\ log.level[m] # Unset

Logger(l, a, m) ==
    [l EXCEPT !.linked = @ \cup {m}, !.loggers = @ \cup {m},
              !.level[m] = IF @ = Unset THEN get_level(a, m) ELSE @]

\* The names are saved when one is new.
get_logger(m) ==
    /\ Called
    /\ \/ /\ m \in log.linked
          /\ log' = Logger(log, all, m)
          /\ Behind({m} \cap {n \in Modules : Found(n)}, {})
          /\ UNCHANGED <<all, config>>
       \/ /\ m \notin log.linked
          /\ \E outcome \in Outcomes :
                /\ Set([all EXCEPT !.modules = log.linked \cup {m}], outcome)
                /\ IF Done(outcome)
                   THEN log' = Logger(log, all', m) /\ Behind({m} \cap {n \in Modules : Found(n)}, {})
                   ELSE log' = [log EXCEPT !.linked = @ \cup {m}] /\ UNCHANGED behind
    /\ UNCHANGED <<dirs, structs, lists>>

\* set_levels: a refusal comes before any logger has the new level.
set_levels(l) ==
    /\ Called
    /\ \E outcome \in Outcomes :
          /\ Set([all EXCEPT !.level = l], outcome)
          /\ IF Done(outcome) THEN log' = Relevelled(log, all') /\ Ahead(log.loggers, {})
             ELSE Behind(log.loggers, {}) /\ UNCHANGED log
    /\ UNCHANGED <<dirs, structs, lists>>

\* set_module_level: get_logger, then the level of the logger, then the setting.
\* A refusal in get_logger ends it; one in the last step comes when the logger
\* and the setting have the level, and the name is in the file.
set_module_level(m, l) ==
    LET named == IF m \in log.linked THEN all ELSE [all EXCEPT !.modules = log.linked \cup {m}]
        a == [named EXCEPT !.module_level[m] = l]
    IN /\ Called
       /\ \/ /\ m \notin log.linked /\ "refused" \in Outcomes
             /\ Set(named, "refused")
             /\ log' = [log EXCEPT !.linked = @ \cup {m}]
             /\ UNCHANGED behind
          \/ \E first \in Outcomes \ {"refused"}, last \in Outcomes :
                /\ all' = a
                /\ config' = Saved(IF m \in log.linked THEN config ELSE Saved(config, named, first), a, last)
                /\ log' = [Logger(log, all, m) EXCEPT !.level[m] = l]
                /\ Ahead({m}, {})
       /\ UNCHANGED <<dirs, structs, lists>>

NextSettings ==
    \/ Start \/ Stop \/ updateSchemaDir
    \/ \E v \in Dirs, key \in {"home", "work", "schemas"} : setValue(key, v)
    \/ \E l \in Levels : setValue("level", l) \/ set_levels(l)
    \/ \E path \in Dirs : setUserDir(path) \/ setHomeDir(path)
    \/ \E file \in DOMAIN Content : addSchemaFile(file) \/ addSchemaFormat(file)
    \/ \E m \in Modules : Register(m) \/ get_logger(m)
    \/ \E m \in Modules, l \in Levels : set_module_level(m, l)

SpecSettings == InitSettings /\ [][NextSettings]_settingsVars

------------------------------------------------------------------------------
(* What must hold. *)

\* What is in use is what the settings say, after any calls, refusals and
\* restarts, but for what these leave behind until the next call that sets it, or
\* the next start: every logger when set_levels is refused or the level is set by
\* path, a logger of spdlog that was found, a directory whose saving was refused
\* or that is set by path, and the work directory when its "~" is moved. In
\* particular set_module_level, get_logger and a refusal of either leave nothing
\* behind, and a level set for all never takes that of one module away.
SettingsAgree ==
    up => /\ \A m \in log.loggers \ behind.logs : log.level[m] = get_level(all, m)
          /\ "home" \notin behind.dirs => dirs.home = HomeOf(all)
          /\ "work" \notin behind.dirs => dirs.user = UserOf(all, dirs.home)

\* What dbconnect.h says of the maps of vertex and edge types, that they have the
\* schemas that were read. (They do not: addSchemaFormat, or a file that throws.)
ListsOfSchema == up => lists = Listed(structs)

\* What io_settings.h says of set_levels: all existing and future loggers have
\* the level of the settings. (A logger that spdlog has already keeps its own.)
LevelsAgree == up => \A m \in log.loggers : log.level[m] = get_level(all, m)

\* What io_settings.h says of the home directory, that it is used to update the
\* directories with "~". (The work directory is not, when the home is set.)
DirsAgree == up => dirs.home = HomeOf(all) /\ dirs.user = UserOf(all, dirs.home)
=============================================================================
