---------------------------- MODULE HomeMigration ----------------------------
(***************************************************************************)
(* The move from the legacy home ~/.lobsterdog to ~/.config/llmem          *)
(* (MigrateFromLobsterdog, called by `llmem init`), with the commands that *)
(* keep using the database meanwhile.  A command resolves its home         *)
(* directory once (GetHomeDir), then opens the database there.  LMEM_HOME, *)
(* which names a home outright, is taken to be unset.                      *)
(*                                                                         *)
(* The database is in WAL mode: a commit goes to memory.db-wal, and the    *)
(* last process to close the database folds it into memory.db.             *)
(* The diary and context/ are copied like config.yaml and left out, and so *)
(* is what init writes to the configuration of the legacy home.            *)
(***************************************************************************)
EXTENDS FiniteSets

CONSTANTS
    Memories,   \* memories commands may add
    Procs,      \* llmem processes
    CrashAt     \* what may be killed: "init", "command"

ASSUME CrashAssumption == CrashAt \subseteq {"init", "command"}

VARIABLES
    old,        \* memories in ~/.lobsterdog/memory.db
    newHome,    \* whether ~/.config/llmem exists
    new,        \* memory.db there: a file and the memories in it
    wal,        \* per home, memories committed but only in memory.db-wal
    config,     \* config.yaml there
    pc, home,
    copy,       \* bytes of memory.db a copyFile has read
    added,      \* memories some command was told are stored
    waived      \* whether the copy of config.yaml was skipped or failed, or a
                \* forced init wrote over it: kept for the properties only

vars == <<old, wal, newHome, new, config, pc, home, copy, added, waived>>
dbVars == <<old, wal, new, copy, added>>
configVars == <<config, waived>>

InitPCs == {"mkdir", "config", "createConfig", "writeConfig", "stat", "read",
            "create", "write", "settle", "writeDefault"}

TypeOK ==
    /\ old \subseteq Memories /\ wal \in [{"old", "new"} -> SUBSET Memories]
    /\ newHome \in BOOLEAN
    /\ new \in [file : {"absent", "torn", "ok"}, rows : SUBSET Memories]
    /\ config \in {"absent", "torn", "copied", "default"} /\ waived \in BOOLEAN
    /\ pc \in [Procs -> {"idle", "resolved", "open"} \cup InitPCs]
    /\ home \in [Procs -> {"old", "new"}]
    /\ copy \in [Procs -> SUBSET Memories]
    /\ added \subseteq Memories

\* A legacy installation in use.
Init ==
    /\ old \in SUBSET Memories /\ added = old /\ wal = [h \in {"old", "new"} |-> {}]
    /\ newHome = FALSE
    /\ new = [file |-> "absent", rows |-> {}]
    /\ config = "absent" /\ waived = FALSE
    /\ pc = [p \in Procs |-> "idle"]
    /\ home = [p \in Procs |-> "old"]
    /\ copy = [p \in Procs |-> {}]

Become(p, from, to) == pc[p] = from /\ pc' = [pc EXCEPT ![p] = to]

\* Seeded fault: no home at all once the new one is missing.
GetHomeDirNone == IF newHome THEN "new" ELSE ""

\* Seeded fault: the legacy home, which is still there, comes first.
GetHomeDirLegacyFirst == "old"

\* GetHomeDir without LMEM_HOME: the new home as soon as it exists.
GetHomeDir == IF newHome THEN "new" ELSE "old"
-----------------------------------------------------------------------------
(* A command: resolve, open, add memories, close.                          *)

Resolve(p) ==
    /\ Become(p, "idle", "resolved")
    /\ home' = [home EXCEPT ![p] = GetHomeDir]
    /\ UNCHANGED <<newHome, dbVars, configVars>>

\* NewMemoryStore creates the database if there is none, takes an empty file
\* for an empty database, and fails on half a file.
OpenStore(p) ==
    /\ \/ /\ home[p] = "old"
          /\ Become(p, "resolved", "open")
          /\ UNCHANGED new
       \/ /\ home[p] = "new" /\ new.file # "torn"
          /\ Become(p, "resolved", "open")
          /\ new' = [new EXCEPT !.file = "ok"]
       \/ /\ home[p] = "new" /\ new.file = "torn"
          /\ Become(p, "resolved", "idle")
          /\ UNCHANGED new
    /\ UNCHANGED <<old, wal, newHome, home, copy, added, configVars>>

AddMemory(p) ==
    /\ pc[p] = "open"
    /\ \E m \in Memories \ added :
        /\ added' = added \cup {m}
        /\ wal' = [wal EXCEPT ![home[p]] = @ \cup {m}]
    /\ UNCHANGED <<old, newHome, new, pc, home, copy, configVars>>

LastOpen(p) == \A q \in Procs \ {p} : ~(pc[q] = "open" /\ home[q] = home[p])

\* Seeded fault: the log is dropped instead of folded in.
CloseDropsLog(p) ==
    /\ Become(p, "open", "idle")
    /\ wal' = IF LastOpen(p) THEN [wal EXCEPT ![home[p]] = {}] ELSE wal
    /\ UNCHANGED <<old, newHome, new, home, copy, added, configVars>>

Close(p) ==
    /\ Become(p, "open", "idle")
    /\ IF LastOpen(p)
         THEN /\ wal' = [wal EXCEPT ![home[p]] = {}]
              /\ IF home[p] = "old"
                   THEN old' = old \cup wal["old"] /\ UNCHANGED new
                   ELSE /\ new' = [new EXCEPT !.rows = @ \cup wal["new"]]
                        /\ UNCHANGED old
         ELSE UNCHANGED <<old, wal, new>>
    /\ UNCHANGED <<newHome, home, copy, added, configVars>>

KillCommand(p) ==
    /\ "command" \in CrashAt
    /\ Become(p, "open", "idle")
    /\ UNCHANGED <<newHome, home, dbVars, configVars>>
-----------------------------------------------------------------------------
(* llmem init: MigrateFromLobsterdog, then the default config and database *)
(* in whatever home there is.  A file that is skipped or cannot be copied  *)
(* is logged, and the loop goes on to the next.                            *)

\* The migration is skipped altogether if the new home exists.
BeginInit(p) ==
    /\ Become(p, "idle", IF newHome THEN "settle" ELSE "mkdir")
    /\ UNCHANGED <<newHome, home, dbVars, configVars>>

\* MkdirAll; when it fails init goes on in the legacy home.
MakeHome(p) ==
    /\ \/ Become(p, "mkdir", "config") /\ newHome' = TRUE
       \/ Become(p, "mkdir", "settle") /\ UNCHANGED newHome
    /\ UNCHANGED <<home, dbVars, configVars>>

\* The loop's checks before config.yaml: a symbolic link or no file to copy, or
\* a file already there, is passed over.  Then ReadFile, which may fail.
StatConfig(p) ==
    /\ \/ /\ config = "absent"
          /\ Become(p, "config", "createConfig") /\ UNCHANGED waived
       \/ /\ config = "absent"
          /\ Become(p, "config", "stat") /\ waived' = TRUE
       \/ /\ config # "absent"
          /\ Become(p, "config", "stat") /\ UNCHANGED waived
    /\ UNCHANGED <<newHome, home, config, dbVars>>

\* WriteFile creates or truncates the file, then writes it; either may fail.
CreateConfig(p) ==
    /\ \/ Become(p, "createConfig", "writeConfig") /\ config' = "torn" /\ UNCHANGED waived
       \/ Become(p, "createConfig", "stat") /\ waived' = TRUE /\ UNCHANGED config
    /\ UNCHANGED <<newHome, home, dbVars>>

WriteConfig(p) ==
    /\ Become(p, "writeConfig", "stat")
    /\ \/ config' = "copied" /\ UNCHANGED waived
       \/ waived' = TRUE /\ UNCHANGED config
    /\ UNCHANGED <<newHome, home, dbVars>>

\* The same checks before memory.db.
StatDb(p) ==
    /\ \/ Become(p, "stat", "read") /\ new.file = "absent"
       \/ Become(p, "stat", "settle")
    /\ UNCHANGED <<newHome, home, dbVars, configVars>>

\* copyFile: ReadFile takes memory.db without its log; WriteFile truncates the
\* destination, then writes it.
ReadDb(p) ==
    /\ \/ Become(p, "read", "create") /\ copy' = [copy EXCEPT ![p] = old]
       \/ Become(p, "read", "settle") /\ UNCHANGED copy
    /\ UNCHANGED <<old, wal, newHome, new, home, added, configVars>>

CreateDb(p) ==
    /\ \/ /\ Become(p, "create", "write")
          /\ new' = [file |-> "ok", rows |-> {}] /\ UNCHANGED copy
       \/ /\ Become(p, "create", "settle")
          /\ copy' = [copy EXCEPT ![p] = {}] /\ UNCHANGED new
    /\ UNCHANGED <<old, wal, newHome, home, added, configVars>>

\* A file whose writing stopped, by an error or by a kill, has any part of it.
Unfinished == {new, [new EXCEPT !.file = "torn"]}

WriteDb(p) ==
    /\ Become(p, "write", "settle")
    /\ new' \in {[file |-> "ok", rows |-> copy[p]]} \cup Unfinished
    /\ copy' = [copy EXCEPT ![p] = {}]
    /\ UNCHANGED <<old, wal, newHome, home, added, configVars>>

\* Init opens the database as a command does, in the home there is now.
GoOn(p, from) ==
    /\ Become(p, from, "resolved")
    /\ home' = [home EXCEPT ![p] = GetHomeDir]

\* Seeded fault: init writes its default configuration without being forced to.
SettleForced(p) ==
    /\ \/ GetHomeDir = "new" /\ Become(p, "settle", "writeDefault")
                             /\ config' = "torn" /\ UNCHANGED home
       \/ GetHomeDir = "old" /\ GoOn(p, "settle") /\ UNCHANGED config
    /\ UNCHANGED <<newHome, dbVars, waived>>

\* WriteConfigYAML: without --force it leaves a file that is there alone; an error
\* before it writes ends init.
Settle(p) ==
    /\ \/ \E force \in BOOLEAN :
             /\ GetHomeDir = "new" /\ (force \/ config = "absent")
             /\ Become(p, "settle", "writeDefault") /\ UNCHANGED home
             /\ config' = "torn" /\ waived' = (waived \/ config # "absent")
       \/ /\ GetHomeDir = "old" \/ config # "absent"
          /\ GoOn(p, "settle") /\ UNCHANGED configVars
       \/ Become(p, "settle", "idle") /\ UNCHANGED <<home, configVars>>
    /\ UNCHANGED <<newHome, dbVars>>

\* The rest of WriteConfigYAML; an error ends init.
WriteDefault(p) ==
    /\ \/ GoOn(p, "writeDefault") /\ config' = "default"
       \/ Become(p, "writeDefault", "idle") /\ UNCHANGED <<home, config>>
    /\ UNCHANGED <<newHome, waived, dbVars>>

\* Killed: a file being written stays as far as it was written.
KillInit(p) ==
    /\ "init" \in CrashAt
    /\ pc[p] \in InitPCs
    /\ new' \in IF pc[p] = "write" THEN Unfinished ELSE {new}
    /\ pc' = [pc EXCEPT ![p] = "idle"]
    /\ copy' = [copy EXCEPT ![p] = {}]
    /\ UNCHANGED <<old, wal, newHome, home, added, configVars>>

Next ==
    \E p \in Procs :
        \/ Resolve(p) \/ OpenStore(p) \/ AddMemory(p) \/ Close(p) \/ KillCommand(p)
        \/ BeginInit(p) \/ MakeHome(p) \/ StatConfig(p) \/ CreateConfig(p)
        \/ WriteConfig(p) \/ StatDb(p) \/ ReadDb(p) \/ CreateDb(p) \/ WriteDb(p)
        \/ Settle(p) \/ WriteDefault(p) \/ KillInit(p)

Spec == Init /\ [][Next]_vars
-----------------------------------------------------------------------------
(* Properties.                                                             *)

Visible(h) == wal[h] \cup (IF h = "old" THEN old ELSE new.rows)

\* Nothing that was stored is erased: a copy that went wrong leaves every
\* memory somewhere on the disk.
NothingErased == added \subseteq Visible("old") \cup Visible("new")

\* The legacy database is taken over whole or not at all: the new home never
\* shows a part of what the legacy database file holds.
MigratedWhole == new.rows \cap old # {} => old \subseteq new.rows

\* Whoever finds the legacy memories in the new home finds the legacy
\* configuration there too, wherever init was killed and whatever it was run
\* with again: unless the copy of the configuration was passed over or failed,
\* or init --force wrote over it.
ConfigFirst == new.rows \cap old # {} => config = "copied" \/ waived
=============================================================================
