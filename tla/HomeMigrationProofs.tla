------------------------- MODULE HomeMigrationProofs -------------------------
(***************************************************************************)
(* Theorems of HomeMigration: for any memories, and wherever commands and  *)
(* init are killed.                                                        *)
(***************************************************************************)
EXTENDS HomeMigration, TLAPS

LEMMA TypeInit == Init => TypeOK
  <1> SUFFICES ASSUME Init PROVE TypeOK
    OBVIOUS
  <1>1. new \in [file : {"absent", "torn", "ok"}, rows : SUBSET Memories]
    BY DEF Init
  <1>2. old \subseteq Memories /\ added \subseteq Memories
    BY DEF Init
  <1>3. wal \in [{"old", "new"} -> SUBSET Memories]
    BY DEF Init
  <1>4. QED
    BY <1>1, <1>2, <1>3 DEF Init, TypeOK

LEMMA TypeStep == TypeOK /\ [Next]_vars => TypeOK'
  <1> SUFFICES ASSUME TypeOK, [Next]_vars
               PROVE  TypeOK'
    OBVIOUS
  <1> USE DEF TypeOK, InitPCs, Become, GoOn, dbVars, configVars, Unfinished
  <1>1. ASSUME NEW p \in Procs, Resolve(p) \/ Settle(p) \/ WriteDefault(p)
        PROVE  TypeOK'
    BY <1>1 DEF Resolve, Settle, WriteDefault, GetHomeDir
  <1>2. ASSUME NEW p \in Procs, OpenStore(p)
        PROVE  TypeOK'
    BY <1>2 DEF OpenStore
  <1>3. ASSUME NEW p \in Procs, AddMemory(p)
        PROVE  TypeOK'
    BY <1>3 DEF AddMemory
  <1>4. ASSUME NEW p \in Procs, Close(p)
        PROVE  TypeOK'
    BY <1>4 DEF Close
  <1>5. ASSUME NEW p \in Procs, KillCommand(p) \/ BeginInit(p) \/ MakeHome(p)
        PROVE  TypeOK'
    BY <1>5 DEF KillCommand, BeginInit, MakeHome
  <1>6. ASSUME NEW p \in Procs, StatConfig(p) \/ CreateConfig(p) \/ WriteConfig(p)
        PROVE  TypeOK'
    BY <1>6 DEF StatConfig, CreateConfig, WriteConfig
  <1>7. ASSUME NEW p \in Procs, StatDb(p) \/ ReadDb(p) \/ CreateDb(p) \/ WriteDb(p)
        PROVE  TypeOK'
    BY <1>7 DEF StatDb, ReadDb, CreateDb, WriteDb
  <1>8. ASSUME NEW p \in Procs, KillInit(p)
        PROVE  TypeOK'
    BY <1>8 DEF KillInit
  <1>9. CASE UNCHANGED vars
    BY <1>9 DEF vars
  <1>10. QED
    BY <1>1, <1>2, <1>3, <1>4, <1>5, <1>6, <1>7, <1>8, <1>9 DEF Next

(* Files, logs and locals keep their types for any number of processes.    *)
THEOREM TypeCorrect == Spec => []TypeOK
  BY TypeInit, TypeStep, PTL DEF Spec
-----------------------------------------------------------------------------
(* One process at a time.  Before the move the new home is empty; while    *)
(* init is at work nothing else writes; afterwards nobody writes to the    *)
(* legacy home any more.                                                   *)
BeforeMove ==
    ~ newHome => /\ new = [file |-> "absent", rows |-> {}]
                 /\ wal["new"] = {} /\ config = "absent"

AfterMove == \A p \in Procs :
    /\ pc[p] = "mkdir" => ~ newHome
    /\ pc[p] \in InitPCs \ {"mkdir", "settle"} => newHome
    /\ home[p] = "new" => newHome
    /\ newHome /\ pc[p] \in {"resolved", "open"} => home[p] = "new"
    /\ pc[p] = "open" /\ home[p] = "new" => new.file # "absent"

Copying == \A p \in Procs :
    /\ pc[p] \in {"config", "createConfig", "writeConfig"} =>
          new.rows = {} /\ wal["new"] = {}
    /\ pc[p] \in {"config", "createConfig"} => config = "absent"
    /\ pc[p] \in {"stat", "read", "create", "write"} => config = "copied" \/ waived
    /\ pc[p] = "writeDefault" => config = "torn"
    /\ pc[p] \in {"read", "create"} => new.file = "absent"
    /\ pc[p] = "write" => new.rows = {} /\ wal["new"] = {}
    /\ pc[p] \in {"create", "write"} => copy[p] = old

Stored ==
    /\ old \subseteq added /\ wal["old"] \subseteq added
    /\ wal["new"] \cap old = {}
    /\ new.file = "absent" => new.rows = {} /\ wal["new"] = {}

HomeInv ==
    /\ TypeOK /\ BeforeMove /\ AfterMove /\ Copying /\ Stored
    /\ NothingErased /\ MigratedWhole /\ ConfigFirst

OneProcess == \A p, q \in Procs : p = q

LEMMA HomeInit == Init => HomeInv
  <1> SUFFICES ASSUME Init PROVE HomeInv
    OBVIOUS
  <1>1. TypeOK
    BY TypeInit
  <1>2. BeforeMove /\ AfterMove /\ Copying /\ Stored
    BY DEF Init, BeforeMove, AfterMove, Copying, Stored, InitPCs
  <1>3. NothingErased /\ MigratedWhole /\ ConfigFirst
    BY DEF Init, NothingErased, MigratedWhole, ConfigFirst, Visible
  <1>4. QED
    BY <1>1, <1>2, <1>3 DEF HomeInv

LEMMA CommandStep ==
    ASSUME OneProcess, HomeInv, NEW p \in Procs,
           Resolve(p) \/ OpenStore(p) \/ AddMemory(p) \/ Close(p) \/ KillCommand(p)
    PROVE  HomeInv'
  <1> USE DEF HomeInv, BeforeMove, AfterMove, Copying, Stored, NothingErased,
              MigratedWhole, ConfigFirst, Visible, InitPCs, Become, dbVars, configVars
  <1>1. TypeOK'
    BY TypeStep DEF Next
  <1>2. \A q \in Procs : q = p
    BY DEF OneProcess
  <1>3. CASE Resolve(p)
    BY <1>1, <1>2, <1>3 DEF Resolve, GetHomeDir, TypeOK
  <1>4. CASE OpenStore(p)
    <2>1. UNCHANGED <<old, wal, newHome, config, waived, home, copy, added>>
          /\ pc[p] = "resolved"
          /\ \/ UNCHANGED new /\ home[p] = "old" /\ pc' = [pc EXCEPT ![p] = "open"]
             \/ UNCHANGED new /\ pc' = [pc EXCEPT ![p] = "idle"]
             \/ /\ new' = [new EXCEPT !.file = "ok"] /\ home[p] = "new"
                /\ pc' = [pc EXCEPT ![p] = "open"]
      BY <1>4 DEF OpenStore
    <2>2. QED
      BY <1>1, <1>2, <2>1 DEF TypeOK
  <1>5. CASE AddMemory(p)
    <2>1. PICK m \in Memories \ added :
            /\ added' = added \cup {m}
            /\ wal' = [wal EXCEPT ![home[p]] = @ \cup {m}]
      BY <1>5 DEF AddMemory
    <2>2. pc[p] = "open" /\ UNCHANGED <<old, newHome, new, config, waived, pc, home, copy>>
      BY <1>5 DEF AddMemory
    <2>3. CASE home[p] = "old"
      <3>1. wal'["new"] = wal["new"] /\ wal'["old"] = wal["old"] \cup {m}
        BY <2>1, <2>3 DEF TypeOK
      <3>2. QED
        BY <1>1, <2>1, <2>2, <3>1
    <2>4. CASE home[p] = "new"
      <3>1. wal'["old"] = wal["old"] /\ wal'["new"] = wal["new"] \cup {m}
        BY <2>1, <2>4 DEF TypeOK
      <3>2. m \notin old /\ newHome /\ new.file # "absent"
        BY <2>1, <2>2, <2>4
      <3>3. QED
        BY <1>1, <1>2, <2>1, <2>2, <3>1, <3>2
    <2>5. QED
      BY <2>3, <2>4 DEF TypeOK
  <1>6. CASE Close(p)
    <2>1. /\ pc[p] = "open" /\ pc' = [pc EXCEPT ![p] = "idle"]
          /\ wal' = [wal EXCEPT ![home[p]] = {}]
          /\ UNCHANGED <<newHome, config, waived, home, copy, added>>
      BY <1>2, <1>6 DEF Close, LastOpen
    <2>2. CASE home[p] = "old"
      <3>1. old' = old \cup wal["old"] /\ new' = new
        BY <1>2, <1>6, <2>2 DEF Close, LastOpen
      <3>2. wal'["old"] = {} /\ wal'["new"] = wal["new"] /\ ~ newHome
        BY <2>1, <2>2 DEF TypeOK
      <3>3. new.rows = {} /\ wal["new"] = {} /\ config = "absent" /\ pc'[p] = "idle"
        BY <2>1, <3>2 DEF TypeOK
      <3>4. BeforeMove' /\ AfterMove' /\ Copying'
        BY <1>2, <2>1, <3>1, <3>2, <3>3
      <3>5. Stored' /\ NothingErased' /\ MigratedWhole' /\ ConfigFirst'
        BY <2>1, <3>1, <3>2, <3>3
      <3>6. QED
        BY <1>1, <3>4, <3>5
    <2>3. CASE home[p] = "new"
      <3>1. old' = old /\ new' = [new EXCEPT !.rows = @ \cup wal["new"]]
        BY <1>2, <1>6, <2>3 DEF Close, LastOpen
      <3>2. /\ wal'["new"] = {} /\ wal'["old"] = wal["old"]
            /\ new'.rows = new.rows \cup wal["new"] /\ new'.file = new.file
        BY <2>1, <2>3, <3>1 DEF TypeOK
      <3>3. newHome /\ pc'[p] = "idle"
        BY <2>1, <2>3 DEF TypeOK
      <3>4. QED
        BY <1>1, <1>2, <2>1, <3>1, <3>2, <3>3 DEF TypeOK
    <2>4. QED
      BY <2>2, <2>3 DEF TypeOK
  <1>7. CASE KillCommand(p)
    BY <1>1, <1>2, <1>7 DEF KillCommand, TypeOK
  <1>8. QED
    BY <1>3, <1>4, <1>5, <1>6, <1>7

LEMMA InitStep ==
    ASSUME OneProcess, HomeInv, NEW p \in Procs,
           BeginInit(p) \/ MakeHome(p) \/ StatConfig(p) \/ CreateConfig(p)
             \/ WriteConfig(p) \/ StatDb(p) \/ ReadDb(p) \/ CreateDb(p)
             \/ WriteDb(p) \/ Settle(p) \/ WriteDefault(p) \/ KillInit(p)
    PROVE  HomeInv'
  <1> USE DEF HomeInv, BeforeMove, AfterMove, Copying, Stored, NothingErased,
              MigratedWhole, ConfigFirst, Visible, InitPCs, Become, dbVars, configVars
  <1>1. TypeOK'
    BY TypeStep DEF Next
  <1>2. \A q \in Procs : q = p
    BY DEF OneProcess
  <1>3. CASE BeginInit(p)
    BY <1>1, <1>2, <1>3 DEF BeginInit, TypeOK
  <1>4. CASE MakeHome(p)
    BY <1>1, <1>2, <1>4 DEF MakeHome, TypeOK
  <1>5. CASE StatConfig(p)
    BY <1>1, <1>2, <1>5 DEF StatConfig, TypeOK
  <1>6. CASE CreateConfig(p)
    BY <1>1, <1>2, <1>6 DEF CreateConfig, TypeOK
  <1>7. CASE WriteConfig(p)
    BY <1>1, <1>2, <1>7 DEF WriteConfig, TypeOK
  <1>8. CASE StatDb(p)
    BY <1>1, <1>2, <1>8 DEF StatDb, TypeOK
  <1>9. CASE ReadDb(p)
    BY <1>1, <1>2, <1>9 DEF ReadDb, TypeOK
  <1>10. CASE CreateDb(p)
    BY <1>1, <1>2, <1>10 DEF CreateDb, TypeOK
  <1>11. CASE WriteDb(p)
    BY <1>1, <1>2, <1>11 DEF WriteDb, Unfinished, TypeOK
  <1>12. CASE Settle(p)
    BY <1>1, <1>2, <1>12 DEF Settle, GoOn, GetHomeDir, TypeOK
  <1>13. CASE WriteDefault(p)
    BY <1>1, <1>2, <1>13 DEF WriteDefault, GoOn, GetHomeDir, TypeOK
  <1>14. CASE KillInit(p)
    BY <1>1, <1>2, <1>14 DEF KillInit, Unfinished, TypeOK
  <1>15. QED
    BY <1>3, <1>4, <1>5, <1>6, <1>7, <1>8, <1>9, <1>10, <1>11, <1>12, <1>13, <1>14

LEMMA HomeAlways ==
    ASSUME OneProcess
    PROVE  Spec => []HomeInv
  <1>1. HomeInv /\ [Next]_vars => HomeInv'
    <2> SUFFICES ASSUME HomeInv, [Next]_vars
                 PROVE  HomeInv'
      OBVIOUS
    <2>1. CASE Next
      BY <2>1, CommandStep, InitStep DEF Next
    <2>2. CASE UNCHANGED vars
      BY <2>2 DEF vars, HomeInv, TypeOK, BeforeMove, AfterMove, Copying, Stored,
                  NothingErased, MigratedWhole, ConfigFirst, Visible
    <2>3. QED
      BY <2>1, <2>2
  <1>2. QED
    BY <1>1, HomeInit, PTL DEF Spec

(* With one llmem process at a time the move erases nothing, wherever init *)
(* and the commands are killed.                                            *)
THEOREM NothingEverErased ==
    ASSUME OneProcess
    PROVE  Spec => []NothingErased
  <1>1. HomeInv => NothingErased
    BY DEF HomeInv
  <1>2. QED
    BY <1>1, HomeAlways, PTL

(* The legacy database is taken over whole or not at all, ...              *)
THEOREM AlwaysMigratedWhole ==
    ASSUME OneProcess
    PROVE  Spec => []MigratedWhole
  <1>1. HomeInv => MigratedWhole
    BY DEF HomeInv
  <1>2. QED
    BY <1>1, HomeAlways, PTL

(* ... and never without the legacy configuration, unless its copy was     *)
(* passed over or failed or a forced init wrote over it.                   *)
THEOREM ConfigAlwaysFirst ==
    ASSUME OneProcess
    PROVE  Spec => []ConfigFirst
  <1>1. HomeInv => ConfigFirst
    BY DEF HomeInv
  <1>2. QED
    BY <1>1, HomeAlways, PTL
=============================================================================
