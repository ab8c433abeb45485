---------------------------- MODULE UpgradeProofs ----------------------------
(* What holds of the loader for flash of any size, any set of images and    *)
(* any placement of power failures, and of a download session for links of  *)
(* any length, images of any size and any placement of losses and           *)
(* repetitions.                                                             *)
EXTENDS Upgrade, TLAPS

-----------------------------------------------------------------------------
(* The loader *)

AppCells    == [0..AppUnits-1 -> Cell]
BackupCells == [0..BackupUnits-1 -> Cell]

(* The linear part of the assumption on sizes. *)
LEMMA Sizes ==
    /\ AppUnits \in Nat /\ AppUnits > 0
    /\ BackupUnits \in Nat /\ BackupUnits >= AppUnits
    /\ SectorUnits \in Nat /\ SectorUnits > 0
    /\ ChunkUnits \in Nat /\ ChunkUnits > 0 /\ ChunkUnits <= SectorUnits
    /\ HasBackup \in BOOLEAN
BY SizesAssumption
-----------------------------------------------------------------------------
(* Lemmas about the partition layer *)

(* Erasing keeps a partition a partition. *)
LEMMA EraseType ==
    ASSUME NEW n \in Nat, NEW part \in [0..n-1 -> Cell],
           NEW offset \in Int, NEW len \in Int
    PROVE  flash_part_erase_len(part, offset, len) \in [0..n-1 -> Cell]
BY DEF flash_part_erase_len, Cell

(* Programming keeps a partition a partition, as long as the data are      *)
(* cells wherever the partition has a unit.                                *)
LEMMA WriteType ==
    ASSUME NEW n \in Nat, NEW part \in [0..n-1 -> Cell],
           NEW offset \in Int, NEW len \in Int, NEW data,
           \A u \in 0..n-1 : u \in offset..(offset + len - 1)
                                => data[u] \in Cell
    PROVE  flash_part_write(part, offset, len, data) \in [0..n-1 -> Cell]
BY DEF flash_part_write, Program, Cell

(* So does losing power in either. *)
LEMMA TornType ==
    ASSUME NEW n \in Nat, NEW part \in [0..n-1 -> Cell], NEW touched,
           NEW torn \in Torn(part, touched)
    PROVE  torn \in [0..n-1 -> Cell]
BY DEF Torn, Cell

(* Two different images are never both in one partition. *)
LEMMA HeldOnce ==
    ASSUME NEW part, NEW i \in Images, NEW j \in Images,
           Holds(part, i), Holds(part, j)
    PROVE  i = j
<1>1. 0 \in 0..(ImgLen[i] - 1) /\ 0 \in 0..(ImgLen[j] - 1)
  BY ImagesAssumption
<1> QED BY <1>1 DEF Holds
-----------------------------------------------------------------------------
(* Lemmas about the state machine *)

(* A state machine record stays one whatever event it is given. *)
LEMMA EmitType ==
    ASSUME NEW f \in FsmRecord, NEW event
    PROVE  Emit(f, event) \in FsmRecord
<1>1. Cond(f.cur, event) \in States \cup {"none"}
  BY DEF Cond, States
<1> QED BY <1>1 DEF Emit, FsmRecord, States

LEMMA SettledType ==
    ASSUME NEW state \in States
    PROVE  Settled(state) \in FsmRecord
BY DEF Settled, FsmRecord

LEMMA NotifyType ==
    ASSUME fsm \in FsmRecord, NEW event
    PROVE  Notify(event) \in FsmRecord
BY EmitType DEF Notify
-----------------------------------------------------------------------------
(* Type correctness *)

LEMMA BootType == Boot \in FsmRecord
BY DEF Boot, FsmRecord, States

(* After a reset the RAM is that of a fresh start. *)
LEMMA ResetType ==
    ASSUME Reset, app' \in AppCells, backup' \in BackupCells,
           boot_cfg' \in BootCfg, stale' \in BOOLEAN
    PROVE  TypeOK'
<1>1. NoCopy \in Copies /\ NoDownload \in Downloads
  BY DEF NoCopy, Copies, NoDownload, Downloads
<1> QED BY <1>1, BootType DEF Reset, TypeOK, AppCells, BackupCells

(* The copies a call of ld_s_update_app_exe may start from are well formed *)
(* and never longer than the application partition when they start.        *)
LEMMA CopyingType ==
    ASSUME TypeOK, NEW c \in Copying
    PROVE  c \in Copies
<1>1. HeaderLen(backup[0]) \subseteq Nat
  BY ImagesAssumption, Sizes DEF HeaderLen
<1> QED BY <1>1 DEF Copying, AppLens, Copies, TypeOK

LEMMA ErasedAheadType ==
    ASSUME TypeOK, NEW c \in Copies
    PROVE  /\ ErasedAhead(c) \in AppCells
           /\ NextErase(c) \in Nat
           /\ ChunkLen(c) \in Int
           /\ c.prog < c.size => ChunkLen(c) \in Nat
<1>1. ErasedAhead(c) \in AppCells
  <2>1. /\ AppUnits \in Nat /\ SectorUnits \in Int /\ c.erase \in Int
        /\ app \in [0..AppUnits-1 -> Cell]
    BY Sizes DEF TypeOK, Copies
  <2> QED BY <2>1, EraseType DEF ErasedAhead, AppCells
<1>2. NextErase(c) \in Nat
  BY Sizes DEF NextErase, Copies
<1> QED BY <1>1, <1>2, Sizes DEF ChunkLen, Copies

(* The download partition as a block arrives. *)
LEMMA DlPartType ==
    ASSUME TypeOK
    PROVE  DlPart \in [0..DlUnits-1 -> Cell] /\ DlUnits \in Nat
BY Sizes DEF DlPart, DlUnits, TypeOK

LEMMA SetDlPartType ==
    ASSUME TypeOK, NEW part \in [0..DlUnits-1 -> Cell], SetDlPart(part)
    PROVE  app' \in AppCells /\ backup' \in BackupCells
BY DEF SetDlPart, DlUnits, TypeOK, AppCells, BackupCells

LEMMA BrokenBackupType ==
    ASSUME TypeOK, broken_backup_part_data
    PROVE  backup' \in BackupCells
BY Sizes, EraseType DEF broken_backup_part_data, TypeOK, BackupCells

LEMMA TypeInit == Init => TypeOK
<1> SUFFICES ASSUME Init PROVE TypeOK
  OBVIOUS
<1>1. app \in AppCells
  BY DEF Init, Blank, Flashed, AppCells, Cell
<1>2. backup \in BackupCells
  BY DEF Init, Blank, BackupCells, Cell
<1>3. NoCopy \in Copies /\ NoDownload \in Downloads
  BY DEF NoCopy, Copies, NoDownload, Downloads
<1> QED BY <1>1, <1>2, <1>3, BootType
        DEF Init, TypeOK, AppCells, BackupCells, BootCfg

(* The calls of RUN_FSM. *)
LEMMA TypeRunFsm == TypeOK /\ RunFsm /\ Watch => TypeOK'
<1> SUFFICES ASSUME TypeOK, RunFsm, stale' \in BOOLEAN PROVE TypeOK'
  BY DEF Watch
<1> USE DEF TypeOK
<1>0. \A state \in States : \A e : Emit(Settled(state), e) \in FsmRecord
  BY SettledType, EmitType
<1>1. CASE EnterCheckBadCfg
  BY <1>0, <1>1 DEF EnterCheckBadCfg, BootCfg, States
<1>2. CASE EnterCheckBackupReady
  BY <1>0, <1>2 DEF EnterCheckBackupReady, States, flash
<1>3. CASE EnterCheckUpgradeWanted
  <2>1. boot_cfg' \in BootCfg
    BY <1>3 DEF EnterCheckUpgradeWanted, BootCfg
  <2> QED BY <1>0, <1>3, <2>1 DEF EnterCheckUpgradeWanted, States
<1>4. CASE EnterCheckAppBroken
  BY <1>0, <1>4 DEF EnterCheckAppBroken, States, flash
<1>5. CASE \E late \in BOOLEAN : EnterCheckPassed(late)
  BY <1>0, <1>5, SettledType DEF EnterCheckPassed, States, flash
<1>6. CASE EnterWaiting
  BY <1>6, SettledType DEF EnterWaiting, States, flash
<1>7. CASE StateTimeout
  BY <1>7, EmitType DEF StateTimeout, flash
<1>8. CASE JumpToApl
  <2>1. NoCopy \in Copies /\ NoDownload \in Downloads
    BY DEF NoCopy, Copies, NoDownload, Downloads
  <2> QED BY <1>8, <2>1, SettledType DEF JumpToApl, States, flash
<1>9. CASE DropTooLarge
  <2>1. HeaderLen(backup[0]) \subseteq Nat
    BY ImagesAssumption, Sizes DEF HeaderLen
  <2>2. copy' \in Copies
    BY <1>9, <2>1 DEF DropTooLarge, BigLens, Copies
  <2> QED BY <1>9, <1>0, <2>2, BrokenBackupType
          DEF DropTooLarge, States, BackupCells
<1>10. ASSUME NEW c \in Copying, CopyStep(c) PROVE TypeOK'
  <2>1. c \in Copies
    BY CopyingType
  <2>2. /\ ErasedAhead(c) \in AppCells
        /\ NextErase(c) \in Nat
        /\ ChunkLen(c) \in Nat
    BY <1>10, <2>1, ErasedAheadType DEF CopyStep
  <2>3. app' \in AppCells
    <3>1. \A u \in 0..AppUnits-1 : backup[u] \in Cell
      BY Sizes
    <3>2. c.prog \in Nat
      BY <2>1 DEF Copies
    <3>3. AppUnits \in Nat /\ c.prog \in Int /\ ChunkLen(c) \in Int
      BY <2>2, <3>2, Sizes
    <3>4. flash_part_write(ErasedAhead(c), c.prog, ChunkLen(c), backup)
            \in [0..AppUnits-1 -> Cell]
      BY <2>2, <3>1, <3>3, WriteType DEF AppCells
    <3> QED BY <1>10, <3>4 DEF CopyStep, AppCells
  <2>4. copy' \in Copies
    <3>1. c.prog + ChunkLen(c) \in Nat
      BY <2>1, <2>2 DEF Copies
    <3> QED BY <1>10, <2>1, <2>2, <3>1 DEF CopyStep, Copies
  <2> QED BY <1>10, <2>3, <2>4, SettledType
          DEF CopyStep, States, AppCells
<1>11. ASSUME NEW c \in Copying, CopyVerified(c) \/ CopyFailed(c) PROVE TypeOK'
  <2>1. c \in Copies
    BY CopyingType
  <2>2. app' \in AppCells
    BY <1>11, <2>1, ErasedAheadType DEF CopyVerified, CopyFailed
  <2>3. copy' \in Copies
    <3>1. NextErase(c) \in Nat
      BY <2>1, ErasedAheadType
    <3> QED BY <1>11, <2>1, <3>1 DEF CopyVerified, CopyFailed, Copies
  <2>4. fsm' \in FsmRecord
    BY <1>11, <1>0 DEF CopyVerified, CopyFailed, States
  <2>5. backup' \in BackupCells
    BY <1>11, BrokenBackupType DEF CopyVerified, CopyFailed, BackupCells
  <2> QED BY <1>11, <2>2, <2>3, <2>4, <2>5
          DEF CopyVerified, CopyFailed, AppCells, BackupCells
<1> QED
  BY <1>1, <1>2, <1>3, <1>4, <1>5, <1>6, <1>7, <1>8, <1>9, <1>10, <1>11
  DEF RunFsm, Install

(* The download handlers. *)
LEMMA TypeRequest == TypeOK /\ Request /\ Watch => TypeOK'
<1> SUFFICES ASSUME TypeOK, Request, stale' \in BOOLEAN PROVE TypeOK'
  BY DEF Watch
<1> USE DEF TypeOK
<1>0. \A e : Notify(e) \in FsmRecord
  BY NotifyType
<1>0a. ASSUME NEW pack \in {1, 2}, CfgRefused(pack) PROVE TypeOK'
  <2>1. dl' \in Downloads
    BY <1>0a DEF CfgRefused, Downloads
  <2> QED BY <1>0a, <2>1 DEF CfgRefused, flash
<1>1. ASSUME NEW img \in Images, CfgTooLarge(img) \/ CfgAccepted(img)
      PROVE  TypeOK'
  <2>1. dl' \in Downloads
    <3>1. ImgLen[img] \in Nat
      BY ImagesAssumption
    <3>2. CASE CfgTooLarge(img)
      BY <3>1, <3>2 DEF CfgTooLarge, Downloads
    <3>3. CASE CfgAccepted(img)
      BY <3>1, <3>3 DEF CfgAccepted, Downloads
    <3> QED BY <1>1, <3>2, <3>3
  <2> QED BY <1>1, <2>1 DEF CfgTooLarge, CfgAccepted, flash
<1>2. ASSUME NEW img \in Images, CfgHandedToLoader(img) PROVE TypeOK'
  <2>1. boot_cfg' \in BootCfg
    BY <1>2 DEF CfgHandedToLoader, BootCfg
  <2> QED BY <1>2, <2>1, ResetType
          DEF CfgHandedToLoader, AppCells, BackupCells
<1>3. ASSUME NEW img \in Images, NEW k \in 1..ImgLen[img], DataTaken(img, k)
      PROVE  TypeOK'
  <2> DEFINE data == [u \in {BlockAddr(k)} |-> BlockCell(img, k, u)]
             blank == flash_part_erase_len(DlPart, dl.erase, SectorUnits)
  <2>1. k \in Nat /\ BlockAddr(k) \in Int /\ dl.erase \in Nat
    <3>1. dl.pack \in {0, 1, 2} /\ dl.erase \in Nat /\ k \in Nat
      BY DEF Downloads
    <3>2. (k - 1) * dl.pack = IF dl.pack = 0 THEN 0
                              ELSE IF dl.pack = 1 THEN k - 1 ELSE k - 1 + k - 1
      BY <3>1
    <3> QED BY <3>1, <3>2 DEF BlockAddr
  <2>2. blank \in [0..DlUnits-1 -> Cell]
    <3>1. dl.erase \in Int /\ SectorUnits \in Int
      BY <2>1, Sizes
    <3>2. DlUnits \in Nat /\ DlPart \in [0..DlUnits-1 -> Cell]
      BY DlPartType
    <3> QED BY <3>1, <3>2, EraseType
  <2>3. \A u \in 0..DlUnits-1 :
           u \in BlockAddr(k)..(BlockAddr(k) + 1 - 1) => data[u] \in Cell
    BY <2>1 DEF BlockCell, Cell
  <2>4. flash_part_write(blank, BlockAddr(k), 1, data) \in [0..DlUnits-1 -> Cell]
    <3> HIDE DEF data, blank
    <3>1. DlUnits \in Nat
      BY DlPartType
    <3>2. BlockAddr(k) \in Int /\ 1 \in Int
      BY <2>1
    <3> HIDE DEF BlockAddr
    <3> QED BY <2>2, <2>3, <3>1, <3>2, WriteType
  <2>5. app' \in AppCells /\ backup' \in BackupCells
    BY <1>3, <2>4, SetDlPartType DEF DataTaken
  <2>6. dl' \in Downloads
    <3>1. \A e \in Nat : (IF e < DlUnits THEN e + SectorUnits ELSE e) \in Nat
      BY Sizes
    <3> QED BY <1>3, <2>1, <3>1 DEF DataTaken, Downloads
  <2> QED BY <1>3, <1>0, <2>5, <2>6
          DEF DataTaken, AppCells, BackupCells
<1>4. ASSUME NEW k, DataRepeated(k) PROVE TypeOK'
  BY <1>4 DEF DataRepeated, flash, ram
<1>5. CASE CheckRefused
  BY <1>5, <1>0 DEF CheckRefused, flash
<1>6. CASE CheckPassedInLoader
  <2>1. boot_cfg' \in BootCfg
    BY <1>6 DEF CheckPassedInLoader, BootCfg
  <2> QED BY <1>6, <1>0, <2>1 DEF CheckPassedInLoader
<1>7. CASE CheckPassedInApl
  BY <1>7, ResetType DEF CheckPassedInApl, flash, AppCells, BackupCells
<1> QED
  BY <1>0a, <1>1, <1>2, <1>3, <1>4, <1>5, <1>6, <1>7
  DEF Request, HandleCfg, HandleData, HandleCheck

(* Power failures. *)
LEMMA TypePowerFailure == TypeOK /\ PowerFailure /\ Watch => TypeOK'
<1> SUFFICES ASSUME TypeOK, PowerFailure, stale' \in BOOLEAN PROVE TypeOK'
  BY DEF Watch
<1> USE DEF AppCells, BackupCells
<1>0. /\ app \in AppCells
      /\ backup \in BackupCells
      /\ boot_cfg \in BootCfg
  BY DEF TypeOK
<1>1. CASE PowerLoss
  BY <1>0, <1>1, ResetType DEF PowerLoss, flash
<1>2. CASE PowerLossInCopy
  <2>1. app' \in AppCells
    BY <1>0, <1>2, Sizes, TornType DEF PowerLossInCopy
  <2> QED BY <1>0, <1>2, <2>1, ResetType DEF PowerLossInCopy
<1>3. CASE PowerLossInBreak
  <2>1. app' \in AppCells
    BY <1>0, <1>3, CopyingType, ErasedAheadType DEF PowerLossInBreak
  <2>2. backup' \in BackupCells
    BY <1>0, <1>3, Sizes, TornType DEF PowerLossInBreak
  <2> QED BY <1>0, <1>3, <2>1, <2>2, ResetType DEF PowerLossInBreak
<1>4. ASSUME NEW k, PowerLossInData(k) PROVE TypeOK'
  <2>1. app' \in AppCells /\ backup' \in BackupCells
    BY <1>4, DlPartType, TornType, SetDlPartType DEF PowerLossInData
  <2> QED BY <1>0, <1>4, <2>1, ResetType DEF PowerLossInData
<1>5. CASE PowerLossInSave
  BY <1>0, <1>5, ResetType DEF PowerLossInSave, BootCfg
<1> QED BY <1>1, <1>2, <1>3, <1>4, <1>5 DEF PowerFailure

(* Every state the board reaches is well formed. *)
THEOREM TypeCorrect == Spec => []TypeOK
<1>1. TypeOK /\ UNCHANGED vars => TypeOK'
  BY DEF TypeOK, vars
<1>2. TypeOK /\ [Next]_vars => TypeOK'
  BY <1>1, TypeRunFsm, TypeRequest, TypePowerFailure DEF Next
<1> QED BY TypeInit, <1>2, PTL DEF Spec
-----------------------------------------------------------------------------
(* The jump *)

(* What an event does to a settled or pending state, as far as jumping is  *)
(* concerned: only a timeout in CHECK and a finished update lead to        *)
(* GOTO_APL.                                                               *)
LEMMA OnlyTwoWaysToJump ==
    ASSUME NEW state, NEW event, Cond(state, event) = "goto_apl"
    PROVE  \/ state = "check" /\ event = "stat_timeout"
           \/ state = "update_apl" /\ event = "update_success"
BY DEF Cond

(* A request of the host never starts a jump.                              *)
LEMMA RequestsDoNotJump ==
    ASSUME TypeOK, NEW event \in {"recv_fw_data", "fw_dl_finish"},
           fsm' = Notify(event), UNCHANGED mode, AboutToJump'
    PROVE  AboutToJump
<1>1. Cond(fsm.cur, event) # "goto_apl"
  BY OnlyTwoWaysToJump
<1>2. fsm' = fsm \/ fsm' = [fsm EXCEPT !.next = Cond(fsm.cur, event),
                                       !.change = TRUE]
  BY DEF Notify, Emit
<1> QED BY <1>1, <1>2 DEF AboutToJump, TypeOK, FsmRecord

(* What was stored behind the loader's back is remembered up to the jump.  *)
LEMMA StaleUntilJump ==
    ASSUME Watch, AboutToJump' \/ mode' = "lost",
           stale \/ (Committed /\ dl'.recv > dl.recv)
    PROVE  stale'
BY DEF Watch, AboutToJump

LEMMA ResetJumps == ASSUME Reset PROVE JumpInv'
BY DEF Reset, Boot, JumpInv, NeverLost, AboutToJump

LEMMA JumpInit == Init => JumpInv
BY DEF Init, Boot, JumpInv, NeverLost, AboutToJump

LEMMA JumpRunFsm == TypeOK /\ JumpInv /\ RunFsm /\ Watch => JumpInv'
<1> SUFFICES ASSUME TypeOK, JumpInv, RunFsm, Watch PROVE JumpInv'
  OBVIOUS
<1>0. ASSUME mode' = "loader", ~AboutToJump' PROVE JumpInv'
  BY <1>0 DEF JumpInv, NeverLost
<1> USE DEF Emit, Settled, Cond, Entering, AboutToJump
<1>1. CASE EnterCheckBadCfg
  BY <1>0, <1>1 DEF EnterCheckBadCfg
<1>2. CASE EnterCheckBackupReady
  BY <1>0, <1>2 DEF EnterCheckBackupReady
<1>3. CASE EnterCheckUpgradeWanted
  BY <1>0, <1>3 DEF EnterCheckUpgradeWanted
<1>4. CASE EnterCheckAppBroken
  BY <1>0, <1>4 DEF EnterCheckAppBroken
<1>5. CASE \E late \in BOOLEAN : EnterCheckPassed(late)
  BY <1>5 DEF EnterCheckPassed, JumpInv, NeverLost, AppValid, flash
<1>6. CASE EnterWaiting
  BY <1>0, <1>6 DEF EnterWaiting
<1>7. CASE StateTimeout
  <2>1. /\ AboutToJump' => AboutToJump
        /\ mode' = "loader" /\ app' = app
    BY <1>7 DEF StateTimeout, Staying, flash, TypeOK, FsmRecord
  <2> HIDE DEF AboutToJump
  <2> QED BY <2>1, StaleUntilJump DEF JumpInv, NeverLost, AppValid
<1>8. CASE JumpToApl
  <2>1. /\ AboutToJump /\ ~AboutToJump'
        /\ mode' = IF AppValid THEN "apl" ELSE "lost"
    BY <1>8 DEF JumpToApl
  <2> HIDE DEF AboutToJump
  <2> QED BY <2>1, StaleUntilJump DEF JumpInv, NeverLost
<1>9. CASE DropTooLarge
  BY <1>0, <1>9 DEF DropTooLarge
<1>10. ASSUME NEW c \in Copying PROVE mode = "loader"
  BY DEF Copying, Staying
<1>11. ASSUME NEW c \in Copying, CopyStep(c) PROVE JumpInv'
  BY <1>0, <1>10, <1>11 DEF CopyStep
<1>12. ASSUME NEW c \in Copying, CopyVerified(c) PROVE JumpInv'
  <2>1. check_fw_part_data_valid(app')
    BY <1>12 DEF CopyVerified
  <2> QED BY <1>10, <1>12, <2>1 DEF CopyVerified, JumpInv, NeverLost, AppValid
<1>13. ASSUME NEW c \in Copying, CopyFailed(c) PROVE JumpInv'
  BY <1>0, <1>10, <1>13 DEF CopyFailed
<1> QED
  BY <1>1, <1>2, <1>3, <1>4, <1>5, <1>6, <1>7, <1>8, <1>9, <1>11, <1>12, <1>13
  DEF RunFsm, Install

(* A block reaches the application partition only where there is no backup; *)
(* if the loader has made up its mind by then, that is remembered.          *)
LEMMA JumpRequest == TypeOK /\ JumpInv /\ Request /\ Watch => JumpInv'
<1> SUFFICES ASSUME TypeOK, JumpInv, Request, Watch PROVE JumpInv'
  OBVIOUS
<1>0. ASSUME app' = app, mode' = mode, AboutToJump' => AboutToJump
      PROVE  JumpInv'
  BY <1>0, StaleUntilJump DEF JumpInv, NeverLost, AppValid
<1>1. ASSUME NEW img \in Images, NEW pack,
             CfgRefused(pack) \/ CfgTooLarge(img) \/ CfgAccepted(img)
      PROVE  JumpInv'
  <2>1. UNCHANGED <<app, mode, fsm>>
    BY <1>1 DEF CfgRefused, CfgTooLarge, CfgAccepted, flash
  <2> QED BY <1>0, <2>1 DEF AboutToJump
<1>2. ASSUME NEW img \in Images, CfgHandedToLoader(img) PROVE JumpInv'
  BY <1>2, ResetJumps DEF CfgHandedToLoader
<1>3. ASSUME NEW img \in Images, NEW k \in 1..ImgLen[img], DataTaken(img, k)
      PROVE  JumpInv'
  <2>1. AboutToJump' => AboutToJump
    BY <1>3, RequestsDoNotJump DEF DataTaken
  <2>2. CASE HasBackup
    BY <1>0, <1>3, <2>1, <2>2 DEF DataTaken, SetDlPart
  <2>3. CASE ~HasBackup
    <3>1. mode' = mode /\ Running /\ dl'.recv > dl.recv
      BY <1>3 DEF DataTaken, TypeOK, Downloads
    <3>2. AboutToJump => Committed
      BY <2>3 DEF Committed, AboutToJump
    <3>3. AboutToJump' => stale'
      BY <2>1, <3>1, <3>2, StaleUntilJump
    <3> QED BY <2>3, <3>1, <3>3 DEF JumpInv, NeverLost, Running
  <2> QED BY <2>2, <2>3
<1>4. ASSUME NEW k, DataRepeated(k) PROVE JumpInv'
  BY <1>0, <1>4 DEF DataRepeated, flash, ram, AboutToJump
<1>5. CASE CheckRefused
  BY <1>0, <1>5, RequestsDoNotJump DEF CheckRefused, flash
<1>6. CASE CheckPassedInLoader
  BY <1>0, <1>6, RequestsDoNotJump DEF CheckPassedInLoader
<1>7. CASE CheckPassedInApl
  BY <1>7, ResetJumps DEF CheckPassedInApl
<1> QED
  BY <1>1, <1>2, <1>3, <1>4, <1>5, <1>6, <1>7
  DEF Request, HandleCfg, HandleData, HandleCheck

LEMMA JumpPowerFailure == PowerFailure => JumpInv'
BY ResetJumps DEF PowerFailure, PowerLoss, PowerLossInCopy, PowerLossInBreak,
   PowerLossInData, PowerLossInSave

(* The processor only ever jumps to a complete image, whatever requests and *)
(* power failures come in between, on every board with a backup partition,  *)
(* and on one without unless a block was stored between the check and the   *)
(* jump.                                                                    *)
THEOREM JumpsToImagesOnly == Spec => []NeverLost
<1>1. JumpInv /\ UNCHANGED vars => JumpInv'
  BY DEF JumpInv, NeverLost, AboutToJump, AppValid, vars
<1>2. TypeOK /\ JumpInv /\ [Next]_vars => JumpInv'
  BY <1>1, JumpRunFsm, JumpRequest, JumpPowerFailure DEF Next
<1>3. JumpInv => NeverLost
  BY DEF JumpInv
<1> QED BY JumpInit, <1>2, <1>3, TypeCorrect, PTL DEF Spec
-----------------------------------------------------------------------------
(* The copy *)

(* Once a header is a valid image's, its length is known. *)
LEMMA HeldHeader ==
    ASSUME TypeOK, NEW img \in Images, Holds(backup, img)
    PROVE  HeaderLen(backup[0]) = {ImgLen[img]}
<1>1. 0 \in 0..(ImgLen[img] - 1)
  BY ImagesAssumption
<1>2. backup[0] = img
  BY <1>1 DEF Holds
<1> QED BY <1>2 DEF HeaderLen

(* A copy that starts, or goes on, is the copy of the image in the backup. *)
LEMMA CopyingImage ==
    ASSUME TypeOK, InstallInv, ~stale, NEW c \in Copying
    PROVE  HasBackup /\ \E img \in Images : CopyOf(c, img)
<1>1. CASE Entering("update_apl")
  <2>1. PICK img \in Images : HasBackup /\ Holds(backup, img)
    BY <1>1 DEF InstallInv, BackupValid, check_fw_part_data_valid
  <2>2. c = [erase |-> 0, prog |-> 0, size |-> ImgLen[img]]
        /\ ImgLen[img] <= AppUnits
    BY <1>1, <2>1, HeldHeader DEF Copying, AppLens
  <2>3. 0 \in 0..AppUnits /\ 0 = 0 * SectorUnits
    BY Sizes
  <2> QED BY <2>1, <2>2, <2>3, ImagesAssumption DEF CopyOf
<1>2. CASE ~Entering("update_apl")
  BY <1>2 DEF Copying, InstallInv
<1> QED BY <1>1, <1>2

(* Sectors fill the partition: one more always fits before its end. *)
LEMMA RoomForSector ==
    ASSUME NEW n \in 0..AppUnits, n * SectorUnits < AppUnits
    PROVE  /\ n + 1 \in 0..AppUnits
           /\ (n + 1) * SectorUnits = n * SectorUnits + SectorUnits
           /\ n * SectorUnits + SectorUnits <= AppUnits
<1>1. PICK m \in 1..AppUnits : AppUnits = m * SectorUnits
  BY SizesAssumption
<1>2. m \in Nat /\ n \in Nat /\ SectorUnits \in Nat /\ SectorUnits > 0
  BY Sizes
<1>3. n < m
  <2> SUFFICES ASSUME m <= n PROVE FALSE
    BY <1>2
  <2>1. m * SectorUnits <= n * SectorUnits
    BY <1>2
  <2> QED BY <1>1, <1>2, <2>1
<1>4. (n + 1) * SectorUnits = n * SectorUnits + SectorUnits
  BY <1>2
<1>5. (n + 1) * SectorUnits <= m * SectorUnits
  BY <1>2, <1>3
<1> QED BY <1>1, <1>2, <1>3, <1>4, <1>5

(* The step that erases ahead leaves the copied units alone, blanks those  *)
(* up to the new erase_addr, and that is far enough for one more chunk.    *)
LEMMA ErasedAheadCells ==
    ASSUME TypeOK, NEW c \in Copies, NEW img \in Images, CopyOf(c, img)
    PROVE  /\ ErasedAhead(c) \in AppCells
           /\ \A u \in 0..(c.prog - 1) : ErasedAhead(c)[u] = img
           /\ \A u \in c.prog..(NextErase(c) - 1) : ErasedAhead(c)[u] = Erased
           /\ NextErase(c) \in Nat /\ NextErase(c) <= AppUnits
           /\ \E n \in 0..AppUnits : NextErase(c) = n * SectorUnits
           /\ c.prog < c.size => c.prog + ChunkLen(c) <= NextErase(c)
<1> USE DEF Copies
<1>1. ErasedAhead(c) \in AppCells /\ NextErase(c) \in Nat
  BY ErasedAheadType
<1>2. PICK n \in 0..AppUnits : c.erase = n * SectorUnits
  BY DEF CopyOf
<1>3. app \in [0..AppUnits-1 -> Cell]
  BY DEF TypeOK
<1>4. CASE c.erase < AppUnits
  <2>1. /\ c.erase + SectorUnits <= AppUnits
        /\ n + 1 \in 0..AppUnits
        /\ NextErase(c) = c.erase + SectorUnits
        /\ NextErase(c) = (n + 1) * SectorUnits
    BY <1>2, <1>4, RoomForSector DEF NextErase
  <2>2. ErasedAhead(c) = [u \in 0..AppUnits-1 |->
            IF u \in c.erase..(c.erase + SectorUnits - 1) THEN Erased ELSE app[u]]
    <3>1. Fits(app, c.erase, SectorUnits)
      BY <1>3, <2>1, Sizes DEF Fits
    <3> QED BY <1>3, <3>1 DEF ErasedAhead, flash_part_erase_len
  <2>3. \A u \in 0..(c.prog - 1) : ErasedAhead(c)[u] = img
    BY <2>2, Sizes DEF CopyOf
  <2>4. \A u \in c.prog..(NextErase(c) - 1) : ErasedAhead(c)[u] = Erased
    BY <2>1, <2>2, Sizes DEF CopyOf
  <2>5. c.prog + ChunkLen(c) <= NextErase(c)
    BY <2>1, Sizes DEF CopyOf, ChunkLen
  <2> QED BY <1>1, <2>1, <2>3, <2>4, <2>5
<1>5. CASE ~(c.erase < AppUnits)
  <2>1. c.erase = AppUnits /\ NextErase(c) = c.erase
    BY <1>5, Sizes DEF CopyOf, NextErase
  <2>2. ErasedAhead(c) = app
    <3>1. ~Fits(app, c.erase, SectorUnits)
      BY <1>3, <2>1, Sizes DEF Fits
    <3> QED BY <3>1 DEF ErasedAhead, flash_part_erase_len
  <2>3. c.prog < c.size => c.prog + ChunkLen(c) <= NextErase(c)
    BY <2>1, Sizes DEF CopyOf, ChunkLen
  <2>4. NextErase(c) <= AppUnits
    BY <2>1, Sizes
  <2> QED BY <1>1, <1>2, <2>1, <2>2, <2>3, <2>4 DEF CopyOf
<1> QED BY <1>4, <1>5, Sizes

(* At the end of the copy the partition holds the image, so the check that *)
(* follows succeeds.                                                       *)
LEMMA FinishedCopyIsGood ==
    ASSUME TypeOK, InstallInv, ~stale, NEW c \in Copying, c.prog >= c.size
    PROVE  check_fw_part_data_valid(ErasedAhead(c))
<1>1. PICK img \in Images : CopyOf(c, img)
  BY CopyingImage
<1>2. c \in Copies
  BY CopyingType
<1>3. c.prog = ImgLen[img] /\ c.prog <= AppUnits
  BY <1>1, <1>2 DEF CopyOf, Copies
<1>4. /\ DOMAIN ErasedAhead(c) = 0..AppUnits-1
      /\ \A u \in 0..(c.prog - 1) : ErasedAhead(c)[u] = img
  BY <1>1, <1>2, ErasedAheadCells DEF AppCells
<1>5. Holds(ErasedAhead(c), img)
  BY <1>3, <1>4, Sizes, ImagesAssumption DEF Holds
<1> QED BY <1>5 DEF check_fw_part_data_valid

(* One chunk further, the copy is still the copy of the same image. *)
LEMMA CopyStepKeepsCopy ==
    ASSUME TypeOK, NEW c \in Copies, NEW img \in Images, CopyOf(c, img),
           CopyStep(c)
    PROVE  CopyOf(copy, img)'
<1> USE DEF Copies
<1> DEFINE end == c.prog + ChunkLen(c)
<1>1. /\ ErasedAhead(c) \in [0..AppUnits-1 -> Cell]
      /\ \A u \in 0..(c.prog - 1) : ErasedAhead(c)[u] = img
      /\ \A u \in c.prog..(NextErase(c) - 1) : ErasedAhead(c)[u] = Erased
      /\ NextErase(c) \in Nat /\ NextErase(c) <= AppUnits
      /\ \E n \in 0..AppUnits : NextErase(c) = n * SectorUnits
      /\ end <= NextErase(c)
  BY ErasedAheadCells DEF CopyStep, AppCells
<1>2. /\ ChunkLen(c) \in Nat /\ ChunkLen(c) > 0
      /\ end \in Nat /\ end <= c.size /\ c.size <= AppUnits
  BY Sizes DEF CopyStep, ChunkLen, CopyOf
<1>3. \A u \in c.prog..(end - 1) : backup[u] = img
  BY <1>2 DEF CopyOf, Holds
<1>4. \A u \in 0..(AppUnits - 1) :
         app'[u] = IF u \in c.prog..(c.prog + ChunkLen(c) - 1)
                   THEN Program(ErasedAhead(c)[u], backup[u])
                   ELSE ErasedAhead(c)[u]
  <2>1. Fits(ErasedAhead(c), c.prog, ChunkLen(c))
    BY <1>1, <1>2, Sizes DEF Fits
  <2>2. DOMAIN ErasedAhead(c) = 0..AppUnits-1
    BY <1>1
  <2>3. app' = flash_part_write(ErasedAhead(c), c.prog, ChunkLen(c), backup)
    BY DEF CopyStep
  <2>4. app' = [u \in DOMAIN ErasedAhead(c) |->
                  IF u \in c.prog..(c.prog + ChunkLen(c) - 1)
                  THEN Program(ErasedAhead(c)[u], backup[u])
                  ELSE ErasedAhead(c)[u]]
    BY <2>1, <2>3 DEF flash_part_write
  <2> QED BY <2>2, <2>4
<1>5. copy' = [erase |-> NextErase(c), prog |-> end, size |-> c.size]
  BY DEF CopyStep
<1>6. \A u \in 0..(end - 1) : app'[u] = img
  BY <1>1, <1>2, <1>3, <1>4, Sizes DEF Program
<1>7. \A u \in end..(NextErase(c) - 1) : app'[u] = Erased
  BY <1>1, <1>2, <1>4, Sizes
<1>8. Holds(backup, img)' /\ c.size = ImgLen[img]
  BY DEF CopyOf, CopyStep, Holds
<1> QED BY <1>1, <1>2, <1>5, <1>6, <1>7, <1>8 DEF CopyOf

(* Which states an event leads to an installation from: CHECK only. *)
LEMMA OnlyOneWayToInstall ==
    ASSUME NEW state, NEW event, Cond(state, event) = "update_apl"
    PROVE  state = "check" /\ event = "backup_fw_ready"
BY DEF Cond

LEMMA RequestsDoNotInstall ==
    ASSUME TypeOK, NEW event \in {"recv_fw_data", "fw_dl_finish"},
           fsm' = Notify(event), UNCHANGED mode
    PROVE  /\ Entering("update_apl")' => Entering("update_apl")
           /\ Staying("update_apl")' => Staying("update_apl")
<1>1. Cond(fsm.cur, event) # "update_apl"
  BY OnlyOneWayToInstall
<1>2. fsm' = fsm \/ fsm' = [fsm EXCEPT !.next = Cond(fsm.cur, event),
                                       !.change = TRUE]
  BY DEF Notify, Emit
<1> QED BY <1>1, <1>2 DEF Entering, Staying, TypeOK, FsmRecord

(* Nothing is installed after a step that leaves another state behind. *)
LEMMA NotInstalling ==
    ASSUME ~Entering("update_apl")', ~Staying("update_apl")'
    PROVE  InstallInv'
BY DEF InstallInv

LEMMA ResetInstalls == ASSUME Reset PROVE InstallInv'
BY NotInstalling DEF Reset, Boot, Entering, Staying

(* What was stored behind the loader's back is remembered while it installs *)
LEMMA StaleWhileInstalling ==
    ASSUME Watch, Entering("update_apl")' \/ Staying("update_apl")', ~stale'
    PROVE  ~stale /\ ~(Committed /\ dl'.recv > dl.recv)
BY DEF Watch, Entering, Staying

(* The invariant speaks of the flash and of the copy only. *)
LEMMA InstallFrame ==
    ASSUME InstallInv, UNCHANGED <<app, backup, copy>>,
           UNCHANGED stale \/ Watch,
           Entering("update_apl")' => Entering("update_apl"),
           Staying("update_apl")' => Staying("update_apl")
    PROVE  InstallInv'
<1>1. /\ Entering("update_apl")' /\ ~stale' => BackupValid
      /\ Staying("update_apl")' /\ ~stale' =>
            HasBackup /\ \E img \in Images : CopyOf(copy, img)
  BY StaleWhileInstalling DEF InstallInv
<1> QED BY <1>1 DEF InstallInv, BackupValid, CopyOf

LEMMA InstallInit == Init => InstallInv
BY DEF Init, Boot, InstallInv, Entering, Staying

LEMMA InstallRunFsm == TypeOK /\ InstallInv /\ RunFsm /\ Watch => InstallInv'
<1> SUFFICES ASSUME TypeOK, InstallInv, RunFsm, Watch PROVE InstallInv'
  OBVIOUS
<1> USE DEF Entering, Staying, Emit, Settled, Cond
<1>1. CASE EnterCheckBadCfg
  BY <1>1, NotInstalling DEF EnterCheckBadCfg
<1>2. CASE EnterCheckBackupReady
  BY <1>2 DEF EnterCheckBackupReady, InstallInv, BackupValid, flash
<1>3. CASE EnterCheckUpgradeWanted
  BY <1>3, NotInstalling DEF EnterCheckUpgradeWanted
<1>4. CASE EnterCheckAppBroken
  BY <1>4, NotInstalling DEF EnterCheckAppBroken
<1>5. CASE \E late \in BOOLEAN : EnterCheckPassed(late)
  BY <1>5, NotInstalling DEF EnterCheckPassed
<1>6. CASE EnterWaiting
  BY <1>6, NotInstalling DEF EnterWaiting
<1>7. CASE StateTimeout
  <2>1. ~Entering("update_apl")' /\ ~Staying("update_apl")'
    BY <1>7 DEF StateTimeout, TypeOK, FsmRecord
  <2> QED BY <2>1, NotInstalling
<1>8. CASE JumpToApl
  BY <1>8, NotInstalling DEF JumpToApl
<1>9. CASE DropTooLarge
  BY <1>9, NotInstalling DEF DropTooLarge
<1>10. ASSUME NEW c \in Copying, CopyStep(c) PROVE InstallInv'
  <2>1. ~Entering("update_apl")'
    BY <1>10 DEF CopyStep
  <2>2. ASSUME Staying("update_apl")', ~stale'
        PROVE  HasBackup /\ \E img \in Images : CopyOf(copy, img)'
    <3>1. ~stale
      BY <2>2, StaleWhileInstalling
    <3>2. HasBackup /\ \E img \in Images : CopyOf(c, img)
      BY <3>1, CopyingImage
    <3> QED BY <1>10, <3>2, CopyingType, CopyStepKeepsCopy
  <2> QED BY <2>1, <2>2 DEF InstallInv
<1>11. ASSUME NEW c \in Copying, CopyVerified(c) PROVE InstallInv'
  BY <1>11, NotInstalling DEF CopyVerified
<1>12. ASSUME NEW c \in Copying, CopyFailed(c) PROVE InstallInv'
  BY <1>12, NotInstalling DEF CopyFailed
<1> QED
  BY <1>1, <1>2, <1>3, <1>4, <1>5, <1>6, <1>7, <1>8, <1>9, <1>10, <1>11, <1>12
  DEF RunFsm, Install

LEMMA InstallRequest == TypeOK /\ InstallInv /\ Request /\ Watch => InstallInv'
<1> SUFFICES ASSUME TypeOK, InstallInv, Request, Watch PROVE InstallInv'
  OBVIOUS
<1>1. ASSUME NEW img \in Images, NEW pack,
             CfgRefused(pack) \/ CfgTooLarge(img) \/ CfgAccepted(img)
      PROVE  InstallInv'
  BY <1>1, InstallFrame
     DEF CfgRefused, CfgTooLarge, CfgAccepted, flash, Entering, Staying
<1>2. ASSUME NEW img \in Images, CfgHandedToLoader(img) PROVE InstallInv'
  BY <1>2, ResetInstalls DEF CfgHandedToLoader
<1>3. ASSUME NEW img \in Images, NEW k \in 1..ImgLen[img], DataTaken(img, k)
      PROVE  InstallInv'
  <2>1. /\ Entering("update_apl")' => Entering("update_apl")
        /\ Staying("update_apl")' => Staying("update_apl")
    BY <1>3, RequestsDoNotInstall DEF DataTaken
  <2>2. CASE HasBackup
    <3>1. dl'.recv > dl.recv
      BY <1>3 DEF DataTaken, TypeOK, Downloads
    <3>2. Entering("update_apl") \/ Staying("update_apl") => Committed
      BY <2>2 DEF Committed, Entering, Staying
    <3>3. Entering("update_apl")' \/ Staying("update_apl")' => stale'
      BY <2>1, <3>1, <3>2, StaleWhileInstalling
    <3> QED BY <3>3 DEF InstallInv
  <2>3. CASE ~HasBackup
    <3>1. Entering("update_apl") \/ Staying("update_apl") => stale
      BY <2>3 DEF InstallInv, BackupValid
    <3>2. Entering("update_apl")' \/ Staying("update_apl")' => stale'
      BY <2>1, <3>1, StaleWhileInstalling
    <3> QED BY <3>2 DEF InstallInv
  <2> QED BY <2>2, <2>3
<1>4. ASSUME NEW k, DataRepeated(k) PROVE InstallInv'
  BY <1>4, InstallFrame DEF DataRepeated, flash, ram, Entering, Staying
<1>5. CASE CheckRefused
  BY <1>5, InstallFrame, RequestsDoNotInstall DEF CheckRefused, flash
<1>6. CASE CheckPassedInLoader
  BY <1>6, InstallFrame, RequestsDoNotInstall DEF CheckPassedInLoader
<1>7. CASE CheckPassedInApl
  BY <1>7, ResetInstalls DEF CheckPassedInApl
<1> QED
  BY <1>1, <1>2, <1>3, <1>4, <1>5, <1>6, <1>7
  DEF Request, HandleCfg, HandleData, HandleCheck

LEMMA InstallPowerFailure == PowerFailure => InstallInv'
BY ResetInstalls DEF PowerFailure, PowerLoss, PowerLossInCopy,
   PowerLossInBreak, PowerLossInData, PowerLossInSave

(* An installation always has its image behind it and blank flash before   *)
(* it, whatever requests and power failures come in between, unless a      *)
(* block was stored in the backup since the loader checked it.             *)
THEOREM InstallInvariant == Spec => []InstallInv
<1>1. InstallInv /\ UNCHANGED vars => InstallInv'
  BY InstallFrame DEF vars, Entering, Staying
<1>2. TypeOK /\ InstallInv /\ [Next]_vars => InstallInv'
  BY <1>1, InstallRunFsm, InstallRequest, InstallPowerFailure DEF Next
<1> QED BY InstallInit, <1>2, TypeCorrect, PTL DEF Spec

(* No copy ever fails its final check, unless a block was stored in the    *)
(* backup since the loader checked it.                                     *)
THEOREM CopyNeverFails == Spec => CopySucceeds
<1>1. TypeOK /\ InstallInv
        => [~stale => ~\E c \in Copying : CopyFailed(c)]_vars
  BY FinishedCopyIsGood DEF CopyFailed
<1> QED BY <1>1, InstallInvariant, TypeCorrect, PTL DEF CopySucceeds
-----------------------------------------------------------------------------
(* The last image *)

(* What is being copied could be installed again. *)
LEMMA CopyingIsInstallable ==
    ASSUME TypeOK, InstallInv, ~stale, NEW c \in Copying
    PROVE  HasBackup /\ Installable
BY CopyingImage DEF CopyOf, Installable

(* A backup that is dropped for its size held nothing installable. *)
LEMMA DroppedIsNotInstallable ==
    ASSUME TypeOK, InstallInv, Entering("update_apl"), BigLens # {}
    PROVE  ~Installable
<1> SUFFICES ASSUME NEW img \in Images, ImgLen[img] <= AppUnits,
                    Holds(backup, img)
             PROVE  FALSE
  BY DEF Installable
<1>1. HeaderLen(backup[0]) = {ImgLen[img]}
  BY HeldHeader
<1> QED BY <1>1 DEF BigLens, AppLens

LEMMA RunFsmKeepsAnImage ==
    TypeOK /\ InstallInv /\ ~stale /\ RunFsm => (Loadable => Loadable')
<1> SUFFICES ASSUME TypeOK, InstallInv, ~stale, RunFsm, Loadable
             PROVE  Loadable'
  OBVIOUS
<1>1. CASE UNCHANGED <<app, backup>>
  BY <1>1 DEF Loadable, AppValid, Installable
<1>2. CASE DropTooLarge
  BY <1>2, DroppedIsNotInstallable DEF DropTooLarge, Loadable, AppValid
<1>3. ASSUME NEW c \in Copying, CopyStep(c) PROVE Loadable'
  BY <1>3, CopyingIsInstallable DEF CopyStep, Loadable, Installable
<1>4. ASSUME NEW c \in Copying, CopyVerified(c) PROVE Loadable'
  BY <1>4 DEF CopyVerified, Loadable, AppValid
<1>5. ASSUME NEW c \in Copying, CopyFailed(c) PROVE Loadable'
  BY <1>5, FinishedCopyIsGood DEF CopyFailed
<1> QED
  BY <1>1, <1>2, <1>3, <1>4, <1>5
  DEF RunFsm, Install, EnterCheckBadCfg, EnterCheckBackupReady,
      EnterCheckUpgradeWanted, EnterCheckAppBroken, EnterCheckPassed,
      EnterWaiting, StateTimeout, JumpToApl, flash

LEMMA PowerLossKeepsAnImage ==
    ASSUME TypeOK, InstallInv, ~stale, Loadable,
           PowerLoss \/ PowerLossInCopy \/ PowerLossInBreak \/ PowerLossInSave
    PROVE  Loadable'
<1>1. CASE PowerLoss \/ PowerLossInSave
  BY <1>1 DEF PowerLoss, PowerLossInSave, flash, Loadable, AppValid,
     Installable
<1>2. CASE PowerLossInCopy
  BY <1>2, CopyingIsInstallable DEF PowerLossInCopy, Loadable, Installable
<1>3. CASE PowerLossInBreak
  BY <1>3, DroppedIsNotInstallable DEF PowerLossInBreak, Loadable, AppValid
<1> QED BY <1>1, <1>2, <1>3

(* Neither the state machine nor a power failure outside a download takes  *)
(* away the last image that could run, unless a block was stored in the    *)
(* backup since the loader checked it and the loader goes on all the same. *)
THEOREM LastImageIsKept == Spec => LastImageSurvives
<1>1. TypeOK /\ InstallInv => [LosesLast => stale \/ ~OnItsOwn]_vars
  BY RunFsmKeepsAnImage, PowerLossKeepsAnImage DEF LosesLast, OnItsOwn
<1> QED BY <1>1, InstallInvariant, TypeCorrect, PTL
        DEF Spec, LastImageSurvives
-----------------------------------------------------------------------------
(* The session *)

LEMMA ImageFacts ==
    /\ NoSum \notin Images
    /\ \A i \in Images : ImgLen[i] \in Nat /\ ImgLen[i] > 0
BY ImagesAssumption
-----------------------------------------------------------------------------
(* Types of the session *)

LEMMA HostFrameType ==
    ASSUME SessionTypeOK, Busy
    PROVE  HostFrame \in Frames
BY DEF SessionTypeOK, Busy, HostFrame, Frames

Host == [phase : Phases, img : Images, block : Nat, steady : BOOLEAN]

(* What an answer does to the host. *)
LEMMA AdvanceIs ==
    ASSUME NEW answer, host \in Host
    PROVE  /\ Advance(answer) \in Host
           /\ Advance(answer).img = host.img
           /\ \/ Advance(answer) = host
              \/ /\ host.phase = "cfg" /\ answer.cmd = "cfg"
                 /\ \/ /\ answer.sta = "ok"
                       /\ Advance(answer).phase = "data"
                    \/ Advance(answer).phase = "refused"
                 /\ Advance(answer).block = host.block
              \/ /\ host.phase = "data"
                 /\ answer = [cmd |-> "data", block |-> host.block]
                 /\ \/ /\ Advance(answer).phase = "check"
                       /\ Advance(answer).block = host.block
                    \/ /\ host.block # ImgLen[host.img]
                       /\ Advance(answer).phase = "data"
                       /\ Advance(answer).block = host.block + 1
              \/ /\ host.phase = "check" /\ answer.cmd = "check"
                 /\ Advance(answer).phase \in {"done", "refused"}
                 /\ Advance(answer).block = host.block
<1> USE DEF Host, Phases
<1>1. CASE host.phase = "cfg" /\ answer.cmd = "cfg"
  BY <1>1 DEF Advance
<1>2. CASE host.phase = "data"
           /\ answer = [cmd |-> "data", block |-> host.block]
  BY <1>2 DEF Advance
<1>3. CASE host.phase = "check" /\ answer.cmd = "check"
  BY <1>3 DEF Advance
<1>4. CASE /\ ~(host.phase = "cfg" /\ answer.cmd = "cfg")
           /\ ~(host.phase = "data"
                /\ answer = [cmd |-> "data", block |-> host.block])
           /\ ~(host.phase = "check" /\ answer.cmd = "check")
  BY <1>4 DEF Advance
<1> QED BY <1>1, <1>2, <1>3, <1>4

(* Sequences at their two ends. *)
LEMMA EndsOfSeq ==
    ASSUME NEW S, NEW s \in Seq(S)
    PROVE  /\ Len(s) \in Nat
           /\ \A e \in S : /\ Append(s, e) \in Seq(S)
                           /\ Len(Append(s, e)) = Len(s) + 1
                           /\ Append(s, e)[Len(s) + 1] = e
                           /\ \A i \in 1..Len(s) : Append(s, e)[i] = s[i]
           /\ s # <<>> => /\ Head(s) \in S /\ Head(s) = s[1]
                          /\ Tail(s) \in Seq(S)
                          /\ Len(s) > 0 /\ Len(Tail(s)) = Len(s) - 1
                          /\ \A i \in 1..(Len(s) - 1) : Tail(s)[i] = s[i + 1]
OBVIOUS

(* What serving a request puts on the way back: an answer to it, if there  *)
(* is room. *)
Answered(frame, answer) ==
    \/ /\ frame.cmd = "cfg" /\ answer.cmd = "cfg"
       /\ answer = [cmd |-> "cfg", sta |-> answer.sta]
       /\ answer.sta \in {"ok", "too_large"}
    \/ /\ frame.cmd = "data"
       /\ answer = [cmd |-> "data", block |-> frame.block]
    \/ /\ frame.cmd = "check" /\ answer.cmd = "check"
       /\ answer = [cmd |-> "check", sta |-> answer.sta]
       /\ answer.sta \in {"ok", "check_err"}

LEMMA ServeAnswers ==
    ASSUME SessionTypeOK, Serve
    PROVE  /\ req # <<>> /\ req' = Tail(req) /\ UNCHANGED host
           /\ Head(req) \in Frames
           /\ \/ UNCHANGED rep
              \/ \E answer \in Answers : /\ Answered(Head(req), answer)
                                         /\ Len(rep) < LinkRoom
                                         /\ rep' = Append(rep, answer)
<1>1. req # <<>> /\ req' = Tail(req) /\ UNCHANGED host /\ Head(req) \in Frames
  BY EndsOfSeq DEF Serve, SessionTypeOK
<1>2. CASE ServeCfg(Head(req))
  <2> DEFINE ok == [cmd |-> "cfg", sta |-> "ok"]
             large == [cmd |-> "cfg", sta |-> "too_large"]
  <2>1. /\ ok \in Answers /\ large \in Answers
        /\ Head(req).cmd = "cfg"
    BY <1>2 DEF ServeCfg, Answers
  <2>2. Answered(Head(req), ok) /\ Answered(Head(req), large)
    BY <2>1 DEF Answered
  <2>3. UNCHANGED rep \/ AnswerWith(ok) \/ AnswerWith(large)
    BY <1>2 DEF ServeCfg
  <2> QED BY <1>1, <2>1, <2>2, <2>3 DEF AnswerWith
<1>3. CASE ServeData(Head(req))
  <2> DEFINE a == [cmd |-> "data", block |-> Head(req).block]
  <2>1. Head(req).cmd = "data" /\ AnswerWith(a)
    BY <1>3 DEF ServeData
  <2>2. a \in Answers
    BY <1>1, <2>1 DEF Answers, Frames
  <2>3. Answered(Head(req), a)
    BY <2>1 DEF Answered
  <2> QED BY <1>1, <2>1, <2>2, <2>3 DEF AnswerWith
<1>4. CASE ServeCheck(Head(req))
  <2> DEFINE ok == [cmd |-> "check", sta |-> "ok"]
             err == [cmd |-> "check", sta |-> "check_err"]
  <2>1. /\ ok \in Answers /\ err \in Answers
        /\ Head(req).cmd = "check"
    BY <1>4 DEF ServeCheck, Answers
  <2>2. Answered(Head(req), ok) /\ Answered(Head(req), err)
    BY <2>1 DEF Answered
  <2>3. AnswerWith(ok) \/ AnswerWith(err)
    BY <1>4 DEF ServeCheck
  <2> QED BY <1>1, <2>1, <2>2, <2>3 DEF AnswerWith
<1> QED BY <1>2, <1>3, <1>4 DEF Serve

LEMMA SessionTypeInit == SessionInit => SessionTypeOK
BY LinkAssumption DEF SessionInit, SessionTypeOK, Phases

LEMMA SessionTypeStep ==
    SessionTypeOK /\ [SessionNext]_sessions => SessionTypeOK'
<1> SUFFICES ASSUME SessionTypeOK, [SessionNext]_sessions PROVE SessionTypeOK'
  OBVIOUS
<1>0. /\ host \in Host
      /\ req \in Seq(Frames) /\ Len(req) <= LinkRoom
      /\ rep \in Seq(Answers) /\ Len(rep) <= LinkRoom
      /\ LinkRoom \in Nat
  BY LinkAssumption DEF SessionTypeOK, Host
<1> SUFFICES /\ host' \in Host
             /\ req' \in Seq(Frames) /\ Len(req') <= LinkRoom
             /\ rep' \in Seq(Answers) /\ Len(rep') <= LinkRoom
  BY DEF SessionTypeOK, Host
<1>1. CASE UNCHANGED sessions \/ RunBoard
  BY <1>0, <1>1 DEF sessions, link, RunBoard
<1>2. ASSUME NEW img \in Images, HostBegin(img) PROVE
         /\ host' \in Host /\ UNCHANGED <<req, rep>>
  BY <1>2 DEF HostBegin, Host, Phases
<1>3. CASE HostSend
  <2>1. HostFrame \in Frames
    BY <1>3, HostFrameType DEF HostSend
  <2> QED BY <1>0, <1>3, <2>1, EndsOfSeq DEF HostSend
<1>4. CASE HostReceive
  BY <1>0, <1>4, AdvanceIs, EndsOfSeq DEF HostReceive
<1>5. CASE Serve
  <2>1. req # <<>> /\ req' = Tail(req) /\ UNCHANGED host
    BY <1>5, ServeAnswers
  <2>2. \/ UNCHANGED rep
        \/ \E a \in Answers : Len(rep) < LinkRoom /\ rep' = Append(rep, a)
    BY <1>5, ServeAnswers
  <2>3. rep' \in Seq(Answers) /\ Len(rep') <= LinkRoom
    BY <1>0, <2>2, EndsOfSeq, SMTT(20)
  <2>4. req' \in Seq(Frames) /\ Len(req') <= LinkRoom
    BY <1>0, <2>1, EndsOfSeq
  <2> QED BY <1>0, <2>1, <2>3, <2>4
<1>6. CASE BoardFails
  <2>1. host' \in Host
    BY <1>0, <1>6 DEF BoardFails, Host
  <2>2. UNCHANGED rep
    BY <1>6 DEF BoardFails
  <2>3. req' = req \/ (req # <<>> /\ req' = Tail(req))
    BY <1>6, Zenon DEF BoardFails
  <2>4. CASE req' = req
    BY <1>0, <2>1, <2>2, <2>4
  <2>5. CASE req # <<>> /\ req' = Tail(req)
    <3>1. req' \in Seq(Frames) /\ Len(req') <= LinkRoom
      BY <1>0, <2>5, EndsOfSeq
    <3> QED BY <1>0, <2>1, <2>2, <3>1
  <2> QED BY <2>3, <2>4, <2>5
<1>7. CASE LoseRequest
  BY <1>0, <1>7, EndsOfSeq DEF LoseRequest
<1>8. CASE LoseAnswer
  BY <1>0, <1>8, EndsOfSeq DEF LoseAnswer
<1> QED BY <1>0, <1>1, <1>2, <1>3, <1>4, <1>5, <1>6, <1>7, <1>8
        DEF SessionNext

(* The session's own state keeps its type. *)
THEOREM SessionTypeCorrect == SessionSpec => []SessionTypeOK
BY SessionTypeInit, SessionTypeStep, PTL DEF SessionSpec
-----------------------------------------------------------------------------
(* The frames under way *)

(* The host has had a block answered, or the answer is on its way. *)
Moved ==
    \/ host.block > 1
    \/ host.phase = "check"
    \/ \E i \in 1..Len(rep) : rep[i].cmd = "data"

(* Frames belong to the session and carry blocks the host got to; a        *)
(* repeated configuration is never behind a block, so that none is left    *)
(* once a block was answered.                                              *)
GoodFrame(f) ==
    /\ f.cmd = "cfg" => f.img = host.img
    /\ f.cmd = "data" => f.img = host.img /\ f.block \in 1..host.block
HostInv ==
    /\ host.block \in 1..ImgLen[host.img]
    /\ \A i \in 1..Len(req) : GoodFrame(req[i])
    /\ \A i, j \in 1..Len(req) :
          i < j /\ req[j].cmd = "cfg" => req[i].cmd = "cfg"
    /\ host.phase = "cfg" => /\ ~Moved
                             /\ \A i \in 1..Len(req) : req[i].cmd = "cfg"
    /\ Moved => \A i \in 1..Len(req) : req[i].cmd # "cfg"

LEMMA HostInit == SessionInit => HostInv
BY ImageFacts DEF SessionInit, HostInv, Moved

(* A frame that is taken off the link leaves the others as they were. *)
LEMMA RequestGone ==
    ASSUME SessionTypeOK, HostInv, req # <<>>, req' = Tail(req),
           host'.phase = host.phase, host'.img = host.img,
           host'.block = host.block, Moved' => Moved
    PROVE  HostInv'
<1>1. /\ Len(req) \in Nat /\ Len(req') = Len(req) - 1
      /\ \A i \in 1..Len(req') : req'[i] = req[i + 1]
                                 /\ i + 1 \in 1..Len(req)
  BY EndsOfSeq DEF SessionTypeOK
<1>2. \A i \in 1..Len(req') : GoodFrame(req[i + 1])
  BY <1>1 DEF HostInv
<1>3. \A i \in 1..Len(req') : GoodFrame(req[i])'
  BY <1>1, <1>2 DEF GoodFrame
<1>4. \A i, j \in 1..Len(req') :
         i < j /\ req'[j].cmd = "cfg" => req'[i].cmd = "cfg"
  <2> SUFFICES ASSUME NEW i \in 1..Len(req'), NEW j \in 1..Len(req'),
                      i < j, req'[j].cmd = "cfg"
               PROVE  req'[i].cmd = "cfg"
    OBVIOUS
  <2>1. i + 1 \in 1..Len(req) /\ j + 1 \in 1..Len(req) /\ i + 1 < j + 1
    BY <1>1
  <2>2. req[j + 1].cmd = "cfg" => req[i + 1].cmd = "cfg"
    BY <2>1 DEF HostInv
  <2> QED BY <1>1, <2>2
<1>5. /\ host.phase = "cfg" => \A i \in 1..Len(req') : req'[i].cmd = "cfg"
      /\ Moved => \A i \in 1..Len(req') : req'[i].cmd # "cfg"
  BY <1>1 DEF HostInv
<1> QED BY <1>3, <1>4, <1>5 DEF HostInv

LEMMA SendKeeps == SessionTypeOK /\ HostInv /\ HostSend => HostInv'
<1> SUFFICES ASSUME SessionTypeOK, HostInv, HostSend PROVE HostInv'
  OBVIOUS
<1> DEFINE n == Len(req)
<1>1. HostFrame \in Frames /\ Busy
  BY HostFrameType DEF HostSend
<1>2. /\ n \in Nat /\ Len(req') = n + 1 /\ req'[n + 1] = HostFrame
      /\ \A i \in 1..n : req'[i] = req[i]
      /\ UNCHANGED <<host, rep>>
  BY <1>1, EndsOfSeq DEF HostSend, SessionTypeOK
<1> HIDE DEF n
<1>3. HostFrame.cmd = host.phase /\ GoodFrame(HostFrame)
  BY <1>1 DEF HostFrame, Busy, GoodFrame, HostInv
<1>4. Moved' <=> Moved
  BY <1>2 DEF Moved
<1>5. \A i \in 1..Len(req') : GoodFrame(req[i])'
  <2> SUFFICES ASSUME NEW i \in 1..Len(req') PROVE GoodFrame(req[i])'
    OBVIOUS
  <2>1. CASE i = n + 1
    BY <1>2, <1>3, <2>1 DEF GoodFrame
  <2>2. CASE i # n + 1
    <3>1. i \in 1..n
      BY <1>2, <2>2
    <3>2. GoodFrame(req[i])
      BY <3>1 DEF HostInv, n
    <3> QED BY <1>2, <3>1, <3>2 DEF GoodFrame
  <2> QED BY <2>1, <2>2
<1>6. \A i, j \in 1..Len(req') :
         i < j /\ req'[j].cmd = "cfg" => req'[i].cmd = "cfg"
  <2> SUFFICES ASSUME NEW i \in 1..Len(req'), NEW j \in 1..Len(req'),
                      i < j, req'[j].cmd = "cfg"
               PROVE  req'[i].cmd = "cfg"
    OBVIOUS
  <2>1. i \in 1..n
    BY <1>2
  <2>2. CASE j = n + 1
    BY <1>2, <1>3, <2>1, <2>2 DEF HostInv, n
  <2>3. CASE j # n + 1
    <3>1. j \in 1..n
      BY <1>2, <2>3
    <3> QED BY <1>2, <2>1, <3>1 DEF HostInv, n
  <2> QED BY <2>2, <2>3
<1>7. host.phase = "cfg" => \A i \in 1..Len(req') : req'[i].cmd = "cfg"
  BY <1>2, <1>3 DEF HostInv, n
<1>8. Moved => \A i \in 1..Len(req') : req'[i].cmd # "cfg"
  BY <1>2, <1>3 DEF HostInv, n
<1> QED BY <1>2, <1>4, <1>5, <1>6, <1>7, <1>8 DEF HostInv

LEMMA ReceiveKeeps == SessionTypeOK /\ HostInv /\ HostReceive => HostInv'
<1> SUFFICES ASSUME SessionTypeOK, HostInv, HostReceive PROVE HostInv'
  OBVIOUS
<1> DEFINE a == Head(rep)
<1>1. /\ Len(rep) \in Nat /\ Len(rep) > 0 /\ Len(rep') = Len(rep) - 1
      /\ a = rep[1] /\ host' = Advance(a) /\ req' = req
      /\ \A i \in 1..Len(rep') : rep'[i] = rep[i + 1]
                                 /\ i + 1 \in 1..Len(rep)
  BY EndsOfSeq DEF SessionTypeOK, HostReceive
<1>2. host \in Host /\ host.img \in Images /\ host.block \in Nat
  BY DEF SessionTypeOK, Host
<1> HIDE DEF a
<1>3. /\ Advance(a).img = host.img
      /\ \/ Advance(a) = host
         \/ /\ host.phase = "cfg" /\ Advance(a).phase \in {"data", "refused"}
            /\ Advance(a).block = host.block
         \/ /\ host.phase = "data" /\ a = [cmd |-> "data", block |-> host.block]
            /\ \/ /\ Advance(a).phase = "check"
                  /\ Advance(a).block = host.block
               \/ /\ host.block # ImgLen[host.img]
                  /\ Advance(a).phase = "data"
                  /\ Advance(a).block = host.block + 1
         \/ /\ host.phase = "check"
            /\ Advance(a).phase \in {"done", "refused"}
            /\ Advance(a).block = host.block
  BY <1>2, AdvanceIs
<1>4. (\E i \in 1..Len(rep') : rep'[i].cmd = "data")
         => (\E i \in 1..Len(rep) : rep[i].cmd = "data")
  BY <1>1
<1>5. /\ host'.block \in 1..ImgLen[host'.img] /\ host'.block >= host.block
      /\ host'.img = host.img
  BY <1>1, <1>2, <1>3, ImageFacts DEF HostInv
<1>6. \A i \in 1..Len(req') : GoodFrame(req[i])'
  BY <1>1, <1>2, <1>5 DEF HostInv, GoodFrame
<1>7. host'.phase = "cfg" => host' = host
  BY <1>1, <1>3
<1>8. Moved' => Moved
  <2>1. a.cmd = "data" => Moved
    BY <1>1 DEF Moved
  <2> QED BY <1>1, <1>3, <1>4, <2>1 DEF Moved
<1> QED BY <1>1, <1>5, <1>6, <1>7, <1>8 DEF HostInv

LEMMA ServeKeeps == SessionTypeOK /\ HostInv /\ Serve => HostInv'
<1> SUFFICES ASSUME SessionTypeOK, HostInv, Serve PROVE HostInv'
  OBVIOUS
<1>1. /\ req # <<>> /\ req' = Tail(req) /\ UNCHANGED host
      /\ Head(req) = req[1] /\ 1 \in 1..Len(req)
      /\ \/ UNCHANGED rep
         \/ \E answer \in Answers : /\ Answered(req[1], answer)
                                    /\ rep' = Append(rep, answer)
  BY ServeAnswers, EndsOfSeq DEF SessionTypeOK
<1>2. CASE Moved' => Moved
  BY <1>1, <1>2, RequestGone
<1>3. CASE Moved' /\ ~Moved
  <2>1. req[1].cmd = "data"
    <3>1. PICK answer \in Answers : /\ Answered(req[1], answer)
                                    /\ rep' = Append(rep, answer)
      BY <1>1, <1>3 DEF Moved
    <3>2. /\ Len(rep) \in Nat /\ Len(rep') = Len(rep) + 1
          /\ rep'[Len(rep) + 1] = answer
          /\ \A i \in 1..Len(rep) : rep'[i] = rep[i]
      BY <3>1, EndsOfSeq DEF SessionTypeOK
    <3>3. answer.cmd = "data"
      BY <1>1, <1>3, <3>2 DEF Moved
    <3> QED BY <3>1, <3>3 DEF Answered
  <2>2. host.phase # "cfg"
    BY <1>1, <2>1 DEF HostInv
  <2>3. \A i \in 1..Len(req) : req[i].cmd # "cfg"
    BY <1>1, <2>1 DEF HostInv
  <2>4. /\ Len(req) \in Nat /\ Len(req') = Len(req) - 1
        /\ \A i \in 1..Len(req') : req'[i] = req[i + 1]
                                   /\ i + 1 \in 1..Len(req)
    BY <1>1, EndsOfSeq DEF SessionTypeOK
  <2>5. \A i \in 1..Len(req') : GoodFrame(req[i])'
    BY <1>1, <2>4 DEF HostInv, GoodFrame
  <2> QED BY <1>1, <2>2, <2>3, <2>4, <2>5 DEF HostInv
<1> QED BY <1>2, <1>3

LEMMA HostStep ==
    SessionTypeOK /\ HostInv /\ [SessionNext]_sessions => HostInv'
<1> SUFFICES ASSUME SessionTypeOK, HostInv, [SessionNext]_sessions
             PROVE  HostInv'
  OBVIOUS
<1>1. CASE UNCHANGED sessions \/ RunBoard
  <2>1. UNCHANGED <<host, req, rep>>
    BY <1>1 DEF sessions, RunBoard, link
  <2> QED BY <2>1 DEF HostInv, Moved, GoodFrame
<1>2. ASSUME NEW img \in Images, HostBegin(img) PROVE HostInv'
  BY <1>2, ImageFacts DEF HostBegin, HostInv, Moved
<1>3. CASE BoardFails
  <2>1. /\ req' = req \/ (req # <<>> /\ req' = Tail(req))
        /\ rep' = rep /\ host' = [host EXCEPT !.steady = FALSE]
    BY <1>3, Zenon DEF BoardFails
  <2>2. /\ host'.phase = host.phase /\ host'.img = host.img
        /\ host'.block = host.block
    BY <2>1 DEF SessionTypeOK
  <2>3. Moved' <=> Moved
    BY <2>1, <2>2 DEF Moved
  <2>4. CASE req' = req
    BY <2>1, <2>2, <2>3, <2>4 DEF HostInv, GoodFrame
  <2> QED BY <2>1, <2>2, <2>3, <2>4, RequestGone
<1>4. CASE LoseRequest
  <2>1. Moved' <=> Moved
    BY <1>4 DEF LoseRequest, Moved
  <2> QED BY <1>4, <2>1, RequestGone DEF LoseRequest
<1>5. CASE LoseAnswer
  <2>1. /\ Len(rep) \in Nat /\ Len(rep') = Len(rep) - 1
        /\ \A i \in 1..Len(rep') : rep'[i] = rep[i + 1]
                                   /\ i + 1 \in 1..Len(rep)
    BY <1>5, EndsOfSeq DEF SessionTypeOK, LoseAnswer
  <2>2. Moved' => Moved
    BY <1>5, <2>1 DEF LoseAnswer, Moved
  <2> QED BY <1>5, <2>2 DEF LoseAnswer, HostInv, GoodFrame
<1> QED BY <1>1, <1>2, <1>3, <1>4, <1>5, SendKeeps, ReceiveKeeps, ServeKeeps
        DEF SessionNext
-----------------------------------------------------------------------------
(* The board under a host is the board of Loader *)

LEMMA HeadIsGood ==
    ASSUME SessionTypeOK, HostInv, req # <<>>
    PROVE  Head(req) \in Frames /\ GoodFrame(Head(req)) /\ host.img \in Images
BY EndsOfSeq DEF SessionTypeOK, HostInv

LEMMA ServeIsRequest ==
    SessionTypeOK /\ HostInv /\ Serve => Request
<1> SUFFICES ASSUME SessionTypeOK, HostInv, Serve PROVE Request
  OBVIOUS
<1>1. Head(req) \in Frames /\ GoodFrame(Head(req)) /\ host.img \in Images
  BY HeadIsGood DEF Serve
<1>2. CASE ServeCfg(Head(req))
  <2>1. Head(req).img \in Images
    BY <1>1, <1>2 DEF ServeCfg, GoodFrame
  <2>2. HandleCfg(Head(req).img)
    BY <1>2 DEF ServeCfg, HandleCfg
  <2> QED BY <2>1, <2>2 DEF Request
<1>3. CASE ServeData(Head(req))
  <2>1. /\ Head(req).img \in Images
        /\ Head(req).block \in 1..ImgLen[Head(req).img]
    BY <1>1, <1>3, ImageFacts DEF ServeData, GoodFrame, HostInv
  <2> QED BY <1>3, <2>1 DEF ServeData, Request
<1>4. CASE ServeCheck(Head(req))
  BY <1>4 DEF ServeCheck, Request, HandleCheck
<1> QED BY <1>2, <1>3, <1>4 DEF Serve

LEMMA FailureIsPowerFailure ==
    SessionTypeOK /\ HostInv /\ BoardFails => PowerFailure
<1> SUFFICES ASSUME SessionTypeOK, HostInv, BoardFails PROVE PowerFailure
  OBVIOUS
<1>1. CASE PowerLoss \/ PowerLossInCopy \/ PowerLossInBreak \/ PowerLossInSave
  BY <1>1 DEF PowerFailure
<1>2. CASE /\ req # <<>> /\ Head(req).cmd = "data"
           /\ PowerLossInData(Head(req).block)
  <2>1. Head(req) \in Frames /\ GoodFrame(Head(req)) /\ host.img \in Images
    BY <1>2, HeadIsGood
  <2>2. Head(req).block \in 1..ImgLen[host.img]
    BY <1>2, <2>1, ImageFacts DEF GoodFrame, HostInv
  <2> QED BY <1>2, <2>1, <2>2 DEF PowerFailure
<1> QED BY <1>1, <1>2 DEF BoardFails

LEMMA SessionStepIsStep ==
    SessionTypeOK /\ HostInv /\ [SessionNext]_sessions => [Next]_vars
<1> SUFFICES ASSUME SessionTypeOK, HostInv, [SessionNext]_sessions
             PROVE  [Next]_vars
  OBVIOUS
<1>1. CASE UNCHANGED sessions
  BY <1>1 DEF sessions
<1>2. CASE (\E img \in Images : HostBegin(img)) \/ HostSend \/ HostReceive
           \/ LoseRequest \/ LoseAnswer
  BY <1>2 DEF HostBegin, HostSend, HostReceive, LoseRequest, LoseAnswer
<1>3. CASE Serve
  BY <1>3, ServeIsRequest DEF Next, Serve
<1>4. CASE RunBoard
  BY <1>4 DEF RunBoard, Next
<1>5. CASE BoardFails
  BY <1>5, FailureIsPowerFailure DEF Next, BoardFails
<1> QED BY <1>1, <1>2, <1>3, <1>4, <1>5 DEF SessionNext

(* Whatever the host and the link do, they ask the board nothing Loader's  *)
(* requests do not ask: all that is proved of the loader holds of a board  *)
(* in a download session.                                                  *)
THEOREM SessionImplementsLoader == SessionSpec => Spec
<1>1. SessionInit => Init
  BY DEF SessionInit
<1> QED BY <1>1, SessionTypeInit, SessionTypeStep, HostInit, HostStep,
           SessionStepIsStep, PTL DEF SessionSpec, Spec

(* So a board that is being upgraded never jumps into a broken image, but   *)
(* for a block stored between the check and the jump.                       *)
THEOREM SessionsJumpToImagesOnly == SessionSpec => []NeverLost
BY SessionImplementsLoader, JumpsToImagesOnly, PTL
-----------------------------------------------------------------------------
(* What the host counts as delivered *)

KeepInv ==
    dl.sum = host.img =>
        /\ \A i \in 1..Len(rep) :
              rep[i].cmd = "data" => dl.recv >= rep[i].block
        /\ host.phase = "data" => dl.recv >= host.block - 1
        /\ host.phase = "check" => dl.recv >= host.block

LEMMA KeepInit == SessionInit => KeepInv
BY ImageFacts DEF SessionInit, Init, NoDownload, KeepInv

(* The board's own steps leave the download alone or forget it. *)
LEMMA BoardForgets ==
    ASSUME SessionTypeOK, RunBoard \/ BoardFails
    PROVE  dl' = dl \/ dl'.sum \notin Images
<1>1. NoDownload.sum \notin Images
  BY ImageFacts DEF NoDownload
<1>2. CASE BoardFails
  BY <1>1, <1>2 DEF BoardFails, PowerLoss, PowerLossInCopy, PowerLossInBreak,
     PowerLossInSave, PowerLossInData, Reset
<1>3. CASE RunBoard
  BY <1>1, <1>3 DEF RunBoard, RunFsm, EnterCheckBadCfg, EnterCheckBackupReady,
     EnterCheckUpgradeWanted, EnterCheckAppBroken, EnterCheckPassed,
     EnterWaiting, StateTimeout, JumpToApl, Install, DropTooLarge, CopyStep,
     CopyVerified, CopyFailed
<1> QED BY <1>2, <1>3

LEMMA KeepStep ==
    TypeOK /\ SessionTypeOK /\ HostInv /\ KeepInv /\ [SessionNext]_sessions
        => KeepInv'
<1> SUFFICES ASSUME TypeOK, SessionTypeOK, HostInv, KeepInv,
                    [SessionNext]_sessions
             PROVE  KeepInv'
  OBVIOUS
<1>0. /\ host \in Host /\ host.img \in Images /\ host.block \in Nat
      /\ host.block > 0 /\ dl.recv \in Nat /\ Len(rep) \in Nat
  BY ImageFacts DEF SessionTypeOK, Host, TypeOK, Downloads, HostInv
<1>1. CASE UNCHANGED sessions \/ HostSend \/ LoseRequest
  <2>1. UNCHANGED <<host, rep, dl>>
    BY <1>1 DEF sessions, HostSend, LoseRequest, vars
  <2> QED BY <2>1 DEF KeepInv
<1>2. ASSUME NEW img \in Images, HostBegin(img) PROVE KeepInv'
  BY <1>2 DEF HostBegin, KeepInv
<1>3. CASE LoseAnswer \/ HostReceive
  <2>1. /\ UNCHANGED dl /\ Len(rep') = Len(rep) - 1 /\ Len(rep) > 0
        /\ Head(rep) = rep[1]
        /\ \A i \in 1..Len(rep') : rep'[i] = rep[i + 1]
                                   /\ i + 1 \in 1..Len(rep)
    BY <1>3, EndsOfSeq, SMTT(20) DEF LoseAnswer, HostReceive, SessionTypeOK, vars
  <2>2. CASE host' = host
    BY <2>1, <2>2 DEF KeepInv
  <2>3. CASE host' # host
    <3>1. host' = Advance(rep[1])
      BY <1>3, <2>1, <2>3 DEF LoseAnswer, HostReceive
    <3>2. /\ host'.img = host.img
          /\ \/ /\ host'.phase = "data" /\ host.phase = "cfg"
                /\ host'.block = host.block
             \/ host'.phase \in {"done", "refused"}
             \/ /\ rep[1] = [cmd |-> "data", block |-> host.block]
                /\ \/ host'.phase = "check" /\ host'.block = host.block
                   \/ host'.phase = "data" /\ host'.block = host.block + 1
      BY <1>0, <2>3, <3>1, AdvanceIs
    <3>3. host.phase = "cfg" => host.block = 1
      BY <1>0 DEF HostInv, Moved
    <3> QED BY <1>0, <2>1, <3>2, <3>3, SMTT(20) DEF KeepInv
  <2> QED BY <2>2, <2>3
<1>4. CASE RunBoard \/ BoardFails
  <2>1. /\ dl' = dl \/ dl'.sum \notin Images
        /\ UNCHANGED rep
    BY <1>4, BoardForgets DEF RunBoard, BoardFails, link
  <2>2. /\ host'.phase = host.phase /\ host'.img = host.img
        /\ host'.block = host.block
    BY <1>0, <1>4 DEF RunBoard, BoardFails, link, Host
  <2> QED BY <1>0, <2>1, <2>2 DEF KeepInv
<1>5. CASE Serve
  <2> DEFINE frame == Head(req)
  <2>1. /\ UNCHANGED host /\ req # <<>>
        /\ frame = req[1] /\ 1 \in 1..Len(req)
    BY <1>5, ServeAnswers, EndsOfSeq DEF SessionTypeOK
  <2>2. CASE ServeCfg(frame) /\ dl'.sum = host.img
    <3>1. frame.cmd = "cfg"
      BY <2>2 DEF ServeCfg
    <3>2. ~Moved
      BY <2>1, <3>1 DEF HostInv
    <3>3. \A i \in 1..Len(rep') : rep'[i].cmd # "data"
      <4>1. \/ UNCHANGED rep
            \/ \E a \in Answers : Answered(frame, a) /\ rep' = Append(rep, a)
        BY <1>5, ServeAnswers
      <4>2. CASE UNCHANGED rep
        BY <3>2, <4>2 DEF Moved
      <4>3. ASSUME NEW a \in Answers, Answered(frame, a), rep' = Append(rep, a)
            PROVE  \A i \in 1..Len(rep') : rep'[i].cmd # "data"
        <5>1. a.cmd = "cfg"
          BY <3>1, <4>3 DEF Answered
        <5>2. /\ Len(rep') = Len(rep) + 1 /\ rep'[Len(rep) + 1] = a
              /\ \A i \in 1..Len(rep) : rep'[i] = rep[i]
          BY <4>3, EndsOfSeq DEF SessionTypeOK
        <5> QED BY <1>0, <3>2, <5>1, <5>2 DEF Moved
      <4> QED BY <4>1, <4>2, <4>3
    <3>4. dl'.recv \in {0, dl.recv}
      <4>1. CASE CfgTooLarge(frame.img)
        BY <4>1 DEF CfgTooLarge, TypeOK, Downloads
      <4>2. CASE CfgAccepted(frame.img)
        BY <4>2 DEF CfgAccepted
      <4>3. CASE CfgHandedToLoader(frame.img)
        BY <4>3 DEF CfgHandedToLoader, Reset, NoDownload
      <4> QED BY <2>2, <4>1, <4>2, <4>3 DEF ServeCfg
    <3>5. host.block = 1 /\ host.phase # "check"
      BY <1>0, <3>2 DEF Moved
    <3> QED BY <1>0, <2>1, <3>3, <3>4, <3>5 DEF KeepInv
  <2>3. CASE ServeData(frame)
    <3>1. /\ frame.cmd = "data" /\ frame.block \in Nat
          /\ HandleData(frame.img, frame.block)
      <4>1. frame \in Frames
        BY <1>5, ServeAnswers
      <4> QED BY <2>3, <4>1 DEF ServeData, Frames
    <3>2. /\ dl'.sum = dl.sum /\ dl'.recv \in Nat
          /\ dl'.recv >= dl.recv /\ dl'.recv >= frame.block
      <4>1. CASE DataTaken(frame.img, frame.block)
        BY <1>0, <3>1, <4>1 DEF DataTaken, TypeOK, Downloads
      <4>2. CASE DataRepeated(frame.block)
        BY <1>0, <3>1, <4>2 DEF DataRepeated, ram
      <4> QED BY <3>1, <4>1, <4>2 DEF HandleData
    <3>3. ASSUME NEW i \in 1..Len(rep'), rep'[i].cmd = "data"
          PROVE  \/ i \in 1..Len(rep) /\ rep'[i] = rep[i]
                 \/ rep'[i].block = frame.block
      <4>1. \/ UNCHANGED rep
            \/ rep' = Append(rep, [cmd |-> "data", block |-> frame.block])
        BY <2>3 DEF ServeData, AnswerWith
      <4>2. [cmd |-> "data", block |-> frame.block] \in Answers
        BY <3>1 DEF Answers
      <4>3. CASE UNCHANGED rep
        BY <3>3, <4>3
      <4>4. CASE rep' = Append(rep, [cmd |-> "data", block |-> frame.block])
        <5>1. /\ Len(rep') = Len(rep) + 1
              /\ rep'[Len(rep) + 1] = [cmd |-> "data", block |-> frame.block]
              /\ \A j \in 1..Len(rep) : rep'[j] = rep[j]
          BY <4>2, <4>4, EndsOfSeq DEF SessionTypeOK
        <5> QED BY <1>0, <3>3, <5>1
      <4> QED BY <4>1, <4>3, <4>4
    <3>4. \A i \in 1..Len(rep) : rep[i].cmd = "data" => rep[i].block \in Nat
      BY DEF SessionTypeOK, Answers
    <3>5. dl.sum = host.img =>
             \A i \in 1..Len(rep') :
                rep'[i].cmd = "data" => dl'.recv >= rep'[i].block
      <4> SUFFICES ASSUME dl.sum = host.img, NEW i \in 1..Len(rep'),
                          rep'[i].cmd = "data"
                   PROVE  dl'.recv >= rep'[i].block
        OBVIOUS
      <4>1. CASE rep'[i].block = frame.block
        BY <3>2, <4>1
      <4>2. CASE i \in 1..Len(rep) /\ rep'[i] = rep[i]
        <5>1. dl.recv >= rep[i].block /\ rep[i].block \in Nat
          BY <3>4, <4>2 DEF KeepInv
        <5> QED BY <1>0, <3>2, <4>2, <5>1
      <4> QED BY <3>3, <4>1, <4>2
    <3>6. dl.sum = host.img =>
             /\ host.phase = "data" => dl'.recv >= host.block - 1
             /\ host.phase = "check" => dl'.recv >= host.block
      BY <1>0, <3>2 DEF KeepInv
    <3> QED BY <2>1, <3>2, <3>5, <3>6 DEF KeepInv
  <2>4. CASE ServeCheck(frame)
    <3>1. dl' = dl \/ dl'.sum \notin Images
      BY <2>4, ImageFacts DEF ServeCheck, CheckRefused, CheckPassedInLoader,
         CheckPassedInApl, Reset, NoDownload
    <3>2. \A i \in 1..Len(rep') :
             rep'[i].cmd = "data" => i \in 1..Len(rep) /\ rep'[i] = rep[i]
      <4>1. \/ UNCHANGED rep
            \/ \E a \in Answers : Answered(frame, a) /\ rep' = Append(rep, a)
        BY <1>5, ServeAnswers
      <4>2. ASSUME NEW a \in Answers, Answered(frame, a), rep' = Append(rep, a)
            PROVE  \A i \in 1..Len(rep') :
                     rep'[i].cmd = "data" => i \in 1..Len(rep) /\ rep'[i] = rep[i]
        <5>1. a.cmd = "check"
          BY <2>4, <4>2 DEF Answered, ServeCheck
        <5>2. /\ Len(rep') = Len(rep) + 1 /\ rep'[Len(rep) + 1] = a
              /\ \A i \in 1..Len(rep) : rep'[i] = rep[i]
          BY <4>2, EndsOfSeq DEF SessionTypeOK
        <5> QED BY <1>0, <5>1, <5>2
      <4> QED BY <4>1, <4>2
    <3> QED BY <1>0, <2>1, <3>1, <3>2 DEF KeepInv
  <2> QED BY <1>5, <2>1, <2>2, <2>3, <2>4 DEF Serve, KeepInv
<1> QED BY <1>1, <1>2, <1>3, <1>4, <1>5 DEF SessionNext

(* However requests and answers are lost, repeated and overtaken by power  *)
(* failures, the board has at least what the host counts as delivered.     *)
THEOREM BoardIsNeverBehind == SessionSpec => []BoardKeepsUp
<1>1. KeepInv => BoardKeepsUp
  BY DEF KeepInv, BoardKeepsUp
<1> QED BY <1>1, SessionTypeInit, SessionTypeStep, HostInit, HostStep,
           KeepInit, KeepStep, SessionImplementsLoader, TypeCorrect,
           PTL DEF SessionSpec
-----------------------------------------------------------------------------
(* What has been stored, on a board without a backup partition.  (With one  *)
(* the loader invalidates the download partition itself, once its image is  *)
(* installed.)                                                              *)

NotInstallingInv == ~Entering("update_apl") /\ ~Staying("update_apl")

LEMMA NothingToInstall ==
    ASSUME ~HasBackup
    PROVE  Spec => []NotInstallingInv
<1>1. Init => NotInstallingInv
  BY DEF Init, Boot, NotInstallingInv, Entering, Staying
<1>2. ASSUME TypeOK, NotInstallingInv, [Next]_vars PROVE NotInstallingInv'
  <2>0. ASSUME NEW s1, NEW e PROVE
           Cond(s1, e) = "update_apl" => e = "backup_fw_ready"
    BY OnlyOneWayToInstall
  <2>1. CASE UNCHANGED vars
    BY <1>2, <2>1 DEF vars, NotInstallingInv, Entering, Staying
  <2>2. CASE RunFsm
    <3> USE <1>2 DEF NotInstallingInv, Entering, Staying, Emit, Settled, Cond
    <3>1. CASE EnterCheckBadCfg
      BY <3>1 DEF EnterCheckBadCfg
    <3>2. CASE EnterCheckBackupReady
      BY <3>2 DEF EnterCheckBackupReady, BackupValid
    <3>3. CASE EnterCheckUpgradeWanted
      BY <3>3 DEF EnterCheckUpgradeWanted
    <3>4. CASE EnterCheckAppBroken
      BY <3>4 DEF EnterCheckAppBroken
    <3>5. CASE \E late \in BOOLEAN : EnterCheckPassed(late)
      BY <3>5 DEF EnterCheckPassed
    <3>6. CASE EnterWaiting
      BY <3>6 DEF EnterWaiting
    <3>7. CASE StateTimeout
      BY <3>7 DEF StateTimeout
    <3>8. CASE JumpToApl
      BY <3>8 DEF JumpToApl
    <3>9. ~Install
      BY DEF Install, DropTooLarge, Copying
    <3> HIDE DEF NotInstallingInv
    <3> QED BY <2>2, <3>1, <3>2, <3>3, <3>4, <3>5, <3>6, <3>7, <3>8, <3>9
            DEF RunFsm
  <2>3. ASSUME Reset PROVE NotInstallingInv'
    BY <2>3 DEF Reset, Boot, NotInstallingInv, Entering, Staying
  <2>4. CASE Request
    <3>1. ASSUME NEW img \in Images, NEW pack,
                 CfgRefused(pack) \/ CfgTooLarge(img) \/ CfgAccepted(img)
          PROVE  NotInstallingInv'
      BY <1>2, <3>1
      DEF CfgRefused, CfgTooLarge, CfgAccepted, NotInstallingInv, Entering, Staying
    <3>2. ASSUME NEW img, CfgHandedToLoader(img) PROVE NotInstallingInv'
      BY <2>3, <3>2 DEF CfgHandedToLoader
    <3>3. ASSUME NEW img, NEW k, DataTaken(img, k) PROVE NotInstallingInv'
      BY <1>2, <3>3, RequestsDoNotInstall DEF DataTaken, NotInstallingInv
    <3>4. ASSUME NEW k, DataRepeated(k) PROVE NotInstallingInv'
      BY <1>2, <3>4 DEF DataRepeated, ram, NotInstallingInv, Entering, Staying
    <3>5. CASE CheckRefused \/ CheckPassedInLoader
      BY <1>2, <3>5, RequestsDoNotInstall
      DEF CheckRefused, CheckPassedInLoader, NotInstallingInv
    <3>6. CASE CheckPassedInApl
      BY <2>3, <3>6 DEF CheckPassedInApl
    <3> QED BY <2>4, <3>1, <3>2, <3>3, <3>4, <3>5, <3>6
            DEF Request, HandleCfg, HandleData, HandleCheck
  <2>5. CASE PowerFailure
    BY <2>3, <2>5 DEF PowerFailure, PowerLoss, PowerLossInCopy,
       PowerLossInBreak, PowerLossInData, PowerLossInSave
  <2> QED BY <1>2, <2>1, <2>2, <2>4, <2>5 DEF Next
<1>3. TypeOK /\ NotInstallingInv /\ [Next]_vars => NotInstallingInv'
  BY <1>2
<1> QED BY <1>1, <1>3, TypeCorrect, PTL DEF Spec

(* The board has seen the configuration of the host's session, as far as   *)
(* the host knows or is about to know.                                     *)
Begun ==
    \/ host.phase \in {"data", "check"}
    \/ /\ host.phase = "cfg"
       /\ \E i \in 1..Len(rep) : rep[i].cmd = "cfg" /\ rep[i].sta = "ok"

(* The image so far, and blank flash from there to where the erasing got.  *)
Stored ==
    /\ dl.recv <= dl.erase /\ dl.erase <= AppUnits
    /\ \E n \in 0..AppUnits : dl.erase = n * SectorUnits
    /\ \A u \in 0..(dl.recv - 1) : app[u] = dl.sum
    /\ \A u \in dl.recv..(dl.erase - 1) : app[u] = Erased
SumInv    == dl.sum \in Images => dl.pack = 1 /\ ImgLen[dl.sum] <= AppUnits
StoredInv == SumInv /\ (Begun /\ dl.sum = host.img => Stored)

LEMMA StoredInit == SessionInit => StoredInv
BY ImageFacts DEF SessionInit, Init, NoDownload, StoredInv, SumInv

(* The next block goes into flash that was erased for it, and what is      *)
(* erased ahead is never what was stored.                                  *)
LEMMA BlockIsStored ==
    ASSUME TypeOK, ~HasBackup, Stored, dl.sum \in Images, dl.pack = 1,
           dl.recv + 1 <= AppUnits, DataTaken(dl.sum, dl.recv + 1)
    PROVE  Stored'
<1> DEFINE r == dl.recv
           e == dl.erase
           erased == flash_part_erase_len(app, e, SectorUnits)
           e2 == IF e < AppUnits THEN e + SectorUnits ELSE e
           data == [u \in {r} |-> BlockCell(dl.sum, r + 1, u)]
<1>1. /\ r \in Nat /\ e \in Nat /\ app \in [0..(AppUnits - 1) -> Cell]
      /\ AppUnits \in Nat /\ SectorUnits \in Nat /\ SectorUnits > 0
  BY Sizes DEF TypeOK, Downloads
<1>2. /\ app' = flash_part_write(erased, r, 1, data)
      /\ dl'.recv = r + 1 /\ dl'.erase = e2 /\ dl'.sum = dl.sum
  <2>1. BlockAddr(r + 1) = r
    BY <1>1 DEF BlockAddr
  <2>2. DlPart = app /\ DlUnits = AppUnits
    BY DEF DlPart, DlUnits
  <2>3. dl' = [dl EXCEPT !.recv = r + 1, !.erase = e2]
    BY <2>2 DEF DataTaken
  <2> QED BY <2>1, <2>2, <2>3 DEF DataTaken, SetDlPart, TypeOK, Downloads
<1>3. data[r] = dl.sum
  BY <1>1 DEF BlockCell
<1> HIDE DEF data
<1>4. PICK n \in 0..AppUnits : e = n * SectorUnits
  BY DEF Stored
<1>5. /\ e2 \in Nat /\ e2 <= AppUnits /\ r + 1 <= e2
      /\ \E m \in 0..AppUnits : e2 = m * SectorUnits
      /\ erased \in [0..(AppUnits - 1) -> Cell]
      /\ \A u \in 0..(r - 1) : erased[u] = dl.sum
      /\ \A u \in r..(e2 - 1) : erased[u] = Erased
  <2>1. CASE e < AppUnits
    <3>1. /\ n + 1 \in 0..AppUnits
          /\ (n + 1) * SectorUnits = e + SectorUnits
          /\ e + SectorUnits <= AppUnits
      BY <1>4, <2>1, RoomForSector
    <3>2. Fits(app, e, SectorUnits)
      BY <1>1, <3>1 DEF Fits
    <3>3. erased = [u \in 0..(AppUnits - 1) |->
                       IF u \in e..(e + SectorUnits - 1) THEN Erased
                                                         ELSE app[u]]
      BY <1>1, <3>2 DEF flash_part_erase_len
    <3>4. erased \in [0..(AppUnits - 1) -> Cell]
      BY <1>1, EraseType
    <3> QED BY <1>1, <2>1, <3>1, <3>3, <3>4, SMTT(20) DEF Stored
  <2>2. CASE e >= AppUnits
    <3>1. ~Fits(app, e, SectorUnits)
      BY <1>1, <2>2 DEF Fits
    <3>2. erased = app /\ e2 = e /\ e = AppUnits
      BY <1>1, <2>2, <3>1 DEF flash_part_erase_len, Stored
    <3> QED BY <1>1, <1>4, <3>2 DEF Stored
  <2>3. e < AppUnits \/ e >= AppUnits
    BY <1>1
  <2> QED BY <2>1, <2>2, <2>3, Zenon
<1> HIDE DEF e2, erased
<1>6. app' = [u \in 0..(AppUnits - 1) |-> IF u = r THEN dl.sum ELSE erased[u]]
  <2>1. Fits(erased, r, 1) /\ DOMAIN erased = 0..(AppUnits - 1)
    BY <1>1, <1>5 DEF Fits
  <2>2. erased[r] = Erased
    BY <1>1, <1>5
  <2>3. \A u \in Int : u \in r..(r + 1 - 1) <=> u = r
    BY <1>1
  <2>4. Program(erased[r], data[r]) = dl.sum
    BY <1>3, <2>2 DEF Program
  <2> QED BY <1>2, <2>1, <2>3, <2>4 DEF flash_part_write
<1>7. /\ dl'.recv <= dl'.erase /\ dl'.erase <= AppUnits
      /\ \E m \in 0..AppUnits : dl'.erase = m * SectorUnits
  BY <1>2, <1>5
<1>8. \A u \in 0..(dl'.recv - 1) : app'[u] = dl'.sum
  BY <1>1, <1>2, <1>5, <1>6
<1>9. \A u \in dl'.recv..(dl'.erase - 1) : app'[u] = Erased
  BY <1>1, <1>2, <1>5, <1>6
<1> QED BY <1>7, <1>8, <1>9 DEF Stored

LEMMA StoredStep ==
    ASSUME ~HasBackup
    PROVE  TypeOK /\ NotInstallingInv /\ SessionTypeOK /\ HostInv /\ KeepInv
             /\ StoredInv /\ [SessionNext]_sessions => StoredInv'
<1> SUFFICES ASSUME TypeOK, NotInstallingInv, SessionTypeOK, HostInv, KeepInv,
                    StoredInv, [SessionNext]_sessions
             PROVE  StoredInv'
  OBVIOUS
<1>0. /\ host \in Host /\ host.img \in Images /\ host.block \in Nat
      /\ dl.recv \in Nat /\ Len(rep) \in Nat
  BY DEF SessionTypeOK, Host, TypeOK, Downloads
<1>1. ASSUME dl'.recv = dl.recv, dl'.erase = dl.erase, dl'.sum = dl.sum,
             dl'.pack \in {1, dl.pack}, app' = app,
             Begun' /\ dl.sum = host'.img => Begun /\ dl.sum = host.img
      PROVE  StoredInv'
  BY <1>1 DEF StoredInv, SumInv, Stored
<1>2. ASSUME dl'.sum \notin Images, host'.img \in Images PROVE StoredInv'
  BY <1>2 DEF StoredInv, SumInv
<1>3. CASE UNCHANGED sessions \/ HostSend \/ LoseRequest
  <2>1. UNCHANGED <<host, rep, dl, app>>
    BY <1>3 DEF sessions, HostSend, LoseRequest, vars
  <2> QED BY <1>1, <2>1 DEF Begun
<1>4. ASSUME NEW img \in Images, HostBegin(img) PROVE StoredInv'
  <2>1. ~Begun' /\ UNCHANGED <<dl, app>>
    BY <1>4 DEF HostBegin, Begun, vars
  <2> QED BY <1>1, <2>1
<1>5. CASE LoseAnswer \/ HostReceive
  <2>0. UNCHANGED <<dl, app>> /\ rep # <<>> /\ rep' = Tail(rep)
    BY <1>5 DEF LoseAnswer, HostReceive, vars
  <2>1. /\ UNCHANGED <<dl, app>> /\ Len(rep') = Len(rep) - 1 /\ Len(rep) > 0
        /\ Head(rep) = rep[1]
        /\ \A i \in 1..Len(rep') : rep'[i] = rep[i + 1]
                                   /\ i + 1 \in 1..Len(rep)
    BY <2>0, EndsOfSeq DEF SessionTypeOK
  <2>2. CASE host' = host
    BY <1>1, <2>1, <2>2 DEF Begun
  <2>3. CASE host' # host
    <3>1. host' = Advance(rep[1])
      BY <1>5, <2>1, <2>3 DEF LoseAnswer, HostReceive
    <3>2. /\ host'.img = host.img
          /\ \/ /\ host.phase = "cfg"
                /\ \/ rep[1].cmd = "cfg" /\ rep[1].sta = "ok"
                   \/ host'.phase = "refused"
             \/ host.phase \in {"data", "check"}
      BY <1>0, <2>3, <3>1, AdvanceIs
    <3>3. Begun' => Begun
      BY <1>0, <2>1, <3>2 DEF Begun
    <3> QED BY <1>1, <2>1, <3>2, <3>3
  <2> QED BY <2>2, <2>3
<1>6. CASE RunBoard \/ BoardFails
  <2>1. /\ host'.phase = host.phase /\ host'.img = host.img /\ UNCHANGED rep
    BY <1>0, <1>6 DEF RunBoard, BoardFails, link, Host
  <2>2. dl' = dl \/ dl'.sum \notin Images
    BY <1>6, BoardForgets
  <2>3. CASE dl' = dl
    <3>1. CASE RunBoard
      <4>1. ~Install
        BY DEF Install, DropTooLarge, Copying, NotInstallingInv
      <4>2. UNCHANGED app
        BY <3>1, <4>1 DEF RunBoard, RunFsm, EnterCheckBadCfg,
           EnterCheckBackupReady, EnterCheckUpgradeWanted, EnterCheckAppBroken,
           EnterCheckPassed, EnterWaiting, StateTimeout, JumpToApl, flash
      <4> QED BY <1>1, <2>1, <2>3, <4>2 DEF Begun
    <3>2. CASE BoardFails
      <4>1. dl'.sum \notin Images
        BY <3>2, ImageFacts
        DEF BoardFails, PowerLoss, PowerLossInCopy, PowerLossInBreak,
            PowerLossInSave, PowerLossInData, Reset, NoDownload
      <4> QED BY <1>0, <1>2, <2>1, <4>1
    <3> QED BY <1>6, <3>1, <3>2
  <2> QED BY <1>0, <1>2, <2>1, <2>2, <2>3
<1>7. CASE Serve
  <2> DEFINE frame == Head(req)
  <2>1. /\ UNCHANGED host /\ req # <<>>
        /\ frame = req[1] /\ 1 \in 1..Len(req)
        /\ frame \in Frames /\ GoodFrame(frame)
    BY <1>7, ServeAnswers, EndsOfSeq, HeadIsGood DEF SessionTypeOK
  <2>2. CASE ServeCfg(frame)
    <3>1. CASE CfgAccepted(frame.img)
      <4>1. /\ dl'.recv = 0 /\ dl'.erase = 0 /\ dl'.pack = 1
            /\ dl'.sum = frame.img /\ ImgLen[frame.img] <= AppUnits
        BY <3>1 DEF CfgAccepted, DlUnits
      <4>2. 0 \in 0..AppUnits /\ 0 = 0 * SectorUnits /\ 0 <= AppUnits
        BY Sizes
      <4>3. Stored'
        BY <4>1, <4>2 DEF Stored
      <4> QED BY <4>1, <4>3 DEF StoredInv, SumInv
    <3>2. CASE CfgHandedToLoader(frame.img)
      BY <1>0, <1>2, <2>1, <3>2, ImageFacts
      DEF CfgHandedToLoader, Reset, NoDownload
    <3>3. CASE CfgTooLarge(frame.img) /\ ~CfgAccepted(frame.img)
               /\ ~CfgHandedToLoader(frame.img)
      <4>1. /\ dl'.recv = dl.recv /\ dl'.erase = dl.erase
            /\ dl'.sum = dl.sum /\ dl'.pack = 1 /\ app' = app
        BY <3>3 DEF CfgTooLarge, flash, TypeOK, Downloads
      <4>2. AnswerWith([cmd |-> "cfg", sta |-> "too_large"])
        BY <2>2, <3>3 DEF ServeCfg
      <4>3. Begun' => Begun
        <5> DEFINE a == [cmd |-> "cfg", sta |-> "too_large"]
        <5>1. a \in Answers
          BY DEF Answers
        <5>2. CASE UNCHANGED rep
          BY <2>1, <5>2 DEF Begun
        <5>3. CASE rep' = Append(rep, a)
          <6>1. /\ Len(rep') = Len(rep) + 1 /\ rep'[Len(rep) + 1] = a
                /\ \A i \in 1..Len(rep) : rep'[i] = rep[i]
            BY <5>1, <5>3, EndsOfSeq DEF SessionTypeOK
          <6> QED BY <1>0, <2>1, <6>1 DEF Begun
        <5> QED BY <4>2, <5>2, <5>3 DEF AnswerWith
      <4> QED BY <1>1, <2>1, <4>1, <4>3
    <3> QED BY <2>2, <3>1, <3>2, <3>3 DEF ServeCfg
  <2>3. CASE ServeData(frame)
    <3>1. /\ frame.cmd = "data" /\ frame.img = host.img
          /\ frame.block \in 1..host.block
          /\ HandleData(frame.img, frame.block)
      BY <2>1, <2>3 DEF ServeData, GoodFrame
    <3>2. Begun' => host.phase \in {"data", "check"}
      <4>1. host.phase # "cfg"
        BY <2>1, <3>1 DEF HostInv
      <4> QED BY <2>1, <4>1 DEF Begun
    <3>3. CASE DataRepeated(frame.block)
      BY <1>1, <2>1, <3>2, <3>3 DEF DataRepeated, flash, ram, Begun
    <3>4. CASE DataTaken(frame.img, frame.block)
      <4>1. dl'.sum = dl.sum /\ dl'.pack = dl.pack
        BY <3>4 DEF DataTaken, TypeOK, Downloads
      <4>2. ASSUME Begun', dl.sum = host.img PROVE Stored'
        <5>1. Stored
          BY <3>2, <4>2 DEF StoredInv, Begun
        <5>2. dl.recv < frame.block
          BY <3>4 DEF DataTaken
        <5>3. frame.block = dl.recv + 1
          BY <1>0, <3>1, <3>2, <4>2, <5>2 DEF KeepInv
        <5>4. dl.recv + 1 <= AppUnits /\ dl.pack = 1
          <6>1. /\ frame.block <= ImgLen[host.img] /\ ImgLen[host.img] <= AppUnits
                /\ dl.pack = 1 /\ ImgLen[host.img] \in Nat
            BY <1>0, <3>1, <4>2, ImageFacts DEF HostInv, StoredInv, SumInv
          <6> QED BY <1>0, <5>3, <6>1, Sizes
        <5> QED BY <1>0, <3>1, <3>4, <4>2, <5>1, <5>3, <5>4, BlockIsStored
      <4> QED BY <2>1, <4>1, <4>2 DEF StoredInv, SumInv
    <3> QED BY <3>1, <3>3, <3>4 DEF HandleData
  <2>4. CASE ServeCheck(frame)
    <3>1. CASE CheckPassedInApl
      BY <1>0, <1>2, <2>1, <3>1, ImageFacts DEF CheckPassedInApl, Reset, NoDownload
    <3>2. CASE CheckRefused \/ CheckPassedInLoader
      <4>1. UNCHANGED <<dl, app>>
        BY <3>2 DEF CheckRefused, CheckPassedInLoader, flash
      <4>2. Begun' => Begun
        <5>1. host.phase # "cfg"
          BY <2>1, <2>4 DEF ServeCheck, HostInv
        <5> QED BY <2>1, <5>1 DEF Begun
      <4> QED BY <1>1, <2>1, <4>1, <4>2
    <3> QED BY <2>4, <3>1, <3>2 DEF ServeCheck
  <2> QED BY <1>7, <2>2, <2>3, <2>4 DEF Serve
<1> QED BY <1>3, <1>4, <1>5, <1>6, <1>7 DEF SessionNext

(* On a board of this build, which has no backup partition, every block    *)
(* the host had acknowledged is in the flash as long as the board          *)
(* remembers the session: no repetition, reordering of sessions or erasing *)
(* ahead takes it away again.                                              *)
THEOREM PrefixIsStored ==
    ASSUME ~HasBackup
    PROVE  SessionSpec => []SentPrefixIsStored
<1>1. StoredInv => SentPrefixIsStored
  <2> SUFFICES ASSUME StoredInv, host.phase \in {"data", "check"},
                      dl.sum = host.img
               PROVE  \A u \in 0..(dl.recv - 1) : DlPart[u] = host.img
    BY DEF SentPrefixIsStored
  <2>1. Stored /\ DlPart = app
    BY DEF StoredInv, Begun, DlPart
  <2> QED BY <2>1 DEF Stored
<1>2. Spec => []NotInstallingInv
  BY NothingToInstall
<1> QED BY <1>1, <1>2, SessionTypeInit, SessionTypeStep, HostInit, HostStep,
           KeepInit, KeepStep, StoredInit, StoredStep,
           SessionImplementsLoader, TypeCorrect, PTL DEF SessionSpec
=============================================================================
