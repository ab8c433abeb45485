------------------------------- MODULE Loader -------------------------------
(* The firmware upgrade machine of xf_upgrade.c: the boot loader's state    *)
(* machine (run on the fsm_tab.c engine), the download handlers the loader  *)
(* and the application share, the boot configuration record, and the flash  *)
(* partitions they work on, with power failing at any moment.               *)
(*                                                                          *)
(* The program is one cooperative loop, so a handler or one RUN_FSM call is *)
(* atomic with respect to the others; only a power failure cuts it short.   *)
(* Requests arrive in any order here; Upgrade.tla adds the host and the     *)
(* link.  One unit of flash holds one download block (trans_per_pack).      *)
EXTENDS FlashPart

CONSTANTS
    Images,         \* firmware images
    ImgLen,         \* header + binary, in units, of each image
    AppUnits,       \* size of SYS_APP_PART
    BackupUnits,    \* size of SYS_BACKUP_PART
    SectorUnits,    \* flash_part_get_sector_size
    ChunkUnits,     \* the 512 bytes one copy step moves
    HasBackup,      \* SYS_BACKUP_PART is registered
    NoSum           \* fw_sum_chk_val of a board that saw no configuration

ASSUME SizesAssumption ==
    /\ AppUnits \in Nat \ {0}
    /\ BackupUnits \in Nat /\ BackupUnits >= AppUnits
    /\ SectorUnits \in Nat \ {0}
    /\ \E n \in 1..AppUnits : AppUnits = n * SectorUnits
    /\ \E n \in 1..BackupUnits : BackupUnits = n * SectorUnits
    /\ ChunkUnits \in 1..SectorUnits
    /\ HasBackup \in BOOLEAN

ASSUME ImagesAssumption ==
    /\ Erased \notin Images /\ Junk \notin Images /\ NoSum \notin Images
    /\ ImgLen \in [Images -> Nat \ {0}]

VARIABLES
    app,        \* SYS_APP_PART
    backup,     \* SYS_BACKUP_PART
    boot_cfg,   \* SYS_BOOT_CFG_PART: ok = its checksum and length hold
    mode,       \* which program runs: the loader, the application, or none
    fsm,        \* LOADER_FSM: cur_state, next_state, state_is_change
    copy,       \* g_loader_program_info: erase_addr, program_addr, fw_size
    dl,         \* g_fw_dl_info
    stale       \* history: a block was stored in the download partition
                \* after the loader had looked at it and made up its mind

flash == <<app, backup, boot_cfg>>
ram   == <<mode, fsm, copy, dl>>
vars  == <<app, backup, boot_cfg, mode, fsm, copy, dl, stale>>
-----------------------------------------------------------------------------
Cell   == Images \cup {Erased, Junk}
States == {"check", "idle", "trans", "goto_apl", "update_apl"}
BootCfg   == [ok : BOOLEAN, need : BOOLEAN]
FsmRecord == [cur : States, next : States, change : BOOLEAN]
Copies    == [erase : Nat, prog : Nat, size : Nat]
Downloads == [pack : {0, 1, 2}, size : Nat, sum : Images \cup {NoSum},
              recv : Nat, erase : Nat]

NoDownload == [pack |-> 0, size |-> 0, sum |-> NoSum, recv |-> 0, erase |-> 0]
NoCopy     == [erase |-> 0, prog |-> 0, size |-> 0]

(* Type correctness. *)
TypeOK ==
    /\ app \in [0..AppUnits-1 -> Cell]
    /\ backup \in [0..BackupUnits-1 -> Cell]
    /\ boot_cfg \in BootCfg
    /\ mode \in {"loader", "apl", "lost"}
    /\ fsm \in FsmRecord
    /\ copy \in Copies
    /\ dl \in Downloads
    /\ stale \in BOOLEAN
-----------------------------------------------------------------------------
(* Images in flash *)

Holds(part, img) ==
    /\ ImgLen[img] - 1 \in DOMAIN part
    /\ \A u \in 0..(ImgLen[img] - 1) : part[u] = img

(* Header fields, header checksum and binary checksum all agree. *)
check_fw_part_data_valid(part) == \E img \in Images : Holds(part, img)

AppValid    == check_fw_part_data_valid(app)
BackupValid == HasBackup /\ check_fw_part_data_valid(backup)

(* legalize_part: where a download goes. *)
DlPart  == IF HasBackup THEN backup ELSE app
DlUnits == IF HasBackup THEN BackupUnits ELSE AppUnits
SetDlPart(part) ==
    IF HasBackup THEN backup' = part /\ UNCHANGED app
                 ELSE app' = part /\ UNCHANGED backup

(* Erasing the backup's first sector makes its header unreadable. *)
BackupTop == 0..(SectorUnits - 1)
broken_backup_part_data == backup' = flash_part_erase_len(backup, 0, SectorUnits)
-----------------------------------------------------------------------------
(* The loader's state machine *)

(* What each state does with an event: the next state, or "none". *)
Cond(state, event) ==
    CASE state = "check" /\ event \in {"boot_param_err", "in_loader_by_apl",
                                       "apl_err", "update_exit"} -> "idle"
      [] state = "check" /\ event \in {"fw_dl_finish", "update_success"} -> "check"
      [] state = "check" /\ event = "backup_fw_ready"   -> "update_apl"
      [] state = "check" /\ event = "stat_timeout"      -> "goto_apl"
      [] state = "idle"  /\ event = "stat_timeout"      -> "check"
      [] state = "idle"  /\ event = "recv_fw_data"      -> "trans"
      [] state = "trans" /\ event = "stat_timeout"      -> "check"
      [] state = "trans" /\ event = "fw_dl_finish"      -> "check"
      [] state = "update_apl" /\ event = "update_success" -> "goto_apl"
      [] state = "update_apl" /\ event = "update_exit"    -> "check"
      [] OTHER -> "none"

(* Mutant: an event the current state does not know is taken all the same. *)
EmitUnjudged(f, event) ==
    [f EXCEPT !.next = Cond(f.cur, event), !.change = TRUE]

(* real_fsm_emit_event: the current state judges the event; a transition   *)
(* already pending is replaced by a later one.                             *)
Emit(f, event) ==
    LET next == Cond(f.cur, event)
    IN  IF next = "none" THEN f
        ELSE [f EXCEPT !.next = next, !.change = TRUE]

(* real_fsm_fun: a pending change is taken, then the new state's in        *)
(* function runs, then, unless that one raised a change, its exe function. *)
Entering(state) == mode = "loader" /\ fsm.change /\ fsm.next = state
Staying(state)  == mode = "loader" /\ ~fsm.change /\ fsm.cur = state
Settled(state)  == [cur |-> state, next |-> state, change |-> FALSE]

Boot == [cur |-> "check", next |-> "check", change |-> TRUE]
Reset ==
    /\ mode' = "loader"
    /\ fsm' = Boot
    /\ copy' = NoCopy
    /\ dl' = NoDownload

(* ld_s_check_in: the first test that fails decides where to go. *)
EnterCheckBadCfg ==
    /\ Entering("check")
    /\ ~boot_cfg.ok
    /\ boot_cfg' = [ok |-> TRUE, need |-> TRUE]
    /\ fsm' = Emit(Settled("check"), "boot_param_err")
    /\ UNCHANGED <<app, backup, mode, copy, dl>>

EnterCheckBackupReady ==
    /\ Entering("check")
    /\ boot_cfg.ok
    /\ BackupValid
    /\ fsm' = Emit(Settled("check"), "backup_fw_ready")
    /\ UNCHANGED <<flash, mode, copy, dl>>

(* Mutant: the upgrade wish is not forgotten once it was honoured. *)
EnterCheckWantedForEver ==
    /\ Entering("check")
    /\ boot_cfg.ok
    /\ ~BackupValid
    /\ boot_cfg.need
    /\ fsm' = Emit(Settled("check"), "in_loader_by_apl")
    /\ UNCHANGED <<flash, mode, copy, dl>>

EnterCheckUpgradeWanted ==
    /\ Entering("check")
    /\ boot_cfg.ok
    /\ ~BackupValid
    /\ boot_cfg.need
    /\ boot_cfg' = [boot_cfg EXCEPT !.need = FALSE]
    /\ fsm' = Emit(Settled("check"), "in_loader_by_apl")
    /\ UNCHANGED <<app, backup, mode, copy, dl>>

EnterCheckAppBroken ==
    /\ Entering("check")
    /\ boot_cfg.ok
    /\ ~BackupValid
    /\ ~boot_cfg.need
    /\ ~AppValid
    /\ fsm' = Emit(Settled("check"), "apl_err")
    /\ UNCHANGED <<flash, mode, copy, dl>>

(* Mutant: the application partition is not looked at. *)
EnterCheckTrusting(late) ==
    /\ Entering("check")
    /\ boot_cfg.ok
    /\ ~BackupValid
    /\ ~boot_cfg.need
    /\ fsm' = IF late THEN Emit(Settled("check"), "stat_timeout")
                      ELSE Settled("check")
    /\ UNCHANGED <<flash, mode, copy, dl>>

(* Every test passed: ld_s_check_exe runs in the same call; late says      *)
(* whether boot_delay has already elapsed.                                 *)
EnterCheckPassed(late) ==
    /\ Entering("check")
    /\ boot_cfg.ok
    /\ ~BackupValid
    /\ ~boot_cfg.need
    /\ AppValid
    /\ fsm' = IF late THEN Emit(Settled("check"), "stat_timeout")
                      ELSE Settled("check")
    /\ UNCHANGED <<flash, mode, copy, dl>>

(* The in functions of idle and trans only take a timestamp. *)
EnterWaiting ==
    \E state \in {"idle", "trans"} :
        /\ Entering(state)
        /\ fsm' = Settled(state)
        /\ UNCHANGED <<flash, mode, copy, dl>>

(* The exe functions of check, idle and trans when the time is up. *)
StateTimeout ==
    \E state \in {"check", "idle", "trans"} :
        /\ Staying(state)
        /\ fsm' = Emit(fsm, "stat_timeout")
        /\ UNCHANGED <<flash, mode, copy, dl>>

(* ld_s_goto_app_exe: the jump never comes back.  The application starts   *)
(* with RAM of its own; a partition that holds no image runs nothing.      *)
JumpToApl ==
    /\ Entering("goto_apl")
    /\ mode' = IF AppValid THEN "apl" ELSE "lost"
    /\ fsm' = Settled("goto_apl")
    /\ copy' = NoCopy
    /\ dl' = NoDownload
    /\ UNCHANGED flash

(* The length fields of the header unit: erased ones are huge, those of a  *)
(* unit with nobody's data may say anything.                               *)
HeaderLen(cell) ==
    IF cell \in Images THEN {ImgLen[cell]}
    ELSE IF cell = Erased THEN {AppUnits + 1}
    ELSE 0..(AppUnits + 1)

(* Mutants: nothing is erased; every other sector is skipped. *)
NotErased(c)    == app
EraseSkips(c)   == IF c.erase < AppUnits THEN c.erase + 2 * SectorUnits ELSE c.erase

(* ld_s_update_app_exe: erase one sector ahead of the copy, then move one  *)
(* chunk, or finish.  c is copy as the in function or the last step left   *)
(* it.                                                                     *)
ErasedAhead(c) == flash_part_erase_len(app, c.erase, SectorUnits)
NextErase(c)   == IF c.erase < AppUnits THEN c.erase + SectorUnits ELSE c.erase
ChunkLen(c)    == IF c.size - c.prog < ChunkUnits THEN c.size - c.prog
                                                  ELSE ChunkUnits

CopyStep(c) ==
    /\ c.prog < c.size
    /\ app' = flash_part_write(ErasedAhead(c), c.prog, ChunkLen(c), backup)
    /\ copy' = [c EXCEPT !.erase = NextErase(c), !.prog = @ + ChunkLen(c)]
    /\ fsm' = Settled("update_apl")
    /\ UNCHANGED <<backup, boot_cfg, mode, dl>>

CopyVerified(c) ==
    /\ c.prog >= c.size
    /\ check_fw_part_data_valid(ErasedAhead(c))
    /\ app' = ErasedAhead(c)
    /\ copy' = [c EXCEPT !.erase = NextErase(c)]
    /\ broken_backup_part_data
    /\ fsm' = Emit(Settled("update_apl"), "update_success")
    /\ UNCHANGED <<boot_cfg, mode, dl>>

CopyFailed(c) ==
    /\ c.prog >= c.size
    /\ ~check_fw_part_data_valid(ErasedAhead(c))
    /\ app' = ErasedAhead(c)
    /\ copy' = [c EXCEPT !.erase = NextErase(c)]
    /\ fsm' = Emit(Settled("update_apl"), "update_exit")
    /\ UNCHANGED <<backup, boot_cfg, mode, dl>>

(* ld_s_update_app_in: an image that cannot fit is thrown away, any other  *)
(* is copied from the start, the first step in the same call.  (The state  *)
(* is only entered when the backup partition exists.)                      *)
(* Mutant: an image that fills the partition is taken for too large. *)
ShorterLens == {len \in HeaderLen(backup[0]) : len < AppUnits}

AppLens == {len \in HeaderLen(backup[0]) : len <= AppUnits}
BigLens == HeaderLen(backup[0]) \ AppLens
Copying ==
    IF Entering("update_apl") THEN [erase : {0}, prog : {0}, size : AppLens]
    ELSE IF Staying("update_apl") THEN {copy}
    ELSE {}

DropTooLarge ==
    /\ Entering("update_apl")
    /\ \E len \in BigLens : copy' = [copy EXCEPT !.size = len]
    /\ broken_backup_part_data
    /\ fsm' = Emit(Settled("update_apl"), "update_exit")
    /\ UNCHANGED <<app, boot_cfg, mode, dl>>

Install ==
    \/ DropTooLarge
    \/ \E c \in Copying : CopyStep(c) \/ CopyVerified(c) \/ CopyFailed(c)

(* One call of RUN_FSM that changes anything. *)
RunFsm ==
    \/ EnterCheckBadCfg
    \/ EnterCheckBackupReady
    \/ EnterCheckUpgradeWanted
    \/ EnterCheckAppBroken
    \/ \E late \in BOOLEAN : EnterCheckPassed(late)
    \/ EnterWaiting
    \/ StateTimeout
    \/ JumpToApl
    \/ Install
-----------------------------------------------------------------------------
(* The download handlers *)

Running == mode \in {"loader", "apl"}

(* The loader has looked at the download partition and is about to act on  *)
(* what it saw: to install from it, or to jump into it.                    *)
Committed ==
    /\ mode = "loader"
    /\ \/ /\ HasBackup
          /\ \/ fsm.cur = "update_apl"
             \/ fsm.change /\ fsm.next = "update_apl"
       \/ /\ ~HasBackup
          /\ \/ fsm.cur = "check" /\ ~fsm.change
             \/ fsm.change /\ fsm.next = "goto_apl"

(* upgrade_event_notify: only the loader has a state machine to tell. *)
Notify(event) == IF mode = "loader" THEN Emit(fsm, event) ELSE fsm

(* fw_update_trans_cfg.  fw_update_cfg_check stores each field as it goes:  *)
(* the block size before it refuses blocks that are too long (pack = 2) or  *)
(* a package without blocks, the total size too before it refuses a package *)
(* that is too large.                                                       *)
CfgRefused(pack) ==
    /\ dl' = [dl EXCEPT !.pack = pack]
    /\ UNCHANGED <<flash, mode, fsm, copy>>

CfgTooLarge(img) ==
    /\ ImgLen[img] > DlUnits
    /\ dl' = [dl EXCEPT !.pack = 1, !.size = ImgLen[img]]
    /\ UNCHANGED <<flash, mode, fsm, copy>>

(* Mutant: a new session goes on erasing where the last one stopped. *)
CfgKeepsErase(img) ==
    /\ ImgLen[img] <= DlUnits
    /\ mode = "apl" => HasBackup
    /\ dl' = [pack |-> 1, size |-> ImgLen[img], sum |-> img,
              recv |-> 0, erase |-> dl.erase]
    /\ UNCHANGED <<flash, mode, fsm, copy>>

CfgAccepted(img) ==
    /\ ImgLen[img] <= DlUnits
    /\ mode = "apl" => HasBackup
    /\ dl' = [pack |-> 1, size |-> ImgLen[img], sum |-> img,
              recv |-> 0, erase |-> 0]
    /\ UNCHANGED <<flash, mode, fsm, copy>>

(* An application without a backup partition leaves the work, and the      *)
(* answer, to the loader.                                                  *)
CfgHandedToLoader(img) ==
    /\ mode = "apl"
    /\ ~HasBackup
    /\ ImgLen[img] <= DlUnits
    /\ boot_cfg' = [boot_cfg EXCEPT !.need = TRUE]
    /\ Reset
    /\ UNCHANGED <<app, backup>>

HandleCfg(img) ==
    /\ Running
    /\ \/ \E pack \in {1, 2} : CfgRefused(pack)
       \/ CfgTooLarge(img) \/ CfgAccepted(img) \/ CfgHandedToLoader(img)

(* fw_update_trans_data: any block beyond the last one is taken; a sector  *)
(* is erased per block, and the block goes where its number says.  With no *)
(* configuration since the start the block size is 0 and so is every       *)
(* address.                                                                *)
BlockAddr(k) == (k - 1) * dl.pack
BlockCell(img, k, u) == IF u = k - 1 THEN img ELSE Junk

(* Mutants: the block is stored before its sector is erased; the block is  *)
(* not counted.                                                            *)
DataStoredThenErased(img, k) ==
    /\ Running
    /\ dl.recv < k
    /\ SetDlPart(flash_part_erase_len(
                    flash_part_write(DlPart, BlockAddr(k), 1,
                        [u \in {BlockAddr(k)} |-> BlockCell(img, k, u)]),
                    dl.erase, SectorUnits))
    /\ dl' = [dl EXCEPT !.recv = k,
                        !.erase = IF @ < DlUnits THEN @ + SectorUnits ELSE @]
    /\ fsm' = Notify("recv_fw_data")
    /\ UNCHANGED <<boot_cfg, mode, copy>>

DataNotCounted(img, k) ==
    /\ Running
    /\ dl.recv < k
    /\ SetDlPart(flash_part_write(
                    flash_part_erase_len(DlPart, dl.erase, SectorUnits),
                    BlockAddr(k), 1,
                    [u \in {BlockAddr(k)} |-> BlockCell(img, k, u)]))
    /\ dl' = [dl EXCEPT !.erase = IF @ < DlUnits THEN @ + SectorUnits ELSE @]
    /\ fsm' = Notify("recv_fw_data")
    /\ UNCHANGED <<boot_cfg, mode, copy>>

DataTaken(img, k) ==
    /\ Running
    /\ dl.recv < k
    /\ SetDlPart(flash_part_write(
                    flash_part_erase_len(DlPart, dl.erase, SectorUnits),
                    BlockAddr(k), 1,
                    [u \in {BlockAddr(k)} |-> BlockCell(img, k, u)]))
    /\ dl' = [dl EXCEPT !.recv = k,
                        !.erase = IF @ < DlUnits THEN @ + SectorUnits ELSE @]
    /\ fsm' = Notify("recv_fw_data")
    /\ UNCHANGED <<boot_cfg, mode, copy>>

DataRepeated(k) ==
    /\ Running
    /\ dl.recv >= k
    /\ UNCHANGED <<flash, ram>>

HandleData(img, k) == DataTaken(img, k) \/ DataRepeated(k)

(* fw_update_check: the sum over the announced size; both are 0 when no    *)
(* configuration was seen.                                                 *)
ChecksumAgrees ==
    \/ dl.size = 0 /\ dl.sum = NoSum
    \/ /\ dl.sum \in Images
       /\ dl.size = ImgLen[dl.sum]
       /\ Holds(DlPart, dl.sum)

CheckRefused ==
    /\ Running
    /\ ~ChecksumAgrees
    /\ fsm' = Notify("fw_dl_finish")
    /\ UNCHANGED <<flash, mode, copy, dl>>

(* The loader answers, goes back to its checks and forgets the upgrade     *)
(* wish.                                                                   *)
CheckPassedInLoader ==
    /\ mode = "loader"
    /\ ChecksumAgrees
    /\ fsm' = Notify("fw_dl_finish")
    /\ boot_cfg' = [boot_cfg EXCEPT !.need = FALSE]
    /\ UNCHANGED <<app, backup, mode, copy, dl>>

(* The application answers and restarts into the loader. *)
CheckPassedInApl ==
    /\ mode = "apl"
    /\ ChecksumAgrees
    /\ Reset
    /\ UNCHANGED flash

HandleCheck == CheckRefused \/ CheckPassedInLoader \/ CheckPassedInApl

Request ==
    \/ \E img \in Images :
          \/ HandleCfg(img)
          \/ \E k \in 1..ImgLen[img] : HandleData(img, k)
    \/ HandleCheck
-----------------------------------------------------------------------------
(* Power failures *)

PowerLoss ==
    /\ Reset
    /\ UNCHANGED flash

(* ... inside a copy step: the sector being erased and the chunk being     *)
(* programmed are torn.                                                    *)
CopyTouches(c) ==
    (c.erase..(c.erase + SectorUnits - 1))
      \cup (c.prog..(c.prog + ChunkLen(c) - 1))

PowerLossInCopy ==
    /\ \E c \in Copying : app' \in Torn(app, CopyTouches(c))
    /\ Reset
    /\ UNCHANGED <<backup, boot_cfg>>

(* ... while the backup is being invalidated, after a good copy or because *)
(* its image is too large.                                                 *)
PowerLossInBreak ==
    /\ \/ \E c \in Copying :
            /\ c.prog >= c.size
            /\ check_fw_part_data_valid(ErasedAhead(c))
            /\ app' = ErasedAhead(c)
       \/ /\ Entering("update_apl")
          /\ BigLens # {}
          /\ UNCHANGED app
    /\ backup' \in Torn(backup, BackupTop)
    /\ Reset
    /\ UNCHANGED boot_cfg

(* ... while a block is being stored. *)
DataTouches(k) == (dl.erase..(dl.erase + SectorUnits - 1)) \cup {BlockAddr(k)}

PowerLossInData(k) ==
    /\ Running
    /\ dl.recv < k
    /\ \E part \in Torn(DlPart, DataTouches(k)) : SetDlPart(part)
    /\ Reset
    /\ UNCHANGED boot_cfg

(* ... inside save_boot_cfg, between its erase and the end of its write:   *)
(* when the checks reset or clear the record, when a passed check is noted *)
(* in it, when the application asks for an upgrade.                        *)
SavesBootCfg ==
    \/ Entering("check") /\ ~boot_cfg.ok
    \/ Entering("check") /\ ~BackupValid /\ boot_cfg.need
    \/ mode = "loader" /\ ChecksumAgrees
    \/ mode = "apl" /\ ~HasBackup

PowerLossInSave ==
    /\ SavesBootCfg
    /\ boot_cfg' = [ok |-> FALSE, need |-> FALSE]
    /\ Reset
    /\ UNCHANGED <<app, backup>>

PowerFailure ==
    \/ PowerLoss
    \/ PowerLossInCopy
    \/ PowerLossInBreak
    \/ \E img \in Images : \E k \in 1..ImgLen[img] : PowerLossInData(k)
    \/ PowerLossInSave
-----------------------------------------------------------------------------
Blank(n)      == [u \in 0..n-1 |-> Erased]
Flashed(n, i) == [u \in 0..n-1 |-> IF u < ImgLen[i] THEN i ELSE Erased]

(* A board leaves the factory with the loader and perhaps an application;  *)
(* its boot configuration was never written.                               *)
Init ==
    /\ \/ app = Blank(AppUnits)
       \/ \E i \in Images : ImgLen[i] <= AppUnits /\ app = Flashed(AppUnits, i)
    /\ backup = Blank(BackupUnits)
    /\ boot_cfg = [ok |-> FALSE, need |-> FALSE]
    /\ mode = "loader"
    /\ fsm = Boot
    /\ copy = NoCopy
    /\ dl = NoDownload
    /\ stale = FALSE

(* What stale remembers: from a block that was stored behind the loader's   *)
(* back until the loader looks at the partitions again.                     *)
Watch ==
    stale' = /\ mode' # "apl"
             /\ ~(mode' = "loader" /\ fsm'.change /\ fsm'.next = "check")
             /\ stale \/ (Committed /\ dl'.recv > dl.recv)

Next == (RunFsm \/ Request \/ PowerFailure) /\ Watch

Spec == Init /\ [][Next]_vars
(* The loop calls RUN_FSM for ever, and its timeouts are finite. *)
FairSpec == Spec /\ WF_vars(RunFsm /\ Watch)
-----------------------------------------------------------------------------
(* Properties *)

(* The processor never ends up in an application partition without a       *)
(* complete image: what ld_s_check_in or the copy verified still holds     *)
(* when ld_s_goto_app_exe jumps, whatever requests and power failures came *)
(* in between; except on a board without a backup partition that stored a  *)
(* block after the check (ImageRuns).                                      *)
NeverLost == mode = "lost" => stale /\ ~HasBackup

(* ... without the exception: "check that the Apl area holds firmware and  *)
(* that the firmware is right" before it is run.                           *)
ImageRuns == mode # "lost"

(* Why NeverLost holds: whoever is about to jump has seen a good image and *)
(* nobody has touched it since.                                            *)
AboutToJump ==
    /\ mode = "loader"
    /\ \/ fsm.change /\ fsm.next = "goto_apl"
       \/ ~fsm.change /\ fsm.cur = "check"
JumpInv == NeverLost /\ (AboutToJump => AppValid \/ (stale /\ ~HasBackup))

(* What is true while an image is copied, between any two steps: the units *)
(* behind program_addr are the image's, those from there to erase_addr are *)
(* blank, and the backup has not changed.  A block stored in the backup    *)
(* meanwhile is the only way to undo this.                                 *)
CopyOf(c, img) ==
    /\ Holds(backup, img)
    /\ c.size = ImgLen[img] /\ c.size <= AppUnits
    /\ c.prog <= c.size /\ c.prog <= c.erase /\ c.erase <= AppUnits
    /\ \E n \in 0..AppUnits : c.erase = n * SectorUnits
    /\ \A u \in 0..(c.prog - 1) : app[u] = img
    /\ \A u \in c.prog..(c.erase - 1) : app[u] = Erased
InstallInv ==
    /\ Entering("update_apl") /\ ~stale => BackupValid
    /\ Staying("update_apl") /\ ~stale =>
          HasBackup /\ \E img \in Images : CopyOf(copy, img)

(* Neither the state machine nor a power failure outside a download takes  *)
(* away the last image the board could run: the backup is invalidated only *)
(* after the copy was verified, and a copy is redone until it is whole;    *)
(* except that the loader may go on with an installation although a block  *)
(* has been stored over the backup since it checked it (ImageAlwaysLeft).  *)
Installable == \E i \in Images : ImgLen[i] <= AppUnits /\ Holds(backup, i)
Loadable    == AppValid \/ (HasBackup /\ Installable)
OnItsOwn    == \/ RunFsm \/ PowerLoss \/ PowerLossInCopy \/ PowerLossInBreak
               \/ PowerLossInSave
LosesLast   == Loadable /\ ~Loadable'
LastImageSurvives == [][LosesLast => stale \/ ~OnItsOwn]_vars

(* ... without the exception: the application is only erased for a backup  *)
(* whose content is "complete and valid".                                  *)
ImageAlwaysLeft == [][LosesLast => ~OnItsOwn]_vars

(* Copying one sector ahead is enough: every chunk of the backup is put    *)
(* into erased flash, so the finished copy passes its check the first time *)
(* and is never undone by the erasing that goes on beyond it, unless a     *)
(* block was stored in the backup under it.                                *)
CopySucceeds == [][~stale => ~\E c \in Copying : CopyFailed(c)]_vars

(* Once power stays on and the host is silent, a board with an image it    *)
(* can run ends up running it.                                             *)
Quiet == <>[][RunFsm]_vars
EventuallyRuns == Quiet => (<>[](mode = "apl") \/ <>[]~Loadable)
=============================================================================
