------------------------------ MODULE Upgrade -------------------------------
(* A download session: the host program, a link that delays and loses       *)
(* frames, and the board of Loader.  The host is not part of the            *)
(* repository; it is modelled from what the handlers of xf_upgrade.c expect *)
(* of it: configuration, then the blocks in order, then the check, each     *)
(* repeated until it is answered.  "Whenever the configuration is sent      *)
(* again, reception starts from scratch: the host may die half way."        *)
EXTENDS Loader, Sequences

CONSTANT LinkRoom       \* frames under way in one direction

ASSUME LinkAssumption == LinkRoom \in Nat \ {0}

VARIABLES
    host,       \* the host program: what it is doing, with which image
    req,        \* frames on their way to the board
    rep         \* answers on their way to the host

link     == <<host, req, rep>>
sessions == <<vars, host, req, rep>>
-----------------------------------------------------------------------------
Phases  == {"idle", "cfg", "data", "check", "done", "refused"}
Frames  == [cmd : {"cfg"}, img : Images]
      \cup [cmd : {"data"}, img : Images, block : Nat]
      \cup [cmd : {"check"}]
Answers == [cmd : {"cfg"}, sta : {"ok", "too_large"}]
      \cup [cmd : {"data"}, block : Nat]
      \cup [cmd : {"check"}, sta : {"ok", "check_err"}]

(* Type correctness of the session's own state.  steady: the board has not *)
(* lost power since the host began.                                        *)
SessionTypeOK ==
    /\ host \in [phase : Phases, img : Images, block : Nat, steady : BOOLEAN]
    /\ req \in Seq(Frames) /\ Len(req) <= LinkRoom
    /\ rep \in Seq(Answers) /\ Len(rep) <= LinkRoom
-----------------------------------------------------------------------------
(* The host *)

HostFrame ==
    CASE host.phase = "cfg"   -> [cmd |-> "cfg", img |-> host.img]
      [] host.phase = "data"  -> [cmd |-> "data", img |-> host.img,
                                  block |-> host.block]
      [] host.phase = "check" -> [cmd |-> "check"]

Busy == host.phase \in {"cfg", "data", "check"}

(* The host begins a session; whatever it was doing before is given up, and *)
(* nothing of it is under way any more.                                    *)
HostBegin(img) ==
    /\ req = <<>> /\ rep = <<>>
    /\ host' = [phase |-> "cfg", img |-> img, block |-> 1, steady |-> TRUE]
    /\ UNCHANGED <<vars, req, rep>>

(* It sends the frame it wants answered, again and again.                  *)
HostSend ==
    /\ Busy
    /\ Len(req) < LinkRoom
    /\ req' = Append(req, HostFrame)
    /\ UNCHANGED <<vars, host, rep>>

(* It goes on once that frame is answered, and ignores any other answer.   *)
Advance(answer) ==
    CASE host.phase = "cfg" /\ answer.cmd = "cfg" ->
            IF answer.sta = "ok" THEN [host EXCEPT !.phase = "data"]
                                 ELSE [host EXCEPT !.phase = "refused"]
      [] host.phase = "data" /\ answer = [cmd |-> "data", block |-> host.block] ->
            IF host.block = ImgLen[host.img]
            THEN [host EXCEPT !.phase = "check"]
            ELSE [host EXCEPT !.block = @ + 1]
      [] host.phase = "check" /\ answer.cmd = "check" ->
            IF answer.sta = "ok" THEN [host EXCEPT !.phase = "done"]
                                 ELSE [host EXCEPT !.phase = "refused"]
      [] OTHER -> host

HostReceive ==
    /\ rep # <<>>
    /\ host' = Advance(Head(rep))
    /\ rep' = Tail(rep)
    /\ UNCHANGED <<vars, req>>
-----------------------------------------------------------------------------
(* The board serves the frame at the head of the link *)

(* Mutant: answers are queued without looking for room. *)
AnswerAnyway(answer) == rep' = Append(rep, answer)

AnswerWith(answer) ==
    rep' = IF Len(rep) < LinkRoom THEN Append(rep, answer) ELSE rep

ServeCfg(frame) ==
    /\ frame.cmd = "cfg"
    /\ Running
    /\ \/ /\ CfgTooLarge(frame.img)
          /\ AnswerWith([cmd |-> "cfg", sta |-> "too_large"])
       \/ /\ CfgAccepted(frame.img)
          /\ AnswerWith([cmd |-> "cfg", sta |-> "ok"])
       \/ /\ CfgHandedToLoader(frame.img)
          /\ UNCHANGED rep

(* update_sta_ok and update_sta_cur_block_is_been_write mean the same to   *)
(* the host: the block need not be sent again.                             *)
ServeData(frame) ==
    /\ frame.cmd = "data"
    /\ HandleData(frame.img, frame.block)
    /\ AnswerWith([cmd |-> "data", block |-> frame.block])

ServeCheck(frame) ==
    /\ frame.cmd = "check"
    /\ \/ /\ CheckRefused
          /\ AnswerWith([cmd |-> "check", sta |-> "check_err"])
       \/ /\ CheckPassedInLoader \/ CheckPassedInApl
          /\ AnswerWith([cmd |-> "check", sta |-> "ok"])

Serve ==
    /\ req # <<>>
    /\ \/ ServeCfg(Head(req))
       \/ ServeData(Head(req))
       \/ ServeCheck(Head(req))
    /\ Watch
    /\ req' = Tail(req)
    /\ UNCHANGED host

RunBoard == RunFsm /\ Watch /\ UNCHANGED link

(* Power fails between handlers, or inside the one serving a block.        *)
BoardFails ==
    /\ \/ /\ PowerLoss \/ PowerLossInCopy \/ PowerLossInBreak \/ PowerLossInSave
          /\ UNCHANGED req
       \/ /\ req # <<>>
          /\ Head(req).cmd = "data"
          /\ PowerLossInData(Head(req).block)
          /\ req' = Tail(req)
    /\ Watch
    /\ host' = [host EXCEPT !.steady = FALSE]
    /\ UNCHANGED rep

LoseRequest ==
    /\ req # <<>>
    /\ req' = Tail(req)
    /\ UNCHANGED <<vars, host, rep>>

LoseAnswer ==
    /\ rep # <<>>
    /\ rep' = Tail(rep)
    /\ UNCHANGED <<vars, host, req>>
-----------------------------------------------------------------------------
SessionInit ==
    /\ Init
    /\ \E img \in Images :
          host = [phase |-> "idle", img |-> img, block |-> 1, steady |-> TRUE]
    /\ req = <<>>
    /\ rep = <<>>

SessionNext ==
    \/ \E img \in Images : HostBegin(img)
    \/ HostSend
    \/ HostReceive
    \/ Serve
    \/ RunBoard
    \/ BoardFails
    \/ LoseRequest
    \/ LoseAnswer

SessionSpec == SessionInit /\ [][SessionNext]_sessions
FairSessionSpec == SessionSpec /\ WF_sessions(RunBoard)
-----------------------------------------------------------------------------
(* Properties *)

(* What the host has sent and seen answered is in the flash, block by      *)
(* block, for as long as the board remembers the session: repeated         *)
(* configurations and blocks, and the sectors erased ahead, never undo it. *)
SentPrefixIsStored ==
    host.phase \in {"data", "check"} /\ dl.sum = host.img =>
        \A u \in 0..(dl.recv - 1) : DlPart[u] = host.img

(* The board is never behind the host: what the host counts as delivered   *)
(* was delivered.                                                          *)
BoardKeepsUp ==
    host.phase = "data" /\ dl.sum = host.img => dl.recv >= host.block - 1

(* An image that arrived on a board that kept its power is not refused.    *)
SteadySessionNotRefused ==
    [][host'.phase = "refused" /\ host.phase = "check" => ~host.steady]_sessions

(* "The answer that the upgrade is complete is given only once it is": a   *)
(* host told so has its image on the board.                                *)
AcknowledgedImageIsStored ==
    [][host'.phase = "done" /\ host.phase = "check"
         => Holds(DlPart, host.img) \/ Holds(app, host.img)]_sessions
=============================================================================
