----------------------------- MODULE MCDownload -----------------------------
(* How a firmware reaches a board: the session with the host, the link its  *)
(* frames come over, and the driver of the chip the image is stored in.     *)
(* The session's model has a link that loses frames, and flash writes that  *)
(* store their data, which is what the models of the other two show; they   *)
(* share no variable, so each behaviour of the run is one of one component: *)
(* TLC sees the sum of their state spaces, not the product.                 *)
EXTENDS MCUpgrade, Link, BspFlash

VARIABLE component

mcVars == <<component, sessions, linkVars, drvVars>>

(* A component that rests has one initial state.                            *)
MCInit ==
    /\ component \in {"session", "link", "driver"}
    /\ SessionInit /\ linkInit /\ drvInit
    /\ component = "session" \/ (app = Blank(AppUnits) /\ host.img = small)
    /\ component = "link" \/ \A f \in FrameIds : length[f] = 1

(* The line may carry its last frame: only the others must be able to go on *)
(* always.                                                                  *)
MCNext ==
    /\ UNCHANGED component
    /\ \/ component = "session" /\ SessionNext /\ UNCHANGED <<linkVars, drvVars>>
       \/ component = "link" /\ linkNext /\ UNCHANGED <<sessions, drvVars>>
       \/ component = "driver" /\ drvNext /\ UNCHANGED <<sessions, linkVars>>
       \/ component = "link" /\ UNCHANGED <<sessions, linkVars, drvVars>>

(* The fairness of FairSessionSpec and of linkFairSpec, for the behaviours  *)
(* of their components.                                                     *)
MCSpec ==
    /\ MCInit /\ [][MCNext]_mcVars
    /\ WF_sessions(component = "session" /\ RunBoard)
    /\ WF_linkVars(component = "link" /\ Loop)

(* The types of the components. *)
DownloadTypeOK ==
    /\ component = "session" => SessionTypeOK
    /\ component = "link" => linkTypeOK
    /\ component = "driver" => drvTypeOK
=============================================================================
