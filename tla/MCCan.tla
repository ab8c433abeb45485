------------------------------- MODULE MCCan -------------------------------
(* The boards of a CAN bus: the driver's transmit side, the reassembly of  *)
(* long messages and the way boards get their addresses.  They meet only   *)
(* in what their models leave open (which frames are sent, lost and        *)
(* received) and share no variable, so each behaviour of the run is one of *)
(* one part: TLC sees the sum of their state spaces, not the product.      *)
EXTENDS BspCan, CanSrc, CanSAddr

CONSTANT MainSender

VARIABLE part

mcVars == <<part, vars, srcVars, addrVars>>

MCInit ==
    /\ part \in {"driver", "segments", "addresses"}
    /\ Init /\ srcInit /\ addrInit

(* One sender sends all its frames, the other ones a message each that     *)
(* comes between them.                                                     *)
FewInterrupters == \A s \in Srcs : on_bus'[s] > MessageLen + 1 => s = MainSender

MCNext ==
    /\ UNCHANGED part
    /\ \/ part = "driver" /\ Next /\ UNCHANGED <<srcVars, addrVars>>
       \/ part = "segments" /\ srcNext /\ FewInterrupters
          /\ UNCHANGED <<vars, addrVars>>
       \/ part = "addresses" /\ addrNext /\ UNCHANGED <<vars, srcVars>>

(* The fairness of FairSpec and of addrSpec, for the behaviours of their   *)
(* parts.                                                                  *)
MCSpec ==
    /\ MCInit /\ [][MCNext]_mcVars
    /\ WF_vars(part = "driver" /\ Driver)
    /\ WF_vars(part = "driver" /\ Timeout)
    /\ WF_vars(part = "driver" /\ (Irq \/ BusDrop))
    /\ WF_addrVars(part = "addresses" /\ RunAny)
    /\ WF_addrVars(part = "addresses" /\ Tick)
    /\ WF_addrVars(part = "addresses" /\ ForgetAny)

(* The types of the parts. *)
CanTypeOK == TypeOK /\ srcTypeOK /\ addrTypeOK
=============================================================================
