------------------------------ MODULE MCServices ------------------------------
(***************************************************************************)
(* Small instances of Uploads, Captures and DebugProxy for TLC.  The three *)
(* share no state, so their interleaving shows nothing that each does not  *)
(* show alone: an execution is one of them.                                *)
(***************************************************************************)
EXTENDS Uploads, Captures, DebugProxy

CONSTANTS u1, u2, d1, d2, s1, name, i1, i2, h1

VARIABLE part       \* the module this execution is one of

serviceVars == <<vars, capVars, proxyVars, part>>

EveryFault == {"create", "write", "copy"}

ServicesInit ==
    Init /\ CapturesInit /\ ProxyInit /\ part \in {"uploads", "captures", "proxy"}

InUploads(A) == part = "uploads" /\ A /\ UNCHANGED <<capVars, proxyVars, part>>
InCaptures(A) == part = "captures" /\ A /\ UNCHANGED <<vars, proxyVars, part>>
InProxy(A) == part = "proxy" /\ A /\ UNCHANGED <<vars, capVars, part>>

ServicesNext == InUploads(Next) \/ InCaptures(CapturesNext) \/ InProxy(ProxyNext)

ServicesFairness ==
    /\ WF_serviceVars(InCaptures(Sweep)) /\ WF_serviceVars(InCaptures(Age))
    /\ WF_serviceVars(InProxy(HandleProxy))
    /\ \A e \in Ends :
          /\ WF_serviceVars(InProxy(RunPump(e)))
          /\ WF_serviceVars(InProxy(EndTakes(e)))

ServicesSpec == ServicesInit /\ [][ServicesNext]_serviceVars /\ ServicesFairness

=============================================================================
