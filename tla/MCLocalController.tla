------------------------- MODULE MCLocalController -------------------------
(***************************************************************************)
(* TLC instance of the two processes that follow the northbound database:  *)
(* the controller, whose events and reads may fail (LocalController), and  *)
(* the BGP service with the plugin that writes its tables (Bgp).  They     *)
(* share no state, so a behaviour is one of one of them: focus says of     *)
(* which.                                                                  *)
(***************************************************************************)
EXTENDS LocalController, TLC

CONSTANTS n, p   \* objects; the later one may reference the earlier one

VARIABLES focus,
    neutron, tables, job, requests, stale, clash, svc, driver, torn

\* An object and one that may reference it.
TwoModels == <<{n}, {p}>>

\* Two requests, from all states of a speaker, a peer and a floating IP.
Bgp == INSTANCE Bgp WITH nb <- tables, Workers <- {"w1", "w2"},
    Peers <- {"peer"}, Fips <- {"floating IP"}, Hosts <- {"c1", "c2"},
    MaxRequests <- 2

bgpVars == <<neutron, tables, job, requests, stale, clash, svc, driver, torn>>
allVars == <<focus, vars, bgpVars>>

MCInit ==
    /\ focus \in {"controller", "bgp"}
    /\ Init /\ Bgp!Init
    /\ focus # "bgp" => tables.row = None

InController == focus = "controller" /\ UNCHANGED <<focus, bgpVars>>
InBgp == focus = "bgp" /\ UNCHANGED <<focus, vars>>

\* Only a pulse that was ended by an exception comes to rest.
AtRest == focus = "bgp" /\ svc.pc = "stopped" /\ UNCHANGED allVars

MCNext == (InController /\ Next) \/ (InBgp /\ Bgp!Next) \/ AtRest

\* The fairness of the modules.
MCFairness ==
    /\ WF_vars(InController /\ Step)
    /\ SF_vars(InController /\ HandleSync)
    /\ WF_vars(InController /\ SubmitSyncEvent)
    /\ WF_vars(InController /\ NbRecovers)
    /\ WF_vars(InController /\ Restart)
    /\ WF_bgpVars(InBgp /\ Bgp!Pulse)
    /\ \A w \in {"w1", "w2"} : WF_bgpVars(InBgp /\ Bgp!Handle(w))

MCSpec == MCInit /\ [][MCNext]_allVars /\ MCFairness

----------------------------------------------------------------------------
(* Properties: see the modules; those of the controller keep their names. *)

\* All state keeps its type.
TypesOK == TypeOK /\ Bgp!TypeOK

\* DFBgpPlugin, BGPService: the rows are what Neutron has, the driver has what
\* was read of them, and the pulse goes on.
RoutesFollow == Bgp!RoutesFollow

\* BGPService: what is in the northbound database is advertised in the end.
AdvertisedEventually == Bgp!AdvertisedEventually
=============================================================================
