----------------------------- MODULE MCTraffic -----------------------------
(***************************************************************************)
(* One instance of each component that exchanges messages with the node    *)
(* and waits for what comes back: the pump, the proxy's response cache,    *)
(* the messages that are sent and the pings.  They meet at the command     *)
(* slot only, which ProxyCache has in full and the others see from afar;   *)
(* so a behaviour moves one of them, chosen at the start, and leaves the   *)
(* others in an initial state, in which the fairness of the pump asks for  *)
(* nothing.  The pump is given more clients than the proxy accepts, so     *)
(* that a client is refused while others are served.                       *)
(***************************************************************************)
EXTENDS MessagePump, ProxyCache, SentMessages, PingProbe

VARIABLE chosen

TrafficInit ==
    /\ chosen \in {"pump", "cache", "sent", "pings"}
    /\ PumpInit /\ (chosen # "pump" => mode = "auto")
    /\ CacheInit /\ SentInit /\ PingInit

TrafficNext ==
    \/ chosen = "pump"  /\ PumpNext  /\ UNCHANGED <<chosen, allVars, sentVars, pingVars>>
    \/ chosen = "cache" /\ CacheNext /\ UNCHANGED <<chosen, pumpVars, sentVars, pingVars>>
    \/ chosen = "sent"  /\ SentNext  /\ UNCHANGED <<chosen, pumpVars, allVars, pingVars>>
    \/ chosen = "pings" /\ PingNext  /\ UNCHANGED <<chosen, pumpVars, allVars, sentVars>>

trafficVars == <<chosen, pumpVars, allVars, sentVars, pingVars>>

TrafficSpec == TrafficInit /\ [][TrafficNext]_trafficVars /\ PumpFairness
=============================================================================
