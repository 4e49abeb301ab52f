------------------------------- MODULE LinksMC -------------------------------
(* Two HTTP connections, a page, and two endpoints of the AI tuning that share     *)
(* their buffer, with memory for less than both answers;                         *)
(* the handlers registered; one request, of every text up to a bound; and charge  *)
(* after charge with the simulated scale.  They have no state in common and are   *)
(* checked in one run: "focus" says which moves.                              *)
EXTENDS HttpServer, HttpUri, ScaleSim
CONSTANTS c1, c2
TwoConns == {c1, c2}
TuningEndpoints == {"status", "history"}
OneBuffer == [e \in TuningEndpoints |-> "ai_tuning_json_buffer"]
OnePage == {"page"}
TwoHandlers == {"/404", "/uri"}
OneKey == {"k"}
FourSymbols == {"x", "&", "=", " "}

VARIABLE focus
MCInit ==
    /\ Init /\ UriInit /\ ScaleSimInit
    /\ focus \in {"connections", "handlers", "request", "simulation"}
MCNext ==
    /\ UNCHANGED focus
    /\ \/ focus = "connections" /\ Next /\ UNCHANGED <<uriVars, simVars>>
       \/ focus = "handlers" /\ StartUp /\ UNCHANGED <<vars, simVars>>
       \/ focus = "request" /\ ClientWrites /\ UNCHANGED <<vars, simVars>>
       \/ focus = "simulation" /\ ScaleSimNext /\ UNCHANGED <<vars, uriVars>>
MCSpec ==
    /\ MCInit /\ [][MCNext]_<<vars, uriVars, simVars, focus>>
    /\ focus = "connections" => Fairness
    /\ focus = "simulation" => ScaleSimFairness
=============================================================================
