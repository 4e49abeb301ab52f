------------------------------- MODULE DeviceMC ------------------------------
(* What the device remembers, shows and takes in, where nothing is promised of   *)
(* the end: the history of charges (a ring of three, two in the first page and   *)
(* two enough for a suggestion); two profiles whose gains are read and edited;    *)
(* the forms of the display, looked at for the weights or for the profiles;       *)
(* three clients for two addresses; a scale under each framing; and the error     *)
(* log with two tasks that report.  They have no state in common and are checked  *)
(* in one run: "focus" says which moves.                                     *)
EXTENDS TuningHistory, ProfileGains, MenuForms, DhcpLeases, ScaleLink, ErrorLog
CONSTANTS c1, c2, c3, r1, r2
OneProfile   == {0}
TwoProfiles  == {0, 1}
OneNumber    == {7}
OneRequested == {5}
ThreeClients == {c1, c2, c3}
TwoReporters == {r1, r2}

VARIABLE focus
MCInit ==
    /\ HistoryInit /\ GainsInit /\ MenuInit /\ DhcpInit /\ ScaleLinkInit /\ ErrorLogInit
    /\ places = 2 /\ picked = 0
    /\ focus \in {"history", "gains", "weights", "profiles", "leases", "frames", "errors"}
    /\ focus # "gains" => current = 0
    /\ focus # "frames" => framing = "line" /\ wire[2] = 1

Settings == <<historyVars, gainsVars>>
Wires    == <<leaseVars, linkVars>>
MCNext ==
    /\ UNCHANGED focus
    /\ \/ focus = "history" /\ HistoryNext /\ UNCHANGED <<gainsVars, menuVars, Wires, logVars>>
       \/ focus = "gains" /\ GainsNext /\ UNCHANGED <<historyVars, menuVars, Wires, logVars>>
       \/ /\ focus = "weights" /\ MenuNext
          /\ UNCHANGED <<Settings, Wires, logVars>> /\ UNCHANGED profileVars
       \/ /\ focus = "profiles" /\ MenuNext
          /\ UNCHANGED <<Settings, Wires, logVars>> /\ UNCHANGED <<shownVars, target>>
       \/ focus = "leases" /\ DhcpNext /\ UNCHANGED <<Settings, menuVars, linkVars, logVars>>
       \/ focus = "frames" /\ ScaleLinkNext /\ UNCHANGED <<Settings, menuVars, leaseVars, logVars>>
       \/ focus = "errors" /\ ErrorLogNext /\ UNCHANGED <<Settings, menuVars, Wires>>
MCSpec == MCInit /\ [][MCNext]_<<Settings, menuVars, Wires, logVars, focus>>
=============================================================================
