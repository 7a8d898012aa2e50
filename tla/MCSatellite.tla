----------------------------- MODULE MCSatellite -----------------------------
(***************************************************************************)
(* The three programs that open sessions: the ESP32 firmware, the desktop  *)
(* client and the admin's test console.  They share no state: a behaviour  *)
(* is one of theirs.                                                       *)
(***************************************************************************)
EXTENDS Satellite, DesktopClient, TestConsole

VARIABLE part

allVars == <<part, vars, clientVars, consoleVars>>

MCInit ==
    /\ part \in {"esp32", "client", "console"}
    /\ Init /\ ClientInit /\ ConsoleInit
    /\ part # "client" => mode = "text"

MCNext ==
    \/ Next /\ part = "esp32" /\ UNCHANGED <<part, clientVars, consoleVars>>
    \/ ClientNext /\ part = "client" /\ UNCHANGED <<part, vars, consoleVars>>
    \/ ConsoleNext /\ part = "console" /\ UNCHANGED <<part, vars, clientVars>>

MCSpec == MCInit /\ [][MCNext]_allVars

\* DesktopClient and TestConsole: the one session of each keeps the protocol, as
\* those of the firmware do (ImplementsProtocol of Satellite).
ClientImplementsProtocol == ClientKeepsProtocol /\ ConsoleKeepsProtocol

\* Satellite: sessions end without help from the server (on_tick).
SatelliteSessionsEnd == part = "esp32" => (Fairness => SessionsEnd)

\* DesktopClient: what keeps the client from ending at its deadline; and
\* TestConsole: the HTTP request is answered and its session closed.
ClientsEnd ==
    /\ part = "client" => (ClientFairness => OnlyAFullChannelKeepsTheClient)
    /\ part = "console" => (ConsoleFairness => RequestIsAnswered)
=============================================================================
