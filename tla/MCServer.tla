------------------------------- MODULE MCServer -------------------------------
(***************************************************************************)
(* Requests of every class of route, with either key, a wrong one and      *)
(* none, below, between and above the payload limits; environments with    *)
(* one defect each and two the configuration accepts.                      *)
(***************************************************************************)
EXTENDS Server

Ask(route, credential, size, declared) ==
    [route |-> route, credential |-> credential, size |-> size, declared |-> declared]

MCInputs ==
    {Ask("livez", Nothing, 2, TRUE), Ask("readyz", Nothing, 0, TRUE),
     Ask("metrics", Nothing, 3, TRUE), Ask("metadata", "beta", 0, TRUE),
     Ask("generation", "prod", 2, FALSE), Ask("generation", Nothing, 0, TRUE),
     Ask("inference", "prod", 2, TRUE), Ask("inference", "beta", 3, FALSE),
     Ask("inference", "wrong", 3, TRUE)}

\* Requests that wait.
WaitingInputs ==
    {Ask("inference", "prod", 2, TRUE), Ask("generation", "beta", 0, TRUE),
     Ask("readyz", Nothing, 0, TRUE)}

Valid == [gatewayKey |-> "prod", betaKey |-> Nothing, sidecarUrl |-> Nothing,
          readinessUrl |-> Nothing, registryPath |-> Nothing,
          databaseUrl |-> "postgres", ceiling |-> 10, hysteresis |-> 1, maxShare |-> 10,
          window |-> 1]

Accepted == {Valid, [Valid EXCEPT !.betaKey = "beta", !.readinessUrl = "http"]}

Faulty ==
    {[Valid EXCEPT !.gatewayKey = Nothing], [Valid EXCEPT !.gatewayKey = Undecodable],
     [Valid EXCEPT !.gatewayKey = Blank], [Valid EXCEPT !.betaKey = Undecodable],
     [Valid EXCEPT !.betaKey = Blank], [Valid EXCEPT !.betaKey = "prod"],
     [Valid EXCEPT !.sidecarUrl = Blank], [Valid EXCEPT !.sidecarUrl = "ftp"],
     [Valid EXCEPT !.readinessUrl = "ftp"], [Valid EXCEPT !.databaseUrl = Nothing],
     [Valid EXCEPT !.registryPath = Blank], [Valid EXCEPT !.ceiling = -1],
     [Valid EXCEPT !.hysteresis = -1], [Valid EXCEPT !.maxShare = 11],
     [Valid EXCEPT !.maxShare = 0], [Valid EXCEPT !.window = 0],
     [Valid EXCEPT !.window = Nothing]}

MCEnvironments == Accepted \cup Faulty

==============================================================================
