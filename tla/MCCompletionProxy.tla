-------------------------- MODULE MCCompletionProxy --------------------------
(* "plain" has no alias, "hidden" has one, "deepinfra" reports estimates;  *)
(* "unpriced" is missing from the price table.                             *)
EXTENDS CompletionProxy

MCProviders == {"plain", "hidden", "deepinfra", "unpriced"}

\* Every kind of provider is selected, reached by failover and last in line.
MCChains ==
    {<<"plain", "hidden", "deepinfra">>,
     <<"hidden", "plain">>,
     <<"deepinfra", "unpriced">>,
     <<"unpriced">>}

=============================================================================
