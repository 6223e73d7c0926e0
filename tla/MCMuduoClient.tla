---------------------------- MODULE MCMuduoClient -----------------------------
EXTENDS MuduoClient

MCClients == 1 .. 2

\* The first client's timer fires once, the second's does not.
MCMaxPings == <<1, 0>>
===============================================================================
