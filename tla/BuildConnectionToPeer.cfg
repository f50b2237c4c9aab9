SPECIFICATION FairSpec
CONSTANTS
    Candidates = {a1, a2, a3}
    Data = {d1, d2, d3}
INVARIANTS InternetAddressSet PeersAgreeOnStream ProxiedDataIntact
PROPERTIES BuildResolves HelpersEnd ProxyReachesPeer2
\* An attempt ends.
CHECK_DEADLOCK FALSE
