----------------------------- MODULE FetchModes -----------------------------
(* What the managers of code and of egress schemas start in each fetch mode: *)
(* sequences of fetchers, of which each has sources, pairs of an auction and *)
(* a name, or "code" and a name. Module UdfFetch runs them.                  *)
EXTENDS Sequences

\* The fetchers of each service, in the order in which Init starts them. kind is
\* the fetch mode. audience and appSignals are sequences of what one fetcher gets,
\* of an auction that is disabled none; in local mode there is only the first.
Fetcher(kind, sources) ==
    [kind |-> kind, sources |-> sources, requests |-> sources, schemas |-> FALSE,
     audience |-> 0]

BuyerCodeFetchers(kind, audience, appSignals) ==
    LET scripts == IF kind = "local" THEN audience ELSE audience \o appSignals
    IN  [k \in DOMAIN scripts |-> Fetcher(kind, scripts[k])]

\* Those of the buyers' reportWin() first, if the generation of its URLs is enabled;
\* URLs that are empty or malformed are skipped.
BuyerReporting(pa, pas, skipped) ==
    [Fetcher("buyers", pa \o pas) EXCEPT
        !.audience = Len(pa), !.requests = SelectSeq(@, LAMBDA s : s \notin skipped)]

SellerUdfFetchers(kind, script, reporting) == reporting \o <<Fetcher(kind, <<script>>)>>

\* Temporary unlimited egress before limited egress.
EgressSchemaFetchers(kind, schemas) ==
    [k \in DOMAIN schemas |-> [Fetcher(kind, schemas[k]) EXCEPT !.schemas = TRUE]]
=============================================================================
