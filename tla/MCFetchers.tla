----------------------------- MODULE MCFetchers -----------------------------
(* A periodic fetch over an HTTP client, and how the services' fetchers turn  *)
(* what is published into the code they run: UdfFetch takes a request to have *)
(* one answer, as PeriodicUrlFetcher shows, so that one of the two is         *)
(* explored at a time (part).                                                 *)
EXTENDS PeriodicUrlFetcher, UdfFetch

CONSTANTS
    Parts,  \* "http", "code"
    u1, u2, u3, b1, b2,
    a, b, v1, v2

VARIABLE part

ASSUME FetchersAssumption == HttpFetcherAssumption /\ PeriodicAssumption

allVars == <<part, vars, codeVars>>

-----------------------------------------------------------------------------
(* Two runs of the periodic fetch, of two URLs and of one, and one request of *)
(* another client, over two workers whose queues hold two requests.           *)

MCUrls == [x \in Batches |-> IF x = b1 THEN <<u1, u2>> ELSE <<u3>>]
MCRounds == <<b1, b2>>

-----------------------------------------------------------------------------
(* Each way to fetch code that the services can be configured for, with the   *)
(* fewest sources that show it.                                               *)

Service(fetchers) == [fetchers |-> fetchers, scoped |-> FALSE]
Scoped(fetchers) == [fetchers |-> fetchers, scoped |-> TRUE]

Code(n) == <<"code", n>>
PA(n) == <<"PA", n>>
PAS(n) == <<"PAS", n>>

MCContents == {v1, v2, Empty, Broken}

MCSchemaDeployments ==
    {Scoped(EgressSchemaFetchers("url", <<<<Code(a)>>, <<Code(b)>>>>)),
     Scoped(EgressSchemaFetchers("parc", <<<<Code(a)>>>>))}

\* A script with its WASM helper, the two scripts of app signals, a bucket with
\* two blobs; buyers with both kinds of reportWin(), with a URL that is left out,
\* and without any that is not.
MCDeployments ==
    {Service(BuyerCodeFetchers("local", <<<<Code(a)>>>>, <<>>)),
     Service(BuyerCodeFetchers("url", <<<<Code(a), Code(b)>>>>, <<>>)),
     Service(BuyerCodeFetchers("cpio", <<<<Code(a), Code(b)>>>>, <<>>)),
     Service(BuyerCodeFetchers("parc", <<>>, <<<<Code(a)>>, <<Code(b)>>>>)),
     Service(SellerUdfFetchers("url", Code(b), <<BuyerReporting(<<PA(a)>>, <<PAS(a)>>, {})>>)),
     Service(SellerUdfFetchers("local", Code(b),
                 <<BuyerReporting(<<PA(a), PA(b)>>, <<PAS(b)>>, {PA(a)})>>)),
     Service(SellerUdfFetchers("cpio", Code(b), <<BuyerReporting(<<PA(a)>>, <<>>, {PA(a)})>>))}
      \cup MCSchemaDeployments

-----------------------------------------------------------------------------

FetchersInit ==
    \/ /\ part = "code" /\ part \in Parts
       /\ kind = "queue"
       /\ Init /\ CodeInit
    \/ /\ part = "http" /\ part \in Parts
       /\ conf = CHOOSE d \in Deployments : TRUE
       /\ Init /\ CodeInit

Running(p) == part = p /\ UNCHANGED part

FetchersNext ==
    \/ Running("code") /\ CodeNext /\ UNCHANGED vars
    \/ Running("http") /\ Next /\ UNCHANGED codeVars

\* As in Spec of UdfFetch and of PeriodicUrlFetcher.
FetchersFairness ==
    /\ WF_allVars(Running("code") /\ ScopeEnds /\ UNCHANGED vars)
    /\ \A i \in 1..MaxFetchers :
          WF_allVars(Running("code") /\ Step(i) /\ UNCHANGED vars)
    /\ WF_allVars(Running("http") /\ Http /\ UNCHANGED codeVars)
    /\ WF_allVars(Running("http") /\ Sync /\ UNCHANGED codeVars)
    /\ WF_allVars(Running("http") /\ ~Up /\ Shutdown /\ UNCHANGED codeVars)

FetchersSpec ==
    FetchersInit /\ [][FetchersNext]_allVars /\ FetchersFairness

-----------------------------------------------------------------------------

\* The type invariants of both.
TypesOK == IF part = "code" THEN CodeTypeOK ELSE TypeOK

\* Every HTTP request is answered, and the thread that waits for a batch goes on; the
\* code in Roma becomes what is published.
FetchesEndAndCodeFollows ==
    <>[](/\ AllAnswered
         /\ part = "code" /\ ~conf.scoped => CodeIsPublished)

\* The egress schemas become those that are published.
SchemasFollowPublishedThen == part = "code" => SchemasFollowPublished
=============================================================================
