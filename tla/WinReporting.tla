---------------------------- MODULE WinReporting ----------------------------
(* What reportResult() of the seller and reportWin() of the buyer are told of *)
(* the ad that won, and where the URLs they return go (auction_service,       *)
(* reporting/ and score_ads_reactor.cc): with the code of sellers and buyers  *)
(* isolated, or by the one deprecated entry function. Of the numbers that are *)
(* rounded only their bits matter: they are naturals, with K bits kept.       *)
EXTENDS Integers, FiniteSets, Sequences, SequencesExt, FiniteSetsExt

CONSTANTS
    Wins,   \* see IsWin
    K,      \* kStochasticalRoundingBits
    MinExp, \* exponents below this one are rounded to 0...
    MaxExp  \* ...and those above to infinity

Scopes == {"single", "deviceComponent", "serverComponent", "topLevel"}
ReportingIds == {"selectedBuyerAndSellerReportingId", "buyerAndSellerReportingId",
                 "buyerReportingId"}
Numbers == 0..2^(MaxExp + 1) - 1
IsOptional(s) == s \in Seq(Nat) /\ Len(s) <= 1

\* isolated: enable_seller_and_buyer_code_isolation; kind: "PA" or "PAS"; sellerBid and
\* modified are 0 if they are not set; noising and pas: flags of the entry function only.
IsWin(w) ==
    /\ w.scope \in Scopes /\ w.kind \in {"PA", "PAS"}
    /\ {w.isolated, w.reportWin, w.buyerHasUdf, w.enforced, w.noising, w.pas,
        w.componentUrls} \subseteq BOOLEAN
    /\ {w.bid, w.sellerBid, w.modified, w.score, w.adCost} \subseteq Numbers
    /\ {w.otherBid, w.sellerVersion, w.buyerVersion} \subseteq Nat
    /\ w.ids \subseteq ReportingIds
    /\ IsOptional(w.joinCount) /\ IsOptional(w.recency) /\ IsOptional(w.modeling)
    /\ w.kind = "PAS" => /\ w.pas /\ w.ids = {} /\ w.buyerVersion = 0
                         /\ w.joinCount = <<>> /\ w.recency = <<>> /\ w.modeling = <<>>
    /\ ~w.isolated => ~(w.scope = "topLevel" /\ w.reportWin)
    /\ w.componentUrls => w.scope = "topLevel"

WinReportingAssumption ==
    /\ K \in Nat \ {0} /\ MinExp \in Nat /\ MaxExp \in Nat /\ K < MaxExp
    /\ \A w \in Wins : IsWin(w)

VARIABLES
    win,       \* the ad and the flags
    document,  \* seller_device_signals_
    told,      \* what the scripts were given, by script
    signals,   \* signals_for_winner
    reply,     \* URLs and IDs of the response
    cancelled, step, finished

vars == <<win, document, told, signals, reply, cancelled, step, finished>>

None == "none"
Scripts == {"reportResult", "reportWin"}
Nothing == <<<<"nothing", 0>>>> \* a script that has not been called

TypeOK ==
    /\ win \in Wins
    /\ DOMAIN told = Scripts
    /\ signals \in {"null", "signals"}
    /\ DOMAIN reply.urls = {"component", "top", "buyer"} /\ reply.ids \subseteq ReportingIds
    /\ cancelled \in BOOLEAN
    /\ step \in {"start", "entry", "reportResult", "reportWin", "done"}
    /\ finished \in {None, "OK", "CANCELLED"}

IsComponent == win.scope \in {"deviceComponent", "serverComponent"}
IsTopLevel == win.scope = "topLevel"

\* PopulateComponentReportingUrlsInTopLevelResponse comes first.
Init ==
    /\ win \in Wins
    /\ document = <<>>
    /\ told = [s \in Scripts |-> Nothing]
    /\ signals = "null"
    /\ reply = [ids |-> {},
                urls |-> [component |-> IF win.componentUrls THEN "component" ELSE None,
                          top |-> None,
                          buyer |-> IF win.componentUrls THEN "component" ELSE None]]
    /\ cancelled = FALSE /\ step = "start" /\ finished = None

-----------------------------------------------------------------------------
(* Numbers. One draw stands for all of a document: up or down, or a failure   *)
(* of the generator; noise is at an end of its range.                         *)

Rolls == {"down", "up", "fail"} \X {"none", "least", "most"}
Failed == -1
Inf == 2^MaxExp

\* frexp(): 2^(e-1) <= v < 2^e.
Exponent(v) == Min({e \in 0..MaxExp + 1 : v < 2^e})

RoundStochasticallyToKBits(v, roll) ==
    LET e == Exponent(v)
        unit == 2^(IF e > K THEN e - K ELSE 0)
        kept == v \div unit
    IN IF v # 0 /\ e < MinExp THEN 0
       ELSE IF e > MaxExp THEN Inf
       ELSE IF roll[1] = "fail" THEN Failed
       ELSE IF roll[1] = "down" \/ v % unit = 0 THEN v - (v % unit)
       ELSE (kept + 1) * unit

BucketJoinCount(c) ==
    IF c <= 10 THEN Max({1, c})
    ELSE 10 + Cardinality({t \in {10, 20, 30, 40, 50, 100} : c > t})

BucketRecency(r) ==
    IF r < 10 THEN Max({0, r})
    ELSE 9 + Cardinality({t \in {10, 15, 20, 30, 40, 50, 60, 75, 90, 105, 120, 240, 720,
                                 1440, 2160, 2880, 4320, 5760, 10080, 20160, 30240, 40320} :
                            t <= r})

\* One number in a hundred is replaced by any of its range.
Noise(n, least, most, roll) ==
    CASE roll[1] = "fail" -> Failed
      [] roll[1] # "fail" /\ roll[2] = "none" -> n
      [] roll[1] # "fail" /\ roll[2] = "least" -> least
      [] roll[1] # "fail" /\ roll[2] = "most" -> most

NoiseAndBucketJoinCount(c, roll) == Noise(BucketJoinCount(c), 1, 16, roll)
NoiseAndBucketRecency(r, roll) == Noise(BucketRecency(r), 0, 31, roll)
NoiseAndMaskModelingSignals(m, roll) == Noise(m % 4096, 0, 4095, roll)

-----------------------------------------------------------------------------
(* Documents are sequences of members; AddMember appends, whatever is there.  *)
(* The members that nothing depends on are left out: hosts, owners, render    *)
(* URLs and currencies.                                                       *)

Text == 0

Member(name, value) == <<<<name, value>>>>
MemberIf(given, name, value) == IF given THEN Member(name, value) ELSE <<>>
MemberIfKnown(name, value) == MemberIf(value # Failed, name, value)
RemoveMember(doc, name) == RemoveFirstMatch(doc, LAMBDA m : m[1] = name)
HasMember(doc, name) == \E i \in DOMAIN doc : doc[i][1] = name
AddIfNotPresent(doc, name) == IF HasMember(doc, name) THEN doc ELSE doc \o Member(name, Text)

\* SerializeJsonDoc: JSON has no infinity.
RoundedNames == {"bid", "desirability", "modifiedBid", "adCost"}
Serializable(doc) == \A i \in DOMAIN doc : doc[i][1] \in RoundedNames => doc[i][2] # Inf

ModifiedBid == IF win.modified > 0 THEN win.modified ELSE win.bid

GenerateSellerDeviceSignals(roll) ==
    MemberIfKnown("bid", RoundStochasticallyToKBits(
                             IF win.sellerBid > 0 THEN win.sellerBid ELSE win.bid, roll))
    \o MemberIf(win.sellerVersion > 0, "dataVersion", win.sellerVersion)
    \o MemberIfKnown("desirability", RoundStochasticallyToKBits(win.score, roll))
    \o Member("highestScoringOtherBid", win.otherBid)
    \o MemberIf("selectedBuyerAndSellerReportingId" \in win.ids,
                "selectedBuyerAndSellerReportingId", Text)
    \o MemberIf("buyerAndSellerReportingId" \in win.ids, "buyerAndSellerReportingId", Text)

GenerateSellerDeviceSignalsForComponentAuction(roll) ==
    GenerateSellerDeviceSignals(roll)
    \o Member("topLevelSeller", Text)
    \o MemberIfKnown("modifiedBid", RoundStochasticallyToKBits(ModifiedBid, roll))

\* The desirability is GetEightBitRoundedValue's: -1 if the generator fails.
GenerateSellerDeviceSignalsForTopLevelAuction(roll) ==
    MemberIfKnown("bid", RoundStochasticallyToKBits(win.bid, roll))
    \o Member("desirability", RoundStochasticallyToKBits(win.score, roll))
    \o Member("componentSeller", Text)

SetReportingIds(doc) ==
    CASE "selectedBuyerAndSellerReportingId" \in win.ids ->
            LET known == AddIfNotPresent(doc, "selectedBuyerAndSellerReportingId")
                both == IF "buyerAndSellerReportingId" \in win.ids
                        THEN AddIfNotPresent(known, "buyerAndSellerReportingId") ELSE known
            IN both \o MemberIf("buyerReportingId" \in win.ids, "buyerReportingId", Text)
      [] win.ids \cap {"selectedBuyerAndSellerReportingId", "buyerAndSellerReportingId"}
            = {"buyerAndSellerReportingId"} ->
            AddIfNotPresent(doc, "buyerAndSellerReportingId")
      [] win.ids = {"buyerReportingId"} -> AddIfNotPresent(doc, "buyerReportingId")
      [] win.ids = {} -> doc \o Member("interestGroupName", Text)

\* A number that cannot be noised is left out.
BuyersNumbers(roll) ==
    (IF win.joinCount = <<>> THEN <<>>
     ELSE MemberIfKnown("joinCount", NoiseAndBucketJoinCount(win.joinCount[1], roll)))
    \o (IF win.recency = <<>> THEN <<>>
        ELSE MemberIfKnown("recency", NoiseAndBucketRecency(win.recency[1], roll)))
    \o (IF win.modeling = <<>> THEN <<>>
        ELSE MemberIfKnown("modelingSignals",
                           NoiseAndMaskModelingSignals(win.modeling[1], roll)))

PassedAndEnforced == win.enforced /\ win.kind = "PA"

\* The seller's data version under the name of the buyer's.
BugGenerateBuyerDeviceSignals(doc, roll) ==
    SetReportingIds(RemoveMember(RemoveMember(doc, "desirability"), "modifiedBid")
                    \o Member("madeHighestScoringOtherBid", Text)
                    \o BuyersNumbers(roll)
                    \o Member("seller", Text)
                    \o MemberIfKnown("adCost", RoundStochasticallyToKBits(win.adCost, roll)))
    \o MemberIf(win.buyerVersion > 0, "dataVersion", win.buyerVersion)
    \o Member("kAnonStatus", IF PassedAndEnforced THEN 1 ELSE 0)

\* The document of the seller becomes the buyer's.
GenerateBuyerDeviceSignals(doc, roll) ==
    SetReportingIds(
        RemoveMember(RemoveMember(RemoveMember(doc, "desirability"), "modifiedBid"),
                     "dataVersion")
        \o Member("madeHighestScoringOtherBid", Text)
        \o BuyersNumbers(roll)
        \o Member("seller", Text)
        \o MemberIfKnown("adCost", RoundStochasticallyToKBits(win.adCost, roll)))
    \o MemberIf(win.buyerVersion > 0, "dataVersion", win.buyerVersion)
    \o Member("kAnonStatus", IF PassedAndEnforced THEN 1 ELSE 0)

-----------------------------------------------------------------------------
Finish(status) == finished' = status /\ step' = "done"
Flags == <<win, cancelled>>

\* SetReportingIdsInRawResponseAndDispatchRequestData; a top-level auction passes on those
\* of the component's result, which has no selected ID.
IdsOfResponse ==
    IF IsTopLevel THEN win.ids \ {"selectedBuyerAndSellerReportingId"} ELSE win.ids

\* DispatchReportResultRequest, ...ForComponentAuction, ...ForTopLevelAuction
SellerDeviceSignals(roll) ==
    IF IsTopLevel THEN GenerateSellerDeviceSignalsForTopLevelAuction(roll)
    ELSE IF IsComponent THEN GenerateSellerDeviceSignalsForComponentAuction(roll)
    ELSE GenerateSellerDeviceSignals(roll)

\* V8 may refuse the request, and what cannot be written is not sent.
PerformReportResult(accepted) ==
    IF Serializable(document') /\ accepted
    THEN /\ told' = [told EXCEPT !["reportResult"] = document']
         /\ step' = "reportResult" /\ UNCHANGED finished
    ELSE Finish("OK") /\ UNCHANGED told

PerformReportingWithSellerAndBuyerCodeIsolation ==
    /\ step = "start" /\ win.isolated
    /\ \E roll \in Rolls, accepted \in BOOLEAN :
         document' = SellerDeviceSignals(roll) /\ PerformReportResult(accepted)
    /\ reply' = [reply EXCEPT !.ids = IdsOfResponse]
    /\ UNCHANGED <<Flags, signals>>

\* Of reportResultEntryFunction: no answer, none that can be read, or what reportResult()
\* returned, with the URL it registered, if any.
ResultAnswers == {"failed", "unreadable", "undefined", "signals"}

ParseReportResultResponse(answer) == IF answer = "undefined" THEN "null" ELSE answer

SellersField == IF IsComponent THEN "component" ELSE "top"

\* No buyer is known to a top-level auction.
RunsReportWin == win.reportWin /\ ~IsTopLevel /\ win.buyerHasUdf

GetReportWinInput(doc) == doc
GetPASReportWinInput(doc) ==
    doc \o Member("egressPayload", Text) \o Member("temporaryUnlimitedEgressPayload", Text)

\* PerformPAReportWin, PerformPASReportWin. Not accepted: no version of the code, or V8.
PerformReportWin(accepted) ==
    IF Serializable(document') /\ accepted
    THEN /\ told' = [told EXCEPT !["reportWin"] = IF win.kind = "PA"
                                                 THEN GetReportWinInput(document')
                                                 ELSE GetPASReportWinInput(document')]
         /\ step' = "reportWin" /\ UNCHANGED finished
    ELSE Finish("OK") /\ UNCHANGED told

\* reportWin() is run although reportResult() failed.
CancellableReportResultCallback ==
    /\ step = "reportResult" /\ ~cancelled
    /\ \E answer \in ResultAnswers :
         IF answer \in {"failed", "unreadable"} THEN UNCHANGED <<reply, signals>>
         ELSE /\ reply' = [reply EXCEPT !.urls[SellersField] = "reportResult"]
              /\ signals' = ParseReportResultResponse(answer)
    /\ IF ~RunsReportWin THEN Finish("OK") /\ UNCHANGED <<document, told>>
       ELSE \E roll \in Rolls, accepted \in BOOLEAN :
              document' = GenerateBuyerDeviceSignals(document, roll)
              /\ PerformReportWin(accepted)
    /\ UNCHANGED Flags

CancelledCallback ==
    /\ step \in {"reportResult", "entry"} /\ cancelled
    /\ Finish("CANCELLED")
    /\ UNCHANGED <<Flags, document, told, signals, reply>>

\* Of reportWinEntryFunction.
WinAnswers == {"failed", "unreadable", "url"}

ParseReportWinResponse(answer) ==
    IF answer = "url" THEN [reply EXCEPT !.urls.buyer = "reportWin"] ELSE reply

\* The answer of reportWin() is taken whether or not the request was cancelled.
ReportWinCallback ==
    /\ step = "reportWin"
    /\ \E answer \in WinAnswers : reply' = ParseReportWinResponse(answer)
    /\ Finish("OK")
    /\ UNCHANGED <<Flags, document, told, signals>>

-----------------------------------------------------------------------------
(* The deprecated way: one script runs both, and makes the document of the    *)
(* buyer itself.                                                              *)

\* GetEightBitRoundedValue(enable_noising, value)
EightBits(v, roll) == IF win.noising THEN RoundStochasticallyToKBits(v, roll) ELSE v

GetSellerReportingSignals(roll) ==
    MemberIfKnown("bid", EightBits(win.bid, roll))
    \o MemberIf(win.sellerVersion > 0, "dataVersion", win.sellerVersion)
    \o MemberIfKnown("desirability", EightBits(win.score, roll))
    \o Member("highestScoringOtherBid", win.otherBid)
    \o (IF IsComponent /\ win.kind = "PA"
        THEN Member("topLevelSeller", Text)
             \o MemberIfKnown("modifiedBid", EightBits(ModifiedBid, roll))
        ELSE <<>>)
    \o MemberIf(~(win.scope = "single") /\ win.kind = "PA", "componentSeller", Text)

\* Without noise if that fails.
OrRaw(noised, raw) == IF win.noising /\ noised # Failed THEN noised ELSE raw

\* Empty: kDefaultBuyerReportingMetadata, with enableReportWinUrlGeneration false.
GetBuyerMetadataJson(roll) ==
    LET metadata ==
            Member("madeHighestScoringOtherBid", Text)
            \o (IF win.joinCount = <<>> THEN <<>>
                ELSE Member("joinCount",
                            OrRaw(NoiseAndBucketJoinCount(win.joinCount[1], roll),
                                  win.joinCount[1])))
            \o (IF win.recency = <<>> THEN <<>>
                ELSE Member("recency", OrRaw(NoiseAndBucketRecency(win.recency[1], roll),
                                             win.recency[1])))
            \o (IF win.modeling = <<>> THEN <<>>
                ELSE MemberIfKnown("modelingSignals",
                         IF win.noising
                         THEN NoiseAndMaskModelingSignals(win.modeling[1], roll)
                         ELSE win.modeling[1]))
            \o Member("seller", Text)
            \o MemberIfKnown("adCost", EightBits(win.adCost, roll))
            \o Member(IF "buyerReportingId" \in win.ids THEN "buyerReportingId"
                      ELSE "interestGroupName", Text)
            \o MemberIf(win.buyerVersion > 0, "dataVersion", win.buyerVersion)
    IN IF win.reportWin /\ Serializable(metadata) THEN metadata ELSE <<>>

AssignedNames ==
    {"interestGroupName", "madeHighestScoringOtherBid", "joinCount", "recency",
     "modelingSignals", "seller", "adCost", "dataVersion", "buyerReportingId"}

\* A member that the metadata does not have is assigned undefined.
BuyerReportingSignals(doc, metadata) ==
    SelectSeq(doc, LAMBDA m : m[1] \notin AssignedNames \cup {"desirability"})
    \o SelectSeq(metadata, LAMBDA m : m[1] \in AssignedNames)

\* The code of the seller has a wrapper for each buyer whose code was fetched.
HasWrapper == win.buyerHasUdf

\* With protected app signals on, the name of the interest group is trimmed first: an error
\* if there is none. So is a buyer without a wrapper.
EntryRunsReportWin(metadata) ==
    /\ metadata # <<>> /\ HasWrapper
    /\ win.pas => HasMember(metadata, "interestGroupName")

\* Signals that cannot be written leave the script without arguments.
GetReportingInput(roll) ==
    LET doc == GetSellerReportingSignals(roll)
    IN IF Serializable(doc) THEN <<doc, GetBuyerMetadataJson(roll)>> ELSE <<>>

\* document keeps the arguments.
DispatchReportingRequest ==
    IF cancelled THEN Finish("CANCELLED") /\ UNCHANGED document
    ELSE /\ \E roll \in Rolls : document' = GetReportingInput(roll)
         /\ Finish("OK") \/ (step' = "entry" /\ UNCHANGED finished)

PerformReporting ==
    /\ step = "start" /\ ~win.isolated
    /\ reply' = IF win.reportWin /\ "buyerReportingId" \in win.ids
                THEN [reply EXCEPT !.ids = {"buyerReportingId"}] ELSE reply
    /\ DispatchReportingRequest
    /\ UNCHANGED <<Flags, told, signals>>

\* reportingEntryFunction: reportResult() is called outside of the try block, and what it
\* returns is passed on as it is.
RunEntryFunction ==
    LET metadata == document[2] IN
    /\ document # <<>>
    /\ told' = [reportResult |-> document[1],
                reportWin |-> IF EntryRunsReportWin(metadata)
                              THEN BuyerReportingSignals(document[1], metadata) ELSE Nothing]
    /\ signals' \in {"null", "signals"}

EntrySellersField == IF win.scope = "deviceComponent" THEN "component" ELSE "top"

\* ParseAndGetReportingResponse: a reportWin() that throws leaves an empty URL.
UrlsOfAnswer(reported) ==
    [reply EXCEPT !.urls[EntrySellersField] = "reportResult",
                  !.urls.buyer = IF win.reportWin THEN reported ELSE @]

\* There may be no answer, or one that cannot be read.
ReportingCallback ==
    /\ step = "entry" /\ ~cancelled
    /\ \/ UNCHANGED <<told, signals, reply>>
       \/ /\ RunEntryFunction
          /\ \E reported \in {None} \cup (IF told'["reportWin"] = Nothing THEN {}
                                         ELSE {"reportWin"}) :
               reply' = UrlsOfAnswer(reported)
    /\ Finish("OK")
    /\ UNCHANGED <<Flags, document>>

Cancel ==
    /\ ~cancelled /\ finished = None
    /\ cancelled' = TRUE
    /\ UNCHANGED <<win, document, told, signals, reply, step, finished>>

Step ==
    \/ PerformReportingWithSellerAndBuyerCodeIsolation
    \/ CancellableReportResultCallback \/ CancelledCallback \/ ReportWinCallback
    \/ PerformReporting \/ ReportingCallback

Next == Step \/ Cancel

Spec == Init /\ [][Next]_vars

-----------------------------------------------------------------------------
Called(script) == told[script] # Nothing
Names(doc) == {doc[i][1] : i \in DOMAIN doc}
ValuesOf(doc, name) == {doc[i][2] : i \in {j \in DOMAIN doc : doc[j][1] = name}}

\* The buyer is told neither the score nor the seller's version of the data nor, by
\* isolated code, the modified bid.
NoSecretsForTheBuyer ==
    Called("reportWin") =>
        LET doc == told["reportWin"]
        IN /\ "desirability" \notin Names(doc)
           /\ win.isolated => "modifiedBid" \notin Names(doc)
           /\ ValuesOf(doc, "dataVersion") \subseteq {win.buyerVersion}

\* No member is there twice: a script would see any one of them.
NoNameTwice ==
    \A s \in Scripts : Cardinality(Names(told[s])) = Len(told[s])

\* The buyer is told one of: the IDs or the name of the interest group; the client can
\* check the IDs, which the response repeats.
NamedByOneIdentity ==
    Called("reportWin") =>
        LET ids == Names(told["reportWin"]) \cap ReportingIds
        IN /\ ("interestGroupName" \in Names(told["reportWin"])) = (ids = {})
           /\ ids \subseteq reply.ids
           /\ win.isolated /\ "selectedBuyerAndSellerReportingId" \notin win.ids
                => Cardinality(ids) <= 1

\* Numbers of K bits, from the definition: one next to n, or the limits.
KBitNumbers == {m * 2^e : m \in 0..2^K, e \in 0..MaxExp - K}
IsNextTo(r, n) ==
    /\ r \in KBitNumbers
    /\ ~\E m \in KBitNumbers : (r < m /\ m <= n) \/ (n <= m /\ m < r)

Blurred(r, n) ==
    IF n > 0 /\ n < 2^(MinExp - 1) THEN r = 0 ELSE r < Inf /\ IsNextTo(r, n)

RawBid == IF win.isolated /\ ~IsTopLevel /\ win.sellerBid > 0 THEN win.sellerBid ELSE win.bid

\* No script sees more bits of a bid, a score or a cost than it may.
NumbersAreBlurred ==
    win.isolated \/ win.noising =>
        \A s \in Scripts :
            /\ \A r \in ValuesOf(told[s], "bid") : Blurred(r, RawBid)
            /\ \A r \in ValuesOf(told[s], "modifiedBid") : Blurred(r, ModifiedBid)
            /\ \A r \in ValuesOf(told[s], "adCost") : Blurred(r, win.adCost)
            /\ \A r \in ValuesOf(told[s], "desirability") :
                 Blurred(r, win.score) \/ (IsTopLevel /\ r = Failed)

\* The URLs of a component auction outlive the top-level one, and those of a component
\* seller are not the top-level seller's.
UrlsStayWithTheirOwners ==
    /\ IsTopLevel /\ win.componentUrls =>
         reply.urls.component = "component" /\ reply.urls.buyer = "component"
    /\ reply.urls.buyer = "reportWin" => Called("reportWin") /\ win.buyerHasUdf
    /\ reply.urls.top = "reportResult" /\ win.isolated => ~IsComponent

\* Scripts are told what they may know, once, and their URLs keep apart
\* (reporting/buyer/buyer_reporting_helper.cc:97, noiser_and_bucketer.cc:136).
ReportsTellWhatTheyMay ==
    /\ NoSecretsForTheBuyer /\ NoNameTwice /\ NamedByOneIdentity
    /\ NumbersAreBlurred /\ UrlsStayWithTheirOwners
=============================================================================
