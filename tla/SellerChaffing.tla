--------------------------- MODULE SellerChaffing ----------------------------
(* The sizes of GetBids requests of a seller front end with chaffing V2      *)
(* (src/services/seller_frontend_service/util/chaffing_utils.cc and the      *)
(* callbacks in select_ad_reactor.cc). Concurrent auctions ask one buyer;    *)
(* they share its window of request sizes, which real requests sample and    *)
(* chaff requests imitate. The window is read in two steps, each under its   *)
(* mutex, between which others may add to it.                                *)
EXTENDS MovingMedian

CONSTANTS
    Auction,     \* the reactors that may be under way at once
    WindowSize,  \* kChaffingV2MovingMedianWindowSize
    Payload,     \* sizes of requests without padding
    FixedSize    \* kChaffingV2UnfilledWindowRequestSizeBytes

SellerChaffingAssumption ==
    /\ WindowSize \in Nat \ {0} /\ FixedSize \in Nat
    /\ Payload \subseteq 1..(FixedSize - 1)

VARIABLES
    window,  \* the buyer's entry in moving_median_manager
    req,     \* each auction's request to the buyer
    sent,    \* the sizes of the real requests that went out
    failed   \* an RPC of a real request has failed

vars == <<window, req, sent, failed>>

Sizes == Payload \cup 0..FixedSize

Idle == [at |-> "idle", chaff |-> FALSE, filled |-> FALSE, minimum |-> 0, size |-> 0,
         begunFull |-> FALSE]

TypeOK ==
    /\ window \in Windows(WindowSize, Sizes)
    /\ req \in [Auction -> [at : {"idle", "filled", "send", "inFlight"},
                            chaff : BOOLEAN, filled : BOOLEAN, minimum : Sizes,
                            size : Sizes, begunFull : BOOLEAN]]
    /\ sent \subseteq Sizes /\ failed \in BOOLEAN

Init ==
    /\ window = EmptyWindow
    /\ req = [a \in Auction |-> Idle]
    /\ sent = {} /\ failed = FALSE

\* minimum_request_size: chaff takes the median once there is one, others are only
\* padded until then.
MinimumSize(chaff, filled, median) ==
    IF ~filled \/ (chaff /\ median = NotFull) THEN FixedSize
    ELSE IF chaff THEN median
    ELSE 0

\* GetChaffingV2GetBidsRequestConfig: a chaff request goes on to read the median.
IsFilled(a, chaff) ==
    LET filled == IsWindowFilled(window, WindowSize)
    IN  /\ req[a].at = "idle"
        /\ req' = [req EXCEPT ![a] =
                     [Idle EXCEPT !.at = IF chaff THEN "filled" ELSE "send",
                                  !.chaff = chaff, !.filled = filled,
                                  !.begunFull = Len(window.data) = WindowSize,
                                  !.minimum = IF chaff THEN 0
                                              ELSE MinimumSize(FALSE, filled, NotFull)]]
        /\ UNCHANGED <<window, sent, failed>>

GetMedian(a) ==
    /\ req[a].at = "filled"
    /\ req' = [req EXCEPT ![a].at = "send",
                          ![a].minimum = MinimumSize(TRUE, req[a].filled, window.median)]
    /\ UNCHANGED <<window, sent, failed>>

\* BuyerFrontEndAsyncGrpcClient::ExecuteInternal, whose encoder pads up to the
\* minimum; a request that cannot be encrypted has no callback. A chaff request
\* has next to no payload.
Send(a) ==
    /\ req[a].at = "send"
    /\ \/ \E p \in Payload :
            LET size == Max({IF req[a].chaff THEN 0 ELSE p, req[a].minimum})
            IN  /\ req' = [req EXCEPT ![a].at = "inFlight", ![a].size = size]
                /\ sent' = IF req[a].chaff THEN sent ELSE sent \cup {size}
       \/ req' = [req EXCEPT ![a] = Idle] /\ UNCHANGED sent
    /\ UNCHANGED <<window, failed>>

\* AddNumberToBuyerWindow: all real requests until the window is full, then some.
Sampled(a, size) ==
    IF req[a].chaff THEN {window}
    ELSE {AddNumber(window, WindowSize, size)}
           \cup {w \in {window} : NeedsGenerator(w, WindowSize)}

\* The callback of the RPC. The size is set only if the RPC succeeded
\* (ResponseMetadata), so that a failure counts as a request of size zero; a
\* cancelled request does not count.
OnResponse(a) ==
    /\ req[a].at = "inFlight"
    /\ \/ window' \in Sampled(a, req[a].size) /\ UNCHANGED failed
       \/ window' \in Sampled(a, 0) /\ failed' = (failed \/ ~req[a].chaff)
       \/ UNCHANGED <<window, failed>>
    /\ req' = [req EXCEPT ![a] = Idle]
    /\ UNCHANGED sent

Next ==
    \E a \in Auction :
        \/ \E chaff \in BOOLEAN : IsFilled(a, chaff)
        \/ GetMedian(a)
        \/ Send(a)
        \/ OnResponse(a)

Spec == Init /\ [][Next]_vars

-----------------------------------------------------------------------------
(* Properties                                                                *)

\* However calls of AddNumber and readers interleave, median_ is the median of the
\* samples in the window, truncated, and an error until the window is full; the
\* sorted copy keeps to the window (moving_median.cc:31-74).
WindowHasItsMedian ==
    /\ IsMovingMedian(window, WindowSize)
    /\ \A v \in Sizes : Cardinality({i \in DOMAIN window.data : window.data[i] = v})
                        = Cardinality({i \in DOMAIN window.sorted : window.sorted[i] = v})

\* A window that was full before a request read it stays full while it is read: no
\* request is padded to the fixed size any more, and no real one is padded at all
\* (chaffing_utils.cc:46-73).
PaddedOnlyUntilFilled ==
    \A a \in Auction :
        req[a].at \in {"send", "inFlight"} /\ req[a].begunFull =>
            \/ ~req[a].chaff /\ req[a].minimum = 0
            \/ req[a].chaff /\ req[a].minimum \in 0..Max(sent)

\* Chaff that is not padded to the fixed size is neither smaller than all real
\* requests so far nor larger than all (select_ad_reactor.cc:1071, only real
\* requests are sampled).
LooksLikeARequest(a) ==
    req[a].at = "inFlight" /\ req[a].chaff /\ req[a].size # FixedSize =>
        /\ \E s \in sent : s <= req[a].size
        /\ \E s \in sent : req[a].size <= s

\* Chaff passes for a request, as long as no RPC to the buyer has failed.
ChaffLooksReal == ~failed => \A a \in Auction : LooksLikeARequest(a)

=============================================================================
