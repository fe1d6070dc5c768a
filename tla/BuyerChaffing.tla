---------------------------- MODULE BuyerChaffing ----------------------------
(* The answers of a buyer front end with chaffing V2 to chaff requests       *)
(* (CancellableExecuteChaffRequest, EncryptResponse and FinishWithStatus in  *)
(* src/services/buyer_frontend_service/get_bids_unary_reactor.cc). Real      *)
(* requests sample the size of their response and then their duration into   *)
(* two windows, which all reactors share; a chaff request reads both, in     *)
(* four steps, to imitate them.                                              *)
EXTENDS MovingMedian

CONSTANTS
    Reactor,     \* the reactors that may be under way at once
    WindowSize,  \* kChaffingV2MovingMedianWindowSize
    Size,        \* sizes of encoded responses
    Duration,    \* durations of requests in milliseconds
    Fixed        \* kChaffingV2UnfilledWindowResponse...

BuyerChaffingAssumption ==
    /\ WindowSize \in Nat \ {0} /\ Fixed \in Nat
    /\ Size \cup Duration \subseteq 0..(Fixed - 1)

VARIABLES
    size,      \* chaff_median_trackers_.response_size
    duration,  \* chaff_median_trackers_.request_duration
    request,   \* each reactor's request: its progress and what it has read
    crashed    \* a reactor has called a method of no generator

vars == <<size, duration, request, crashed>>

Sample == Size \cup Duration
Idle == [at |-> "idle", rng |-> FALSE, filled |-> [d |-> FALSE, s |-> FALSE],
         answer |-> [d |-> Fixed, s |-> Fixed]]

TypeOK ==
    /\ size \in Windows(WindowSize, Sample)
    /\ duration \in Windows(WindowSize, Sample)
    /\ \A r \in Reactor :
        /\ request[r].at \in {"idle", "bidding", "encrypted", "durationFilled", "filled",
                              "durationMedian", "answered", "noValues", "error"}
        /\ request[r].answer.d \in 0..Fixed \cup {NotFull}
        /\ request[r].answer.s \in 0..Fixed \cup {NotFull}
    /\ crashed \in BOOLEAN

Init ==
    /\ size = EmptyWindow /\ duration = EmptyWindow
    /\ request = [r \in Reactor |-> Idle]
    /\ crashed = FALSE

Goto(r, state) == request' = [request EXCEPT ![r].at = state]

-----------------------------------------------------------------------------
(* A real request                                                            *)

\* CreateRng: a generator for chaff requests and for those sampled for debugging.
HasGenerator(chaff, debug) == chaff \/ debug

StartReal(r) ==
    /\ request[r].at = "idle"
    /\ \E debug \in BOOLEAN :
            request' = [request EXCEPT ![r] =
                          [Idle EXCEPT !.at = "bidding",
                                       !.rng = HasGenerator(FALSE, debug)]]
    /\ UNCHANGED <<size, duration, crashed>>

\* A reference to no generator is not used until the window is full; then
\* AddNumber calls a virtual method of it.
Crashes(r, w) == NeedsGenerator(w, WindowSize) /\ ~request[r].rng

Crash(r, w) ==
    /\ Crashes(r, w)
    /\ crashed' = TRUE
    /\ UNCHANGED <<size, duration, request>>

\* w after AddNumber, which samples any number until the window is full.
Sampled(w, v) ==
    {AddNumber(w, WindowSize, v)} \cup {x \in {w} : NeedsGenerator(w, WindowSize)}

\* No bid succeeded, or the client has cancelled: an error, and no samples.
BiddingFails(r) ==
    /\ request[r].at = "bidding"
    /\ Goto(r, "error")
    /\ UNCHANGED <<size, duration, crashed>>

\* EncryptResponse samples before it encrypts, which may fail.
EncryptResponse(r) ==
    /\ request[r].at = "bidding"
    /\ \/ Crash(r, size)
       \/ /\ ~Crashes(r, size)
          /\ \E v \in Size : size' \in Sampled(size, v)
          /\ \/ Goto(r, "encrypted")
             \/ Goto(r, "error")
          /\ UNCHANGED <<duration, crashed>>

\* FinishWithStatus(OK) samples the duration.
FinishWithStatus(r) ==
    /\ request[r].at = "encrypted"
    /\ \/ Crash(r, duration)
       \/ /\ ~Crashes(r, duration)
          /\ \E v \in Duration : duration' \in Sampled(duration, v)
          /\ request' = [request EXCEPT ![r] = Idle]
          /\ UNCHANGED <<size, crashed>>

-----------------------------------------------------------------------------
(* A chaff request: GetBuyerChaffingV2Values                                 *)

\* request_duration->IsWindowFilled()
ReadDurationFilled(r) ==
    /\ request[r].at = "idle"
    /\ request' = [request EXCEPT ![r] =
                     [Idle EXCEPT !.at = "durationFilled",
                                  !.rng = HasGenerator(TRUE, FALSE),
                                  !.filled.d = IsWindowFilled(duration, WindowSize)]]
    /\ UNCHANGED <<size, duration, crashed>>

BothFilled(filled) == filled.d /\ filled.s

\* response_size->IsWindowFilled(), and the fixed values if one of them is not.
ReadSizeFilled(r) ==
    LET filled == [request[r].filled EXCEPT !.s = IsWindowFilled(size, WindowSize)]
    IN  /\ request[r].at = "durationFilled"
        /\ request' = [request EXCEPT ![r].filled = filled,
                                      ![r].at = IF BothFilled(filled) THEN "filled"
                                                ELSE "answered"]
        /\ UNCHANGED <<size, duration, crashed>>

ReadDurationMedian(r) ==
    /\ request[r].at = "filled"
    /\ request' = [request EXCEPT ![r].at = "durationMedian",
                                  ![r].answer.d = duration.median]
    /\ UNCHANGED <<size, duration, crashed>>

\* An error of either is an error of both.
ReadSizeMedian(r) ==
    /\ request[r].at = "durationMedian"
    /\ request' = [request EXCEPT ![r].answer.s = size.median,
                                  ![r].at =
                       IF NotFull \in {request[r].answer.d, size.median}
                       THEN "noValues" ELSE "answered"]
    /\ UNCHANGED <<size, duration, crashed>>

\* The RPC is over, after the delay if it was answered.
Ended(r) ==
    /\ request[r].at \in {"answered", "noValues", "error"}
    /\ request' = [request EXCEPT ![r] = Idle]
    /\ UNCHANGED <<size, duration, crashed>>

Next ==
    /\ ~crashed
    /\ \E r \in Reactor :
        \/ StartReal(r)
        \/ BiddingFails(r)
        \/ EncryptResponse(r)
        \/ FinishWithStatus(r)
        \/ ReadDurationFilled(r)
        \/ ReadSizeFilled(r)
        \/ ReadDurationMedian(r)
        \/ ReadSizeMedian(r)
        \/ Ended(r)

Spec == Init /\ [][Next]_vars

-----------------------------------------------------------------------------
(* Properties                                                                *)

\* Both medians are those of the windows' samples, whichever reactors sample, read or
\* fail in between (moving_median.cc:31-74).
WindowsHaveTheirMedians ==
    IsMovingMedian(size, WindowSize) /\ IsMovingMedian(duration, WindowSize)

\* A chaff request has values to imitate although each window is asked twice, and
\* the two fill at different times: both values are medians or both are the fixed
\* ones (chaffing_utils.cc:88-110; the caller answers an error with INTERNAL).
ChaffIsAnswered ==
    \A r \in Reactor :
        /\ request[r].at # "noValues"
        /\ request[r].at = "answered" =>
             (request[r].answer.d = Fixed <=> request[r].answer.s = Fixed)

\* Sampling goes on when a window is full: "once the window of size window_size) a
\* call to AddNumber() will add the number to the window" with a probability
\* (moving_median.h:33-35).
SamplingGoesOn == ~crashed
=============================================================================
