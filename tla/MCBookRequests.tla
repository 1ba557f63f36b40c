-------------------------- MODULE MCBookRequests --------------------------
(* TLC instance of BookRequests. *)
EXTENDS BookRequests, TLC

CONSTANTS gutenberg, home, clear

MCUrls     == {gutenberg, home, clear}
MCApproval == (gutenberg :> "none") @@ (home :> "user") @@ (clear :> "never")
MCCalls    == 1..2
MCCovers   == <<3, 2>>
MCAsked    == {[is |-> "range", first |-> 1, last |-> 9]}

Small == 0..4

\* parseByteRange against the bytes that a header asks for, for all small files.
ASSUME RangesAgree ==
    \A size \in Small, a \in Small, b \in Small :
        \A h \in {NoHeader, [is |-> "from", first |-> a], [is |-> "suffix", count |-> a],
                  [is |-> "range", first |-> a, last |-> b]} :
            LET r == ParseByteRange(h, size)
            IN IF r.ok THEN Requested(h, size) = r.start..r.end
                       ELSE Requested(h, size) = {}
=============================================================================
