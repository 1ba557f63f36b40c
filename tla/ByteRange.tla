----------------------------- MODULE ByteRange -----------------------------
(***************************************************************************)
(* parseByteRange (src/desktop/books.cjs) and the answer that the protocol *)
(* handler of src/desktop/main.cjs makes of it.  A Range header is the     *)
(* record of its numbers, or Malformed: anything that is not one range in  *)
(* bytes, several ranges included.                                         *)
(***************************************************************************)
EXTENDS Integers

CONSTANT MaxSafe   \* Number.MAX_SAFE_INTEGER

ASSUME MaxSafeAssumption == MaxSafe \in Nat

NoHeader  == [is |-> "none"]
Malformed == [is |-> "malformed"]
Headers ==
    {NoHeader, Malformed}
      \cup [is : {"from"}, first : Nat]                \* bytes=first-
      \cup [is : {"range"}, first : Nat, last : Nat]   \* bytes=first-last
      \cup [is : {"suffix"}, count : Nat]              \* bytes=-count

Least(a, b) == IF a < b THEN a ELSE b

Refused        == [ok |-> FALSE]
Bytes(from, to) == [ok |-> TRUE, start |-> from, end |-> to]

\* The bytes to send for a header, without one all of them; a file without
\* bytes satisfies no range.
ParseByteRange(h, size) ==
    CASE h.is = "none" -> Bytes(0, size - 1)
      [] h.is = "suffix" /\ size > 0 /\ h.count \in 1..MaxSafe ->
           Bytes(IF h.count < size THEN size - h.count ELSE 0, size - 1)
      [] h.is = "from" /\ h.first < size /\ h.first <= MaxSafe ->
           Bytes(h.first, size - 1)
      [] h.is = "range" /\ h.first <= h.last /\ h.first < size /\ h.last <= MaxSafe ->
           Bytes(h.first, Least(h.last, size - 1))
      [] OTHER -> Refused

\* Content-Length.
Length(r) == r.end - r.start + 1

-----------------------------------------------------------------------------
(* What a header asks for: the offsets of a file of that size. *)

Offsets(size) == 0..(size - 1)

Requested(h, size) ==
    CASE h.is = "none"   -> Offsets(size)
      [] h.is = "from"   -> {b \in Offsets(size) : h.first <= b}
      [] h.is = "range"  -> {b \in Offsets(size) : h.first <= b /\ b <= h.last}
      [] h.is = "suffix" -> {b \in Offsets(size) : size <= b + h.count}
      [] OTHER -> {}
=============================================================================
