------------------------ MODULE BookRequestsProofs ------------------------
(***************************************************************************)
(* Theorems about ByteRange and BookRequests, for any addresses, catalogs, *)
(* headers and sizes.  That a body is exact rests on three facts: a file   *)
(* under its final name is whole, the range was cut to the size that was   *)
(* looked at, and an edition of a cover has one size.                      *)
(***************************************************************************)
EXTENDS BookRequests, FiniteSetTheorems, SequenceTheorems, TLAPS

-----------------------------------------------------------------------------
(* Byte ranges. *)

\* The range that parseByteRange answers, by the kind of the header.
LEMMA AnswerIsRequested ==
    ASSUME NEW h \in Headers, NEW size \in Nat, size > 0, ParseByteRange(h, size).ok
    PROVE  \E s, e \in Nat :
             /\ ParseByteRange(h, size) = Bytes(s, e)
             /\ s <= e /\ e < size
             /\ s..e = Requested(h, size)
<1> DEFINE r == ParseByteRange(h, size)
<1> USE MaxSafeAssumption DEF Offsets
<1>1. CASE h = NoHeader
  <2>1. r = Bytes(0, size - 1) /\ Requested(h, size) = 0..(size - 1)
    BY <1>1 DEF NoHeader, ParseByteRange, Requested
  <2> QED
    BY <2>1
<1>2. CASE h = Malformed
  BY <1>2 DEF Malformed, ParseByteRange, Refused
<1>3. CASE h \in [is : {"from"}, first : Nat]
  <2>1. /\ r = Bytes(h.first, size - 1) /\ h.first \in Nat /\ h.first < size
        /\ Requested(h, size) = {b \in 0..(size - 1) : h.first <= b}
    BY <1>3 DEF ParseByteRange, Requested, Refused
  <2>2. h.first..(size - 1) = {b \in 0..(size - 1) : h.first <= b}
    BY <2>1
  <2>3. size - 1 \in Nat /\ h.first <= size - 1 /\ size - 1 < size
    BY <2>1
  <2> HIDE DEF r
  <2> QED
    BY <2>1, <2>2, <2>3 DEF r
<1>4. CASE h \in [is : {"range"}, first : Nat, last : Nat]
  <2> DEFINE e == Least(h.last, size - 1)
  <2>1. /\ r = Bytes(h.first, e) /\ h.first \in Nat /\ h.last \in Nat
        /\ h.first <= h.last /\ h.first < size
        /\ Requested(h, size) = {b \in 0..(size - 1) : h.first <= b /\ b <= h.last}
    BY <1>4 DEF ParseByteRange, Requested, Refused
  <2>2. h.first..e = {b \in 0..(size - 1) : h.first <= b /\ b <= h.last}
    BY <2>1 DEF Least
  <2>3. e \in Nat /\ h.first <= e /\ e < size
    BY <2>1 DEF Least
  <2> QED
    BY <2>1, <2>2, <2>3
<1>5. CASE h \in [is : {"suffix"}, count : Nat]
  <2> DEFINE s == IF h.count < size THEN size - h.count ELSE 0
  <2>1. /\ r = Bytes(s, size - 1)
        /\ h.count \in Nat /\ h.count > 0
        /\ Requested(h, size) = {b \in 0..(size - 1) : size <= b + h.count}
    BY <1>5 DEF ParseByteRange, Requested, Refused
  <2>2. s \in Nat /\ s <= size - 1 /\ size - 1 \in Nat /\ size - 1 < size
    BY <2>1
  <2>3. s..(size - 1) = {b \in 0..(size - 1) : size <= b + h.count}
    BY <2>1
  <2> QED
    BY <2>1, <2>2, <2>3
<1> QED
  BY <1>1, <1>2, <1>3, <1>4, <1>5 DEF Headers

\* A range that is served is what the header asks for, it lies in the file,
\* and Content-Length is its length.
THEOREM RangeIsRequested ==
    ASSUME NEW h \in Headers, NEW size \in Nat, size > 0, ParseByteRange(h, size).ok
    PROVE  LET r == ParseByteRange(h, size)
           IN /\ r.start \in Nat /\ r.end \in Nat
              /\ r.start <= r.end /\ r.end < size
              /\ r.start..r.end = Requested(h, size)
              /\ Length(r) = Cardinality(Requested(h, size))
<1>1. PICK s, e \in Nat :
             /\ ParseByteRange(h, size) = Bytes(s, e)
             /\ s <= e /\ e < size
             /\ s..e = Requested(h, size)
  BY AnswerIsRequested
<1>2. ParseByteRange(h, size).start = s /\ ParseByteRange(h, size).end = e
  BY <1>1 DEF Bytes
<1>3. Cardinality(s..e) = e - s + 1
  BY <1>1, FS_Interval
<1> QED
  BY <1>1, <1>2, <1>3 DEF Length

\* What is refused asks for nothing, or names numbers that JavaScript cannot
\* hold.
THEOREM RefusedAsksNothing ==
    ASSUME NEW h \in Headers, NEW size \in Nat, ~ ParseByteRange(h, size).ok
    PROVE  \/ Requested(h, size) = {}
           \/ h.is = "from" /\ h.first > MaxSafe
           \/ h.is = "range" /\ h.last > MaxSafe
           \/ h.is = "suffix" /\ h.count > MaxSafe
<1> USE MaxSafeAssumption DEF Bytes, Offsets, Refused, ParseByteRange, Requested
<1>1. CASE h = NoHeader
  BY <1>1 DEF NoHeader
<1>2. CASE h = Malformed
  BY <1>2 DEF Malformed
<1>3. CASE h \in [is : {"from"}, first : Nat]
  BY <1>3
<1>4. CASE h \in [is : {"range"}, first : Nat, last : Nat]
  BY <1>4
<1>5. CASE h \in [is : {"suffix"}, count : Nat]
  BY <1>5
<1> QED
  BY <1>1, <1>2, <1>3, <1>4, <1>5 DEF Headers
-----------------------------------------------------------------------------
(* The type invariant. *)

\* A sequence without its i-th element.
LEMMA Without ==
    ASSUME NEW S, NEW s \in Seq(S), NEW i \in 1..Len(s),
           NEW t, t = SubSeq(s, 1, i - 1) \o SubSeq(s, i + 1, Len(s))
    PROVE  /\ t \in Seq(S) /\ Len(t) = Len(s) - 1
           /\ \A k \in 1..Len(t) : t[k] = s[IF k < i THEN k ELSE k + 1]
<1> DEFINE a == SubSeq(s, 1, i - 1)
           b == SubSeq(s, i + 1, Len(s))
<1>1. Len(s) \in Nat
  OBVIOUS
<1>2. a \in Seq(S) /\ Len(a) = i - 1 /\ \A k \in 1..(i - 1) : a[k] = s[k]
  BY <1>1, SubSeqProperties
<1>3. b \in Seq(S) /\ Len(b) = Len(s) - i /\ \A k \in 1..(Len(s) - i) : b[k] = s[i + k]
  BY <1>1, SubSeqProperties
<1> HIDE DEF a, b
<1>4. /\ a \o b \in Seq(S) /\ Len(a \o b) = Len(a) + Len(b)
      /\ \A k \in 1..(Len(a) + Len(b)) :
           (a \o b)[k] = IF k <= Len(a) THEN a[k] ELSE b[k - Len(a)]
  BY <1>2, <1>3, ConcatProperties
<1>5. t = a \o b
  BY DEF a, b
<1>6. Len(t) = Len(s) - 1 /\ Len(a) + Len(b) = Len(s) - 1
  <2>1. \A m, n, j \in Int : m = j - 1 /\ n = Len(s) - j => m + n = Len(s) - 1
    BY <1>1
  <2>2. i \in Int /\ i - 1 \in Int /\ Len(s) - i \in Int
    BY <1>1
  <2>3. Len(a) + Len(b) = Len(s) - 1
    BY <1>2, <1>3, <2>1, <2>2
  <2> QED
    BY <1>4, <1>5, <2>3
<1>7. ASSUME NEW k \in 1..(Len(s) - 1), k < i
      PROVE  t[k] = s[k]
  <2>1. k <= Len(a) /\ k \in 1..(i - 1) /\ k \in 1..(Len(a) + Len(b))
    BY <1>1, <1>2, <1>6, <1>7
  <2> QED
    BY <1>2, <1>4, <1>5, <2>1
<1>8. ASSUME NEW k \in 1..(Len(s) - 1), ~ (k < i)
      PROVE  t[k] = s[k + 1]
  <2>1. /\ ~ (k <= Len(a)) /\ k - Len(a) \in 1..(Len(s) - i)
        /\ i + (k - Len(a)) = k + 1 /\ k \in 1..(Len(a) + Len(b))
    BY <1>1, <1>2, <1>6, <1>8
  <2>2. t[k] = b[k - Len(a)]
    BY <1>4, <1>5, <2>1
  <2> QED
    BY <1>3, <2>1, <2>2
<1> QED
  BY <1>4, <1>5, <1>6, <1>7, <1>8

\* There may be no cover.
LEMMA NoCover == 0 \in Covers
<1>1. Len(CoverSizes) \in Nat
  BY NumbersAssumption
<1> QED
  BY <1>1 DEF Covers

\* The size that the handler looks at is a number.
LEMMA SizeIsNat ==
    ASSUME TypeOK, NEW of \in {"book", "cover"}
    PROVE  Bytesof(of) \in Nat
BY NumbersAssumption DEF TypeOK, Bytesof, Covers

\* What Stat answers, when it goes on.
LEMMA StatAnswers ==
    ASSUME TypeOK, Stat
    PROVE  \/ answer' = NoAnswer
           \/ \E s, e \in Nat :
                /\ Bytesof(answer.of) > 0 /\ s <= e /\ e < Bytesof(answer.of)
                /\ s..e = Requested(answer.header, Bytesof(answer.of))
                /\ answer' = [at |-> "open", of |-> answer.of, header |-> answer.header,
                              start |-> s, end |-> e, edition |-> cover]
<1> DEFINE size  == Bytesof(answer.of)
           range == ParseByteRange(answer.header, size)
<1>1. answer.header \in Headers /\ answer.of \in {"book", "cover"}
  BY DEF Stat, TypeOK, Answers
<1>2. size \in Nat
  BY <1>1, SizeIsNat
<1>3. CASE size = 0 \/ ~ range.ok
  BY <1>3 DEF Stat
<1>4. CASE ~ (size = 0 \/ ~ range.ok)
  <2>1. answer' = [at |-> "open", of |-> answer.of, header |-> answer.header,
                   start |-> range.start, end |-> range.end, edition |-> cover]
    BY <1>4 DEF Stat
  <2>2. size > 0 /\ range.ok
    BY <1>2, <1>4
  <2> HIDE DEF size
  <2>3. PICK s, e \in Nat : range = Bytes(s, e) /\ s <= e /\ e < size
                            /\ s..e = Requested(answer.header, size)
    BY <1>1, <1>2, <2>2, AnswerIsRequested
  <2>4. range.start = s /\ range.end = e
    BY <2>3 DEF Bytes
  <2> QED
    BY <2>1, <2>2, <2>3, <2>4 DEF size
<1> QED
  BY <1>3, <1>4

\* A step of the page, the shelf or a call preserves the types.
LEMMA TypePreserved ==
    ASSUME TypeOK, [Next]_vars
    PROVE  TypeOK'
<1> USE UrlsAssumption, NumbersAssumption DEF TypeOK, tempFiles
<1> DEFINE Call == [at : Steps, url : Urls, insecure : BOOLEAN, hops : 0..MaxRedirects]
<1>0. IdleCall \in Call
  BY DEF IdleCall, Steps
<1>1. ASSUME NEW c \in Calls, NEW s \in Steps, Goto(c, s)
      PROVE  call' \in [Calls -> Call]
  BY <1>1 DEF Goto
<1>2. ASSUME NEW c \in Calls, Return(c)
      PROVE  call' \in [Calls -> Call]
  BY <1>0, <1>2 DEF Return
<1>3. ASSUME NEW c \in Calls, Step(c) \/ CleanFails(c)
      PROVE  TypeOK'
  <2>1. CASE Validate(c)
    BY <1>1, <1>2, <2>1 DEF Validate, OnlyCall, shelf, Steps
  <2>2. CASE Add(c)
    <3>1. call[c].url \in Urls /\ call[c].insecure \in BOOLEAN
      OBVIOUS
    <3>2. catalogs' \in Seq(Catalog)
      BY <2>2, <3>1, AppendProperties DEF Add, Catalog
    <3> QED
      BY <1>2, <2>2, <3>2 DEF Add, shelf
  <2>3. CASE Respond(c)
    <3>1. [IdleCall EXCEPT !.at = "write"] \in Call
      BY <1>0 DEF Steps
    <3>2. CASE Return(c)
      BY <1>2, <2>3, <3>2 DEF Respond, OnlyCall, shelf
    <3>3. CASE call' = [call EXCEPT ![c] = [IdleCall EXCEPT !.at = "write"]]
      BY <2>3, <3>1, <3>3 DEF Respond, OnlyCall, shelf
    <3> QED
      BY <2>3, <3>2, <3>3 DEF Respond
  <2>4. CASE WriteTemp(c)
    BY <1>1, <2>4 DEF WriteTemp, shelf, Steps
  <2>5. CASE Import(c)
    BY <1>1, <2>5 DEF Import, Steps
  <2>6. CASE Index(c)
    BY <1>1, <2>6 DEF Index, Steps
  <2>7. CASE Clean(c) \/ CleanFails(c)
    BY <1>2, <2>7 DEF Clean, CleanFails, shelf
  <2>8. CASE Fails(c)
    BY <1>1, <1>2, <2>8 DEF Fails, Steps
  <2>9. ASSUME NEW url \in Urls, Redirect(c, url)
        PROVE  TypeOK'
    <3>1. CASE call[c].hops < MaxRedirects
      <4>1. call[c].hops + 1 \in 0..MaxRedirects
        BY <3>1
      <4>2. call' = [call EXCEPT ![c].url = url, ![c].hops = @ + 1, ![c].at = "validate"]
        BY <2>9, <3>1 DEF Redirect
      <4>3. call' \in [Calls -> Call]
        BY <4>1, <4>2 DEF Steps
      <4> QED
        BY <2>9, <4>3 DEF Redirect, OnlyCall, shelf
    <3>2. CASE ~ (call[c].hops < MaxRedirects)
      BY <1>2, <2>9, <3>2 DEF Redirect, OnlyCall, shelf
    <3> QED
      BY <3>1, <3>2
  <2> QED
    BY <1>3, <2>1, <2>2, <2>3, <2>4, <2>5, <2>6, <2>7, <2>8, <2>9 DEF Step
<1>4. ASSUME NEW c \in Calls, NEW url \in Urls, NEW insecure \in BOOLEAN,
             AddCatalog(c, url, insecure)
      PROVE  TypeOK'
  BY <1>4 DEF AddCatalog, OnlyCall, shelf, Steps
<1>5. ASSUME NEW c \in Calls, NEW i \in 1..Len(catalogs), NEW url \in Urls, Fetch(c, i, url)
      PROVE  TypeOK'
  <2>1. catalogs[i] \in Catalog
    OBVIOUS
  <2>2. catalogs[i].insecure \in BOOLEAN
    BY <2>1 DEF Catalog
  <2> QED
    BY <1>5, <2>2 DEF Fetch, OnlyCall, shelf, Steps
<1>6. ASSUME NEW i \in 1..Len(catalogs), RemoveCatalog(i)
      PROVE  TypeOK'
  <2>1. catalogs' \in Seq(Catalog)
    BY <1>6, Without DEF RemoveCatalog
  <2> QED
    BY <1>6, <2>1 DEF RemoveCatalog, shelf
<1>7. CASE RemoveFile \/ RemoveEntry
  <2>1. file' \in 0..BookSize /\ cover' \in Covers
    BY <1>7, NoCover DEF RemoveFile, RemoveEntry
  <2>2. listed' \in BOOLEAN
    BY <1>7 DEF RemoveFile, RemoveEntry
  <2> QED
    BY <1>7, <2>1, <2>2 DEF RemoveFile, RemoveEntry
<1>8. CASE ReplaceCover
  BY <1>8 DEF ReplaceCover, Covers
<1>9. ASSUME NEW of \in {"book", "cover"}, NEW header \in Asked, Ask(of, header)
      PROVE  TypeOK'
  BY <1>9, AskedAssumption DEF Ask, OnlyAnswer, shelf, Answers
<1>10. CASE Stat
  <2>1. answer.header \in Headers /\ answer.of \in {"book", "cover"}
    BY <1>10 DEF Stat, Answers
  <2>2. answer' \in Answers
    BY <1>10, <2>1, StatAnswers DEF Answers, NoAnswer
  <2> QED
    BY <1>10, <2>2 DEF Stat, OnlyAnswer, shelf
<1>11. CASE Open
  <2>1. /\ answer.header \in Headers /\ answer.of \in {"book", "cover"}
        /\ answer.start \in Nat /\ answer.end \in Nat /\ answer.edition \in Covers
    BY <1>11 DEF Open, Answers
  <2>2. {b \in answer.start..answer.end : b < Bytesof(answer.of)} \in SUBSET Nat
    BY <2>1
  <2>3. answer' \in Answers
    BY <1>11, <2>1, <2>2 DEF Open, Answers, NoAnswer
  <2> QED
    BY <1>11, <2>3 DEF Open, OnlyAnswer, shelf
<1>12. CASE Sent
  BY <1>12 DEF Sent, OnlyAnswer, shelf, Answers, NoAnswer
<1>13. CASE Crash
  BY <1>0, <1>13 DEF Crash, shelf, Answers, NoAnswer
<1>14. CASE UNCHANGED vars
  BY <1>14 DEF vars, shelf
<1> QED
  BY <1>3, <1>4, <1>5, <1>6, <1>7, <1>8, <1>9, <1>10, <1>11, <1>12, <1>13, <1>14 DEF Next

LEMMA TypeInitially == Init => TypeOK
<1> SUFFICES ASSUME Init PROVE TypeOK
  OBVIOUS
<1>1. Gutenberg \in Catalog
  BY UrlsAssumption DEF Gutenberg, Catalog
<1>2. catalogs \in Seq(Catalog)
  BY <1>1 DEF Init
<1>3. /\ listed \in BOOLEAN /\ temps \subseteq Calls /\ stuck \subseteq Calls /\ answer \in Answers
  BY DEF Init, Answers, NoAnswer
<1>5. file \in 0..BookSize /\ cover \in Covers
  BY NoCover, NumbersAssumption DEF Init
<1>4. call \in [Calls -> [at : Steps, url : Urls, insecure : BOOLEAN, hops : 0..MaxRedirects]]
  BY UrlsAssumption, NumbersAssumption DEF Init, IdleCall, Steps
<1> QED
  BY <1>2, <1>3, <1>4, <1>5 DEF TypeOK

\* Every variable keeps its type.
THEOREM TypeCorrect == Spec => []TypeOK
<1> QED
  BY TypeInitially, TypePreserved, PTL DEF Spec
-----------------------------------------------------------------------------
(* Approvals and temporary files. *)

CallsSound == RequestsAllowed /\ TempsCleaned

LEMMA CallsSoundPreserved ==
    ASSUME TypeOK, CallsSound, [Next]_vars
    PROVE  CallsSound'
<1> USE DEF TypeOK, CallsSound, RequestsAllowed, TempsCleaned, At, Allowed, tempFiles
<1>1. ASSUME NEW c \in Calls, Step(c) \/ CleanFails(c)
      PROVE  CallsSound'
  <2>1. CASE Validate(c)
    <3>1. CASE Allowed(call[c].url, call[c].insecure)
      BY <2>1, <3>1 DEF Validate, OnlyCall, Goto
    <3>2. CASE ~ Allowed(call[c].url, call[c].insecure)
      BY <2>1, <3>2 DEF Validate, OnlyCall, Return, IdleCall
    <3> QED
      BY <3>1, <3>2
  <2>2. CASE Add(c)
    BY <2>2 DEF Add, Return, IdleCall
  <2> DEFINE Others == \A d \in Calls : d # c => call'[d] = call[d]
  <2>0. Return(c) => Others /\ call'[c].at = "idle"
    BY DEF Return, IdleCall
  <2>3. CASE Respond(c)
    <3>1. CASE Return(c)
      BY <2>0, <2>3, <3>1 DEF Respond, OnlyCall
    <3>2. CASE call' = [call EXCEPT ![c] = [IdleCall EXCEPT !.at = "write"]]
      <4>1. Others /\ call'[c].at = "write"
        BY <3>2 DEF IdleCall
      <4> QED
        BY <2>3, <4>1 DEF Respond, OnlyCall
    <3> QED
      BY <2>3, <3>1, <3>2 DEF Respond
  <2>4. CASE WriteTemp(c)
    BY <2>4 DEF WriteTemp, Goto
  <2>5. CASE Import(c)
    BY <2>5 DEF Import, Goto
  <2>6. CASE Index(c)
    BY <2>6 DEF Index, Goto
  <2>7. CASE Clean(c) \/ CleanFails(c)
    BY <2>7 DEF Clean, CleanFails, Return, IdleCall
  <2>8. CASE Fails(c)
    <3>1. CASE Return(c)
      <4>1. ~ (At(c, "write") \/ At(c, "import") \/ At(c, "index"))
        BY <2>0, <2>8, <3>1 DEF Fails, Goto
      <4>2. c \in temps => c \in stuck
        BY <2>8, <4>1 DEF Fails
      <4> QED
        BY <2>0, <2>8, <3>1, <4>1, <4>2 DEF Fails
    <3>2. CASE Goto(c, "clean")
      <4>1. Others /\ call'[c].at = "clean"
        BY <3>2 DEF Goto
      <4> QED
        BY <2>8, <4>1 DEF Fails
    <3> QED
      BY <2>8, <3>1, <3>2 DEF Fails
  <2>9. ASSUME NEW url \in Urls, Redirect(c, url)
        PROVE  CallsSound'
    <3>1. CASE call[c].hops < MaxRedirects
      <4>1. call' = [call EXCEPT ![c].url = url, ![c].hops = @ + 1, ![c].at = "validate"]
        BY <2>9, <3>1 DEF Redirect
      <4>2. /\ call'[c].at = "validate" /\ \A d \in Calls \ {c} : call'[d] = call[d]
            /\ UNCHANGED tempFiles
        BY <2>9, <4>1 DEF Redirect, OnlyCall
      <4> QED
        BY <2>9, <4>2 DEF Redirect
    <3>2. CASE ~ (call[c].hops < MaxRedirects)
      BY <2>0, <2>9, <3>2 DEF Redirect, OnlyCall
    <3> QED
      BY <3>1, <3>2
  <2> QED
    BY <1>1, <2>1, <2>2, <2>3, <2>4, <2>5, <2>6, <2>7, <2>8, <2>9 DEF Step
<1>2. ASSUME NEW c \in Calls, NEW url \in Urls, NEW insecure \in BOOLEAN,
             AddCatalog(c, url, insecure)
      PROVE  CallsSound'
  BY <1>2 DEF AddCatalog, OnlyCall
<1>3. ASSUME NEW c \in Calls, NEW i \in 1..Len(catalogs), NEW url \in Urls, Fetch(c, i, url)
      PROVE  CallsSound'
  BY <1>3 DEF Fetch, OnlyCall
<1>4. CASE Crash
  BY <1>4 DEF Crash, IdleCall
<1>5. CASE UNCHANGED <<call, tempFiles>>
  BY <1>5
<1> QED
  BY <1>1, <1>2, <1>3, <1>4, <1>5
     DEF Next, RemoveCatalog, RemoveFile, RemoveEntry, ReplaceCover, Ask, Stat, Open, Sent,
         OnlyAnswer, vars

\* No request goes where the user's approval of the catalog does not reach, by a
\* link of a feed or by a redirection (fetchChecked).
THEOREM NoUnapprovedRequest == Spec => []RequestsAllowed
<1>1. Init => CallsSound
  BY DEF Init, CallsSound, RequestsAllowed, TempsCleaned, At, IdleCall
<1> QED
  BY <1>1, TypeCorrect, CallsSoundPreserved, PTL DEF Spec, CallsSound

\* A temporary file of acquire is there only while its call is.
THEOREM TempsAreCleaned == Spec => []TempsCleaned
<1>1. Init => CallsSound
  BY DEF Init, CallsSound, RequestsAllowed, TempsCleaned, At, IdleCall
<1> QED
  BY <1>1, TypeCorrect, CallsSoundPreserved, PTL DEF Spec, CallsSound

-----------------------------------------------------------------------------
(* Catalogs. *)

LEMMA CatalogsPreserved ==
    ASSUME TypeOK, CatalogsDistinct, [Next]_vars
    PROVE  CatalogsDistinct'
<1> DEFINE n == Len(catalogs)
<1>0. catalogs \in Seq(Catalog) /\ n \in Nat
  BY DEF TypeOK
<1>1. ASSUME NEW c \in Calls, Add(c)
      PROVE  CatalogsDistinct'
  <2> DEFINE new == [url |-> call[c].url, insecure |-> call[c].insecure]
  <2>1. CASE Known(call[c].url)
    BY <1>1, <2>1 DEF Add, CatalogsDistinct
  <2>2. CASE ~ Known(call[c].url)
    <3>1. new \in Catalog
      BY DEF TypeOK, Catalog
    <3>2. catalogs' = Append(catalogs, new)
      BY <1>1, <2>2 DEF Add
    <3>3. /\ Len(catalogs') = n + 1 /\ catalogs'[n + 1] = new
          /\ \A k \in 1..n : catalogs'[k] = catalogs[k]
      BY <1>0, <3>1, <3>2, AppendProperties
    <3>4. new.url = call[c].url /\ \A k \in 1..n : catalogs[k].url # new.url
      BY <2>2 DEF Known
    <3>5. \A k \in 1..Len(catalogs') : k \in 1..n \/ k = n + 1
      BY <1>0, <3>3
    <3>6. \A k \in 1..n : k \in 1..Len(catalogs')
      BY <1>0, <3>3
    <3> HIDE DEF new
    <3>7. \E k \in 1..Len(catalogs') : catalogs'[k] = Gutenberg
      BY <3>3, <3>6 DEF CatalogsDistinct
    <3>8. \A i, j \in 1..Len(catalogs') : catalogs'[i].url = catalogs'[j].url => i = j
      BY <3>3, <3>4, <3>5 DEF CatalogsDistinct
    <3> QED
      BY <3>7, <3>8 DEF CatalogsDistinct
  <2> QED
    BY <2>1, <2>2
<1>2. ASSUME NEW i \in 1..Len(catalogs), RemoveCatalog(i)
      PROVE  CatalogsDistinct'
  <2> DEFINE old(k) == IF k < i THEN k ELSE k + 1
  <2>1. /\ Len(catalogs') = n - 1
        /\ \A k \in 1..(n - 1) : catalogs'[k] = catalogs[old(k)]
    <3>1. catalogs' = SubSeq(catalogs, 1, i - 1) \o SubSeq(catalogs, i + 1, Len(catalogs))
      BY <1>2 DEF RemoveCatalog
    <3>2. /\ Len(catalogs') = n - 1
          /\ \A k \in 1..Len(catalogs') : catalogs'[k] = catalogs[IF k < i THEN k ELSE k + 1]
      BY <1>0, <3>1, Without
    <3> QED
      BY <3>2
  <2>2. \A k \in 1..(n - 1) : old(k) \in 1..n
    BY <1>0
  <2>3. \A j, k \in 1..(n - 1) : old(j) = old(k) => j = k
    BY <1>0
  <2>4. PICK g \in 1..n : catalogs[g] = Gutenberg
    BY DEF CatalogsDistinct
  <2>5. g # i
    BY <1>2, <2>4 DEF RemoveCatalog
  <2>6. \E k \in 1..(n - 1) : old(k) = g
    <3>1. CASE g < i
      BY <1>0, <3>1
    <3>2. CASE g > i
      <4>1. g - 1 \in 1..(n - 1) /\ old(g - 1) = g
        BY <1>0, <3>2
      <4> QED
        BY <4>1
    <3> QED
      BY <2>5, <3>1, <3>2
  <2> HIDE DEF old, n
  <2>7. \E k \in 1..Len(catalogs') : catalogs'[k] = Gutenberg
    BY <2>1, <2>4, <2>6
  <2>8. \A j, k \in 1..Len(catalogs') : catalogs'[j].url = catalogs'[k].url => j = k
    BY <2>1, <2>2, <2>3 DEF CatalogsDistinct, n
  <2> QED
    BY <2>7, <2>8 DEF CatalogsDistinct
<1>3. CASE UNCHANGED catalogs
  BY <1>3 DEF CatalogsDistinct
<1> QED
  BY <1>1, <1>2, <1>3
     DEF Next, Step, Validate, Respond, WriteTemp, Import, Index, Clean, CleanFails, Fails,
         Redirect, AddCatalog, Fetch, RemoveFile, RemoveEntry, ReplaceCover, Ask, Stat, Open,
         Sent, Crash, OnlyAnswer, OnlyCall, vars

\* A catalog is listed once, however its additions interleave, and the built-in
\* one stays (addCatalog, removeCatalog).
THEOREM CatalogsStayDistinct == Spec => []CatalogsDistinct
<1>1. Init => CatalogsDistinct
  <2>1. ASSUME Init
        PROVE  Len(catalogs) = 1 /\ catalogs[1] = Gutenberg
    BY <2>1 DEF Init
  <2> QED
    BY <2>1 DEF CatalogsDistinct
<1> QED
  BY <1>1, TypeCorrect, CatalogsPreserved, PTL DEF Spec

-----------------------------------------------------------------------------
(* What the protocol serves. *)

\* The size that decided on the range, and the one of the file that was opened.
Wanted == IF answer.of = "book" THEN BookSize ELSE CoverSizes[answer.edition]
Held   == IF answer.of = "book" THEN BookSize ELSE CoverSizes[answer.from]

FileWhole == file \in {0, BookSize}

RangeCut ==
    answer.at \in {"open", "done"} =>
        /\ Wanted \in Nat /\ answer.start <= answer.end /\ answer.end < Wanted
        /\ answer.start..answer.end = Requested(answer.header, Wanted)

BodyHeld ==
    answer.at = "done" =>
        answer.body = {b \in answer.start..answer.end : b < Held}

AnswerSound == FileWhole /\ RangeCut /\ BodyHeld

LEMMA AnswerSoundPreserved ==
    ASSUME TypeOK, AnswerSound, [Next]_vars
    PROVE  AnswerSound'
<1> USE NumbersAssumption
<1>1. FileWhole'
  <2>1. ASSUME NEW c \in Calls, Step(c) \/ CleanFails(c)
        PROVE  FileWhole'
    BY <2>1 DEF AnswerSound, FileWhole, Step, Validate, Add, Respond, WriteTemp, Import, Index,
                Clean, CleanFails, Fails, Redirect, OnlyCall, shelf
  <2>2. CASE RemoveFile \/ RemoveEntry \/ ReplaceCover
    BY <2>2 DEF AnswerSound, FileWhole, RemoveFile, RemoveEntry, ReplaceCover
  <2>3. CASE UNCHANGED file
    BY <2>3 DEF AnswerSound, FileWhole
  <2> QED
    BY <2>1, <2>2, <2>3 DEF Next, AddCatalog, Fetch, RemoveCatalog, Ask, Stat, Open, Sent, Crash,
                            OnlyAnswer, OnlyCall, shelf, vars
<1>2. RangeCut' /\ BodyHeld'
  <2>1. CASE Stat
    <3>1. answer.of \in {"book", "cover"}
      BY <2>1 DEF TypeOK, Answers, Stat
    <3>2. CASE answer' = NoAnswer
      BY <3>2 DEF NoAnswer, RangeCut, BodyHeld
    <3>3. ASSUME NEW s \in Nat, NEW e \in Nat,
                 Bytesof(answer.of) > 0, s <= e, e < Bytesof(answer.of),
                 s..e = Requested(answer.header, Bytesof(answer.of)),
                 answer' = [at |-> "open", of |-> answer.of, header |-> answer.header,
                            start |-> s, end |-> e, edition |-> cover]
          PROVE  RangeCut' /\ BodyHeld'
      <4>1. Wanted' = Bytesof(answer.of)
        BY <3>1, <3>3 DEF Wanted, Bytesof, AnswerSound, FileWhole
      <4>2. /\ answer'.at = "open" /\ answer'.start = s /\ answer'.end = e
            /\ answer'.header = answer.header
        BY <3>3
      <4>3. Bytesof(answer.of) \in Nat
        BY <3>1, SizeIsNat
      <4>4. RangeCut'
        BY <3>3, <4>1, <4>2, <4>3 DEF RangeCut
      <4> QED
        BY <4>2, <4>4 DEF BodyHeld
    <3> QED
      BY <2>1, <3>2, <3>3, StatAnswers
  <2>2. CASE Open
    <3> DEFINE body == {b \in answer.start..answer.end : b < Bytesof(answer.of)}
    <3>1. answer.of \in {"book", "cover"} /\ answer.at = "open"
      BY <2>2 DEF TypeOK, Answers, Open
    <3>2. CASE answer' = NoAnswer
      BY <3>2 DEF NoAnswer, RangeCut, BodyHeld
    <3>3. CASE answer' # NoAnswer
      <4>1. /\ Bytesof(answer.of) # 0
            /\ answer' = [at |-> "done", of |-> answer.of, header |-> answer.header,
                          start |-> answer.start, end |-> answer.end,
                          edition |-> answer.edition, body |-> body, from |-> cover]
        BY <2>2, <3>3 DEF Open
      <4> HIDE DEF body
      <4>2. /\ answer'.at = "done" /\ answer'.of = answer.of /\ answer'.header = answer.header
            /\ answer'.start = answer.start /\ answer'.end = answer.end
            /\ answer'.edition = answer.edition /\ answer'.body = body /\ answer'.from = cover
        BY <4>1
      <4>3. Wanted' = Wanted
        BY <4>2 DEF Wanted
      <4>4. Held' = Bytesof(answer.of)
        BY <3>1, <4>1, <4>2 DEF Held, Bytesof, AnswerSound, FileWhole
      <4>5. RangeCut'
        BY <3>1, <4>2, <4>3 DEF RangeCut, AnswerSound
      <4>6. BodyHeld'
        BY <4>2, <4>4 DEF BodyHeld, body
      <4> QED
        BY <4>5, <4>6
    <3> QED
      BY <3>2, <3>3
  <2>3. ASSUME NEW of \in {"book", "cover"}, NEW header \in Asked, Ask(of, header)
        PROVE  RangeCut' /\ BodyHeld'
    BY <2>3 DEF Ask, RangeCut, BodyHeld
  <2>4. CASE Sent \/ Crash
    BY <2>4 DEF Sent, Crash, NoAnswer, RangeCut, BodyHeld
  <2>5. CASE UNCHANGED answer
    BY <2>5 DEF AnswerSound, RangeCut, BodyHeld, Wanted, Held
  <2> QED
    BY <2>1, <2>2, <2>3, <2>4, <2>5
       DEF Next, Step, Validate, Add, Respond, WriteTemp, Import, Index, Clean, CleanFails, Fails,
           Redirect, AddCatalog, Fetch, RemoveCatalog, RemoveFile, RemoveEntry, ReplaceCover,
           OnlyCall, vars
<1> QED
  BY <1>1, <1>2 DEF AnswerSound

LEMMA SoundIsExact == TypeOK /\ AnswerSound => ServedExactly
<1> SUFFICES ASSUME TypeOK, AnswerSound, answer.at = "done",
                    answer.of = "cover" => answer.from = answer.edition
             PROVE  /\ answer.body = Requested(answer.header, Wanted)
                    /\ Cardinality(answer.body) = answer.end - answer.start + 1
  BY DEF ServedExactly, Wanted
<1>1. answer.of \in {"book", "cover"} /\ answer.start \in Nat /\ answer.end \in Nat
  BY DEF TypeOK, Answers
<1>2. Held = Wanted
  BY <1>1 DEF Held, Wanted
<1>3. /\ Wanted \in Nat /\ answer.start <= answer.end /\ answer.end < Wanted
      /\ answer.start..answer.end = Requested(answer.header, Wanted)
      /\ answer.body = {b \in answer.start..answer.end : b < Wanted}
  BY <1>2 DEF AnswerSound, RangeCut, BodyHeld
<1>4. \A b \in answer.start..answer.end : b < Wanted
  BY <1>1, <1>3
<1>5. answer.body = answer.start..answer.end
  BY <1>3, <1>4
<1>6. Cardinality(answer.start..answer.end) = answer.end - answer.start + 1
  <2>1. \A s, e \in Nat : s <= e => Cardinality(s..e) = e - s + 1
    BY FS_Interval
  <2> QED
    BY <1>1, <1>3, <2>1
<1> QED
  BY <1>3, <1>5, <1>6

\* The protocol serves the bytes that were asked for, as many as it announced,
\* for every file size and every Range header.
THEOREM BytesAreExact == Spec => []ServedExactly
<1>1. Init => AnswerSound
  BY NumbersAssumption DEF Init, AnswerSound, FileWhole, RangeCut, BodyHeld, NoAnswer
<1> QED
  BY <1>1, TypeCorrect, AnswerSoundPreserved, SoundIsExact, PTL DEF Spec
=============================================================================
