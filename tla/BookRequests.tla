---------------------------- MODULE BookRequests ----------------------------
(***************************************************************************)
(* What the page asks of the book service besides the shelf itself         *)
(* (BookShelf): catalogs and their feeds, the acquisition of a book from   *)
(* one, and the bytes of books and covers over the bihon-book protocol     *)
(* (src/desktop/books.cjs, src/desktop/main.cjs).                          *)
(*                                                                         *)
(* Abstractions.  An address is told apart by the approval it needs, the   *)
(* answers of the name service included.  A callback of mutate is one step *)
(* (BookShelf has the chain).  The content type, the size limits and the   *)
(* deadline of an answer only make the call throw: Fails.  A catalog is    *)
(* told apart by its address.  One book and one cover stand for all.  The  *)
(* folder does not change (DesktopShell moves it).                         *)
(***************************************************************************)
EXTENDS ByteRange, FiniteSets, Sequences

CONSTANTS
    Urls,         \* addresses of catalogs, feeds and books
    Approval,     \* what each needs: "none", "user" or "never"
    BuiltIn,      \* the address of GUTENBERG
    MaxRedirects, \* 5 in the code
    Calls,        \* bound: catalog calls under way at a time; one whose
                  \* temporary file stays behind is its name, and used no more
    Asked,        \* the Range headers of the page
    BookSize,     \* bytes of the book
    CoverSizes    \* bound, and the bytes of its covers, one after the other

ASSUME UrlsAssumption ==
    /\ Approval \in [Urls -> {"none", "user", "never"}]
    /\ BuiltIn \in Urls /\ Approval[BuiltIn] = "none"
ASSUME AskedAssumption == Asked \subseteq Headers
ASSUME NumbersAssumption ==
    /\ MaxRedirects \in Nat /\ BookSize \in Nat \ {0} /\ CoverSizes \in Seq(Nat)

VARIABLES
    catalogs, \* persistent: the catalogs of books.json
    listed,   \* persistent: the book is in books.json
    file,     \* persistent: bytes of its managed file, 0 for none
    cover,    \* persistent: the number of its last cover, 0 for none
    temps,    \* persistent: calls whose .acquire- file is on the disk
    stuck,    \* history: calls that ended without removing theirs, because the
              \* process ended or the removal failed
    call,     \* the calls about catalogs
    answer    \* the request in the protocol handler

shelf     == <<listed, file, cover>>
tempFiles == <<temps, stuck>>
vars      == <<catalogs, shelf, tempFiles, call, answer>>

Catalog   == [url : Urls, insecure : BOOLEAN]
Gutenberg == [url |-> BuiltIn, insecure |-> FALSE]
Steps     == {"idle", "approve", "add", "validate", "request", "write", "import", "index", "clean"}
IdleCall  == [at |-> "idle", url |-> BuiltIn, insecure |-> FALSE, hops |-> 0]

Covers   == 0..Len(CoverSizes)
NoAnswer == [at |-> "idle"]
Answers  ==
    [at : {"idle"}] \cup
    [at : {"stat"}, of : {"book", "cover"}, header : Headers] \cup
    [at : {"open"}, of : {"book", "cover"}, header : Headers, start : Nat, end : Nat,
     edition : Covers] \cup
    [at : {"done"}, of : {"book", "cover"}, header : Headers, start : Nat, end : Nat,
     edition : Covers, body : SUBSET Nat, from : Covers]

TypeOK ==
    /\ catalogs \in Seq(Catalog)
    /\ listed \in BOOLEAN /\ file \in 0..BookSize /\ cover \in Covers
    /\ temps \subseteq Calls /\ stuck \subseteq Calls
    /\ call \in [Calls -> [at : Steps, url : Urls, insecure : BOOLEAN, hops : 0..MaxRedirects]]
    /\ answer \in Answers

Init ==
    /\ catalogs = <<Gutenberg>>
    /\ listed = FALSE /\ file = 0 /\ cover = 0
    /\ temps = {} /\ stuck = {} /\ call = [c \in Calls |-> IdleCall] /\ answer = NoAnswer

At(c, step)   == call[c].at = step
Goto(c, step) == call' = [call EXCEPT ![c].at = step]
Return(c)     == call' = [call EXCEPT ![c] = IdleCall]
OnlyCall      == UNCHANGED <<catalogs, shelf, tempFiles, answer>>

-----------------------------------------------------------------------------
(* Catalogs. *)

\* validateCatalogUrl, with the approval that the user gave for the catalog.
Allowed(url, insecure) ==
    Approval[url] = "none" \/ (Approval[url] = "user" /\ insecure)

AddCatalog(c, url, insecure) ==
    /\ At(c, "idle") /\ c \notin stuck
    /\ call' = [call EXCEPT ![c] = [at |-> "approve", url |-> url,
                                    insecure |-> insecure, hops |-> 0]]
    /\ OnlyCall

\* fetchCatalog, fetchCover or acquire, for any address that a feed names: the
\* three differ in what they do with the answer.  The catalog is read once; it
\* may be removed while the call goes on.
Fetch(c, i, url) ==
    /\ At(c, "idle") /\ c \notin stuck /\ i \in 1..Len(catalogs)
    /\ call' = [call EXCEPT ![c] = [at |-> "validate", url |-> url,
                  insecure |-> catalogs[i].insecure, hops |-> 0]]
    /\ OnlyCall

Validate(c) ==
    /\ At(c, "approve") \/ At(c, "validate")
    /\ IF Allowed(call[c].url, call[c].insecure)
         THEN Goto(c, IF At(c, "approve") THEN "add" ELSE "request")
         ELSE Return(c)
    /\ OnlyCall

\* Mutant: the duplicate is looked for by address and approval.
KnownAlike(url) ==
    \E i \in 1..Len(catalogs) : catalogs[i] = [url |-> url, insecure |-> FALSE]

Known(url) == \E i \in 1..Len(catalogs) : catalogs[i].url = url

Add(c) ==
    /\ At(c, "add")
    /\ catalogs' = IF Known(call[c].url) THEN catalogs
                   ELSE Append(catalogs, [url |-> call[c].url, insecure |-> call[c].insecure])
    /\ Return(c)
    /\ UNCHANGED <<shelf, tempFiles, answer>>

\* The built-in catalog stays.
RemoveCatalog(i) ==
    /\ i \in 1..Len(catalogs) /\ catalogs[i] # Gutenberg
    /\ catalogs' = SubSeq(catalogs, 1, i - 1) \o SubSeq(catalogs, i + 1, Len(catalogs))
    /\ UNCHANGED <<shelf, tempFiles, call, answer>>

-----------------------------------------------------------------------------
(* fetchChecked and acquire. *)

\* Mutant: the redirections are not counted.
RedirectForever(c, url) ==
    /\ At(c, "request")
    /\ call' = [call EXCEPT ![c].url = url, ![c].at = "validate"]
    /\ OnlyCall

\* Mutant: only the first address is validated.
RedirectUnchecked(c, url) ==
    /\ At(c, "request")
    /\ IF call[c].hops < MaxRedirects
         THEN call' = [call EXCEPT ![c].url = url, ![c].hops = @ + 1]
         ELSE Return(c)
    /\ OnlyCall

\* Each redirection is validated like the first address.
Redirect(c, url) ==
    /\ At(c, "request")
    /\ IF call[c].hops < MaxRedirects
         THEN call' = [call EXCEPT ![c].url = url, ![c].hops = @ + 1, ![c].at = "validate"]
         ELSE Return(c)
    /\ OnlyCall

\* The body of a feed or a cover is returned, the one of a book is written.
Respond(c) ==
    /\ At(c, "request")
    /\ Return(c) \/ call' = [call EXCEPT ![c] = [IdleCall EXCEPT !.at = "write"]]
    /\ OnlyCall

WriteTemp(c) ==
    /\ At(c, "write")
    /\ temps' = temps \cup {c} /\ Goto(c, "import")
    /\ UNCHANGED <<catalogs, shelf, stuck, answer>>

\* Mutant: the copy grows under its final name.
ImportInPlace(c) ==
    /\ At(c, "import")
    /\ IF listed THEN Goto(c, "clean") /\ UNCHANGED file
         ELSE \E n \in 1..BookSize : file' = n /\ Goto(c, "index")
    /\ UNCHANGED <<catalogs, listed, cover, tempFiles, answer>>

\* importFiles: a duplicate changes nothing, a copy gets its name when whole.
Import(c) ==
    /\ At(c, "import")
    /\ IF listed THEN Goto(c, "clean") /\ UNCHANGED file
                 ELSE Goto(c, "index") /\ file' = BookSize
    /\ UNCHANGED <<catalogs, listed, cover, tempFiles, answer>>

Index(c) ==
    /\ At(c, "index")
    /\ listed' = TRUE /\ Goto(c, "clean")
    /\ UNCHANGED <<catalogs, file, cover, tempFiles, answer>>

Clean(c) ==
    /\ At(c, "clean")
    /\ temps' = temps \ {c} /\ Return(c)
    /\ UNCHANGED <<catalogs, shelf, stuck, answer>>

\* Mutant: the temporary file is removed only after success.
FailsLeaving(c) ==
    /\ ~ At(c, "idle") /\ ~ At(c, "clean")
    /\ file' = IF At(c, "index") THEN 0 ELSE file
    /\ Return(c)
    /\ UNCHANGED <<catalogs, listed, cover, tempFiles, answer>>

\* A refused, failed, late, too large or foreign answer, or a failed file
\* operation.  From the temporary file on, written in part or not, the `finally'
\* removes it; an import that is not indexed removes its copy first.
Fails(c) ==
    /\ ~ At(c, "idle") /\ ~ At(c, "clean")
    /\ file' = IF At(c, "index") THEN 0 ELSE file
    /\ temps' = temps \/ (At(c, "write") /\ temps' = temps \cup {c})
    /\ IF \/ At(c, "write") \/ At(c, "import") \/ At(c, "index")
         THEN Goto(c, "clean") ELSE Return(c)
    /\ UNCHANGED <<catalogs, listed, cover, stuck, answer>>

-----------------------------------------------------------------------------
(* The shelf meanwhile: remove and finalize. *)

RemoveFile ==
    /\ listed
    /\ file' = 0 /\ cover' = 0
    /\ UNCHANGED <<catalogs, listed, tempFiles, call, answer>>

RemoveEntry ==
    /\ listed /\ file = 0
    /\ listed' = FALSE /\ cover' = 0
    /\ UNCHANGED <<catalogs, file, tempFiles, call, answer>>

\* The next cover replaces the file of the one before.  (One of another image
\* type leaves that file alone.)
ReplaceCover ==
    /\ listed /\ cover < Len(CoverSizes)
    /\ cover' = cover + 1
    /\ UNCHANGED <<catalogs, listed, file, tempFiles, call, answer>>

-----------------------------------------------------------------------------
(* The protocol handler.  A request it cannot serve ends with a status and  *)
(* no body: NoAnswer.                                                       *)

Bytesof(of) == IF of = "book" THEN file ELSE IF cover = 0 THEN 0 ELSE CoverSizes[cover]
OnlyAnswer  == UNCHANGED <<catalogs, shelf, tempFiles, call>>

\* resolve: the index is read.
Ask(of, header) ==
    /\ answer = NoAnswer /\ listed /\ (of = "cover" => cover > 0)
    /\ answer' = [at |-> "stat", of |-> of, header |-> header]
    /\ OnlyAnswer

\* The size decides on the range and on Content-Length.  (A stream cannot be
\* made for an empty file.)
Stat ==
    /\ answer.at = "stat"
    /\ LET size  == Bytesof(answer.of)
           range == ParseByteRange(answer.header, size)
       IN answer' = IF size = 0 \/ ~ range.ok THEN NoAnswer
                    ELSE [at |-> "open", of |-> answer.of, header |-> answer.header,
                          start |-> range.start, end |-> range.end, edition |-> cover]
    /\ OnlyAnswer

\* The stream opens the file later; from then on it reads that one.
Open ==
    /\ answer.at = "open"
    /\ LET size == Bytesof(answer.of)
       IN answer' = IF size = 0 THEN NoAnswer
                    ELSE [at |-> "done", of |-> answer.of, header |-> answer.header,
                          start |-> answer.start, end |-> answer.end,
                          edition |-> answer.edition,
                          body |-> {b \in answer.start..answer.end : b < size},
                          from |-> cover]
    /\ OnlyAnswer

Sent ==
    /\ answer.at = "done"
    /\ answer' = NoAnswer
    /\ OnlyAnswer

-----------------------------------------------------------------------------
\* The process ends.  The temporary files of its calls, also those written in
\* part, stay for good: nobody looks for them.
Crash ==
    /\ call' = [c \in Calls |-> IdleCall] /\ answer' = NoAnswer
    /\ \E torn \in SUBSET {c \in Calls : At(c, "write")} : temps' = temps \cup torn
    /\ stuck' = temps'
    /\ UNCHANGED <<catalogs, shelf>>

\* The temporary file cannot be removed (it is open elsewhere, say): the call
\* throws, and the file stays in the folder of the books.
CleanFails(c) ==
    /\ At(c, "clean") /\ c \in temps
    /\ stuck' = stuck \cup {c} /\ Return(c)
    /\ UNCHANGED <<catalogs, shelf, temps, answer>>

Step(c) ==
    \/ Validate(c) \/ Add(c) \/ Respond(c) \/ WriteTemp(c) \/ Import(c) \/ Index(c)
    \/ Clean(c) \/ Fails(c) \/ \E url \in Urls : Redirect(c, url)

Next ==
    \/ \E c \in Calls : Step(c) \/ CleanFails(c)
    \/ \E c \in Calls, url \in Urls, insecure \in BOOLEAN : AddCatalog(c, url, insecure)
    \/ \E c \in Calls, i \in 1..Len(catalogs), url \in Urls : Fetch(c, i, url)
    \/ \E i \in 1..Len(catalogs) : RemoveCatalog(i)
    \/ RemoveFile \/ RemoveEntry \/ ReplaceCover
    \/ \E of \in {"book", "cover"}, header \in Asked : Ask(of, header)
    \/ Stat \/ Open \/ Sent \/ Crash

Spec == Init /\ [][Next]_vars

\* Requests have deadlines and file operations end.
Fairness == \A c \in Calls : WF_vars(Step(c))
FairSpec == Spec /\ Fairness

-----------------------------------------------------------------------------
(* Properties. *)

\* The user approves a catalog once: whatever a feed links to and wherever a
\* server redirects, no request goes where that approval does not reach.
RequestsAllowed ==
    \A c \in Calls : At(c, "request") => Allowed(call[c].url, call[c].insecure)

\* A catalog is listed once, also when it is added twice at a time, and the
\* built-in one stays.
CatalogsDistinct ==
    /\ \E i \in 1..Len(catalogs) : catalogs[i] = Gutenberg
    /\ \A i, j \in 1..Len(catalogs) : catalogs[i].url = catalogs[j].url => i = j

\* acquire: wherever a call fails or returns, its temporary file, also one
\* written in part, is off the disk by then.  Exempt are the files that the code
\* does leave in the folder of the books: of a process that ended, and of a
\* removal that failed.
TempsCleaned ==
    \A c \in temps : \/ c \in stuck
                     \/ At(c, "import") \/ At(c, "index") \/ At(c, "clean")

\* The body is what the header asks for and has the announced length: always for
\* a book, which may be removed and acquired again between the two looks at the
\* file, and for a cover unless it was replaced between them.
ServedExactly ==
    answer.at = "done" /\ (answer.of = "cover" => answer.from = answer.edition) =>
        /\ answer.body = Requested(answer.header,
             IF answer.of = "book" THEN BookSize ELSE CoverSizes[answer.edition])
        /\ Cardinality(answer.body) = answer.end - answer.start + 1

\* Every call returns, also when servers redirect in circles.
CallsEnd == \A c \in Calls : ~ At(c, "idle") ~> At(c, "idle")
=============================================================================
