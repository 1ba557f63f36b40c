----------------------------- MODULE BookShelf -----------------------------
(***************************************************************************)
(* The managed books (BookService in src/desktop/books.cjs): imports,      *)
(* metadata, reading progress and removals as concurrent calls of one      *)
(* event loop.  Each call reads the index books.json, touches files        *)
(* outside the index, and changes the index in mutate, whose promise chain *)
(* runs one callback at a time.                                            *)
(*                                                                         *)
(* Abstractions.  A book is its digest; a managed file holds it or is not  *)
(* there.  The index records of a book what finalize and saveProgress      *)
(* change.  A copy under its staging name, which only a crash leaves, is   *)
(* no state.  Catalogs, which change the index through mutate alone, and   *)
(* the downloads (acquire imports the file it fetched) add no other way to *)
(* the shelf.  The folder does not change (DesktopShell moves it).         *)
(***************************************************************************)
EXTENDS Naturals, Sequences

CONSTANTS
    Books,       \* digests
    MaxCalls,    \* bound: calls under way at a time
    Fractions,   \* reading positions; 0 stands for none saved
    MaxFaults    \* bound: crashes and failed file operations

ASSUME BooksAssumption == Books # {}
ASSUME FractionsAssumption == 0 \in Fractions
ASSUME BoundsAssumption == MaxCalls \in Nat /\ MaxFaults \in Nat

VARIABLES
    files,    \* persistent: books with their managed file
    covers,   \* persistent: books with a cached cover
    index,    \* persistent: books.json
    queue,    \* calls in the chain of mutate
    call,     \* the calls under way
    asked,    \* history: removed by the user, not imported since
    undone,   \* history: a failed import took the file of another one away,
              \* which was not imported since
    saved,    \* history: progress last reported as saved
    faults    \* bound counter

disk    == <<files, covers, index>>
history == <<asked, undone, saved>>
vars    == <<disk, queue, call, history, faults>>

Calls    == 1..MaxCalls
Entry    == [in : BOOLEAN, cover : BOOLEAN, progress : Fractions]
NoEntry  == [in |-> FALSE, cover |-> FALSE, progress |-> 0]
NewEntry == [NoEntry EXCEPT !.in = TRUE]

Kinds   == {"import", "finalize", "progress", "remove"}
Steps   == {"idle", "check", "store", "queued", "apply", "cover", "undo",
            "unlink", "uncover"}
Anybook == CHOOSE b \in Books : TRUE
Idle    == [kind |-> "import", book |-> Anybook, at |-> "idle", arg |-> 0,
            seen |-> [b \in Books |-> NoEntry]]

Queued(c) == \E i \in 1..Len(queue) : queue[i] = c

TypeOK ==
    /\ files \subseteq Books /\ covers \subseteq Books
    /\ index \in [Books -> Entry]
    /\ queue \in Seq(Calls)
    /\ call \in [Calls -> [kind : Kinds, book : Books, at : Steps,
                           arg : Fractions, seen : [Books -> Entry]]]
    /\ asked \subseteq Books /\ undone \subseteq Books
    /\ saved \in [Books -> Fractions]
    /\ faults \in 0..MaxFaults
    /\ \A c \in Calls : Queued(c) <=> call[c].at \in {"queued", "apply", "cover"}

Init ==
    /\ files = {} /\ covers = {}
    /\ index = [b \in Books |-> NoEntry]
    /\ queue = <<>> /\ call = [c \in Calls |-> Idle]
    /\ asked = {} /\ undone = {} /\ saved = [b \in Books |-> 0]
    /\ faults = 0

Fault == faults < MaxFaults /\ faults' = faults + 1

At(c, step)   == call[c].at = step
Free(c)       == \A d \in 1..c : At(d, "idle") <=> d = c   \* the first free one
Goto(c, step) == call' = [call EXCEPT ![c].at = step]
Return(c)     == call' = [call EXCEPT ![c] = Idle]
Enqueue(c)    == queue' = Append(queue, c) /\ Goto(c, "queued")
Begin(c, kind, b, step) ==
    call' = [call EXCEPT ![c] = [Idle EXCEPT !.kind = kind, !.book = b, !.at = step]]

Is(c, kind)  == call[c].kind = kind
Removing(b)  == \E c \in Calls :
                  ~ At(c, "idle") /\ Is(c, "remove") /\ call[c].book = b
Importing(b) == {c \in Calls : ~ At(c, "idle") /\ Is(c, "import")
                                 /\ call[c].book = b}

-----------------------------------------------------------------------------
(* importFiles, for one file; a file that is no book is refused first. *)

Import(c, b) ==
    /\ Free(c)
    /\ Begin(c, "import", b, "check")
    /\ UNCHANGED <<disk, queue, history, faults>>

\* An indexed book is reported as a duplicate.
CheckDuplicate(c) ==
    /\ At(c, "check")
    /\ IF index[call[c].book].in THEN Return(c) ELSE Goto(c, "store")
    /\ UNCHANGED <<disk, queue, history, faults>>

\* Mutant: the index does not wait for the copy to get its name.
StoreUnawaited(c) ==
    /\ At(c, "store")
    /\ Enqueue(c)
    /\ UNCHANGED <<disk, history, faults>>

\* The staged copy has the digest and gets its name, whatever is there.
Store(c) ==
    /\ At(c, "store")
    /\ files' = files \cup {call[c].book}
    /\ Enqueue(c)
    /\ undone' = undone \ {call[c].book}
    /\ asked' = IF Removing(call[c].book) \/ index[call[c].book].in
                  THEN asked ELSE asked \ {call[c].book}
    /\ UNCHANGED <<covers, index, saved, faults>>

StoreFails(c) ==
    /\ At(c, "store") /\ Fault
    /\ Return(c)
    /\ UNCHANGED <<disk, queue, history>>

\* The index could not be written: the managed file is removed again.
Undo(c) ==
    /\ At(c, "undo")
    /\ files' = files \ {call[c].book}
    /\ undone' = IF index[call[c].book].in \/ Importing(call[c].book) # {c}
                   THEN undone \cup {call[c].book} ELSE undone
    /\ Return(c)
    /\ UNCHANGED <<covers, index, queue, asked, saved, faults>>

-----------------------------------------------------------------------------
(* finalize and saveProgress enter the chain at once. *)

Finalize(c, b) ==
    /\ Free(c)
    /\ queue' = Append(queue, c)
    /\ Begin(c, "finalize", b, "queued")
    /\ UNCHANGED <<disk, history, faults>>

SaveProgress(c, b, f) ==
    /\ Free(c)
    /\ queue' = Append(queue, c)
    /\ call' = [call EXCEPT ![c] = [Idle EXCEPT !.kind = "progress", !.book = b,
                                                !.at = "queued", !.arg = f]]
    /\ UNCHANGED <<disk, history, faults>>

-----------------------------------------------------------------------------
(* remove: it reads the index outside the chain. *)

Remove(c, b) ==
    /\ Free(c) /\ index[b].in
    /\ asked' = asked \cup {b}
    /\ call' = [call EXCEPT ![c] = [Idle EXCEPT !.kind = "remove", !.book = b,
                                                !.at = "unlink", !.seen = index]]
    /\ UNCHANGED <<disk, queue, undone, saved, faults>>

Unlink(c) ==
    /\ At(c, "unlink")
    /\ files' = files \ {call[c].book}
    /\ \/ call[c].seen[call[c].book].cover /\ Goto(c, "uncover") /\ UNCHANGED queue
       \/ ~ call[c].seen[call[c].book].cover /\ Enqueue(c)
    /\ UNCHANGED <<covers, index, history, faults>>

Uncover(c) ==
    /\ At(c, "uncover")
    /\ covers' = covers \ {call[c].book}
    /\ Enqueue(c)
    /\ UNCHANGED <<files, index, history, faults>>

UnlinkFails(c) ==
    /\ At(c, "unlink") \/ At(c, "uncover")
    /\ Fault
    /\ Return(c)
    /\ UNCHANGED <<disk, queue, history>>

-----------------------------------------------------------------------------
(* mutate. *)

\* Mutant: the callbacks do not wait for each other.
MutateReadAtOnce(c) ==
    /\ At(c, "queued")
    /\ LET missing == Is(c, "finalize") \/ Is(c, "progress")
       IN IF missing /\ ~ index[call[c].book].in
            THEN Return(c) /\ queue' = Tail(queue)
            ELSE /\ call' = [call EXCEPT ![c].seen = index,
                               ![c].at = IF Is(c, "finalize") THEN "cover" ELSE "apply"]
                 /\ UNCHANGED queue
    /\ UNCHANGED <<disk, history, faults>>

\* Its turn: the index is read; finalize and saveProgress of a book that is
\* not there reject.
MutateRead(c) ==
    /\ At(c, "queued") /\ Head(queue) = c
    /\ IF (Is(c, "finalize") \/ Is(c, "progress")) /\ ~ index[call[c].book].in
         THEN Return(c) /\ queue' = Tail(queue)
         ELSE /\ call' = [call EXCEPT ![c].seen = index,
                            ![c].at = IF Is(c, "finalize") THEN "cover" ELSE "apply"]
              /\ UNCHANGED queue
    /\ UNCHANGED <<disk, history, faults>>

\* Inside the callback of finalize; or there was no image.
WriteCover(c) ==
    /\ At(c, "cover")
    /\ \/ /\ covers' = covers \cup {call[c].book}
          /\ call' = [call EXCEPT ![c].at = "apply",
                        ![c].seen = [@ EXCEPT ![call[c].book].cover = TRUE]]
       \/ Goto(c, "apply") /\ UNCHANGED covers
    /\ UNCHANGED <<files, index, queue, history, faults>>

\* Mutant: an import always adds its record.
AppliedAddsAlways(c) ==
    LET b == call[c].book seen == call[c].seen
    IN CASE Is(c, "import")   -> [seen EXCEPT ![b] = NewEntry]
         [] Is(c, "finalize") -> seen
         [] Is(c, "progress") -> [seen EXCEPT ![b].progress = call[c].arg]
         [] Is(c, "remove")   -> [seen EXCEPT ![b] = NoEntry]

\* What the callback makes of the index it was given.
Applied(c) ==
    LET b == call[c].book seen == call[c].seen
    IN CASE Is(c, "import")   -> IF seen[b].in THEN seen
                                               ELSE [seen EXCEPT ![b] = NewEntry]
         [] Is(c, "finalize") -> seen
         [] Is(c, "progress") -> [seen EXCEPT ![b].progress = call[c].arg]
         [] Is(c, "remove")   -> [seen EXCEPT ![b] = NoEntry]

\* The index is replaced, the call returns, the next one has its turn.
MutateWrite(c) ==
    /\ At(c, "apply")
    /\ LET b == call[c].book
       IN /\ index' = Applied(c)
          /\ saved' = [saved EXCEPT ![b] = CASE Is(c, "progress") -> call[c].arg
                                             [] Is(c, "remove") -> 0
                                             [] OTHER -> @]
    /\ queue' = Tail(queue)
    /\ Return(c)
    /\ UNCHANGED <<files, covers, asked, undone, faults>>

\* Mutant: a rejected callback breaks the chain.
MutateFailsForAll(c) ==
    /\ At(c, "apply") \/ At(c, "cover")
    /\ Fault
    /\ IF Is(c, "import") THEN Goto(c, "undo") ELSE Return(c)
    /\ UNCHANGED <<disk, queue, history>>

\* The callback or the write rejects; the chain goes on.
MutateFails(c) ==
    /\ At(c, "apply") \/ At(c, "cover")
    /\ Fault
    /\ IF Is(c, "import") THEN Goto(c, "undo") ELSE Return(c)
    /\ queue' = Tail(queue)
    /\ UNCHANGED <<disk, history>>

-----------------------------------------------------------------------------
\* The application quits or crashes: calls are forgotten, files stay.
Crash ==
    /\ \E c \in Calls : ~ At(c, "idle")
    /\ Fault
    /\ call' = [c \in Calls |-> Idle] /\ queue' = <<>>
    /\ UNCHANGED <<disk, history>>

Step(c) ==
    \/ CheckDuplicate(c) \/ Store(c) \/ Undo(c) \/ Unlink(c) \/ Uncover(c)
    \/ MutateRead(c) \/ WriteCover(c) \/ MutateWrite(c)

Next ==
    \/ \E c \in Calls : Step(c) \/ StoreFails(c) \/ UnlinkFails(c) \/ MutateFails(c)
    \/ \E c \in Calls, b \in Books : Import(c, b) \/ Finalize(c, b) \/ Remove(c, b)
    \/ \E c \in Calls, b \in Books, f \in Fractions \ {0} : SaveProgress(c, b, f)
    \/ Crash

Spec == Init /\ [][Next]_vars

\* Every pending file operation completes.
Fairness == \A c \in Calls : WF_vars(Step(c))
FairSpec == Spec /\ Fairness

-----------------------------------------------------------------------------
(* Properties. *)

\* README: "verified managed copies live under the chosen downloads folder".
\* An indexed book has its file, and the cover it names, except for a removal
\* that did not reach the index (an error or a crash after the files went), for
\* an import that overlaps the removal of the same book (both in `asked', until
\* the book is imported again), and for the failed second import of the same
\* content, which takes the file of the first away.
IndexedIsThere ==
    \A b \in Books \ (asked \cup undone) :
        /\ index[b].in => b \in files
        /\ index[b].cover => b \in covers

\* No update is lost: what saveProgress reported as saved is in the index
\* until the book is removed, whatever else is written at the same time.
ProgressKept ==
    \A b \in Books : index[b].in => index[b].progress = saved[b]

\* A removed book is not brought back by a call that had read the index
\* before: after the removal was written only an import adds an entry.
RemovedStaysOut ==
    [][ \A b \in Books : ~ index[b].in /\ index'[b].in
          => Importing(b) # {} ]_vars

\* What each call under way was asked for.
Open == [c \in Calls |->
           IF At(c, "idle") THEN [kind |-> "none"]
           ELSE [kind |-> call[c].kind, book |-> call[c].book, arg |-> call[c].arg]]

Atomic == INSTANCE AtomicShelf WITH shelf <- index, open <- Open, reported <- saved

\* However calls read ahead, wait for files, fail and overlap, each changes the
\* index at one instant, from what it is at that instant, as if mutate ran the
\* whole call alone; a call that fails, is refused or is cut off changes nothing.
ImplementsAtomicShelf == Atomic!Spec

\* Every call returns: one that fails inside the chain does not block it.
CallsReturn == \A c \in Calls : ~ At(c, "idle") ~> At(c, "idle")
=============================================================================
