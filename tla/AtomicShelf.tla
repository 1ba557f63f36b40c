---------------------------- MODULE AtomicShelf ----------------------------
(***************************************************************************)
(* What the index of books promises to the callers of the book service.    *)
(* Calls overlap, read the index early and wait for files in between, but  *)
(* each of them takes effect on the index at one instant, on what the      *)
(* index is at that instant, and returns then; or it has no effect.        *)
(***************************************************************************)
CONSTANTS Books, Calls, Fractions

VARIABLES
    shelf,      \* the index of books
    open,       \* what each call under way was asked for
    reported    \* progress last reported as saved

vars == <<shelf, open, reported>>

Nothing  == [kind |-> "none"]
Requests == [kind : {"import", "finalize", "progress", "remove"},
             book : Books, arg : Fractions]
Absent   == [in |-> FALSE, cover |-> FALSE, progress |-> 0]
New      == [in |-> TRUE, cover |-> FALSE, progress |-> 0]

Init ==
    /\ shelf = [b \in Books |-> Absent]
    /\ open = [c \in Calls |-> Nothing]
    /\ reported = [b \in Books |-> 0]

Ask(c, request) ==
    /\ open[c] = Nothing
    /\ open' = [open EXCEPT ![c] = request]
    /\ UNCHANGED <<shelf, reported>>

Asked(c, kind) == open[c] # Nothing /\ open[c].kind = kind
Return(c)      == open' = [open EXCEPT ![c] = Nothing]
Put(b, entry)  == shelf' = [shelf EXCEPT ![b] = entry]

\* A book that is there already stays as it is.
Import(c) ==
    /\ Asked(c, "import") /\ Return(c)
    /\ LET b == open[c].book
       IN Put(b, IF shelf[b].in THEN shelf[b] ELSE New)
    /\ UNCHANGED reported

\* With an image the book has a cover from now on; without, nothing changes.
Finalize(c) ==
    /\ Asked(c, "finalize") /\ Return(c)
    /\ LET b == open[c].book
       IN shelf[b].in /\ (UNCHANGED shelf \/ Put(b, [shelf[b] EXCEPT !.cover = TRUE]))
    /\ UNCHANGED reported

SaveProgress(c) ==
    /\ Asked(c, "progress") /\ Return(c)
    /\ LET b == open[c].book
       IN /\ shelf[b].in
          /\ Put(b, [shelf[b] EXCEPT !.progress = open[c].arg])
          /\ reported' = [reported EXCEPT ![b] = open[c].arg]

Remove(c) ==
    /\ Asked(c, "remove") /\ Return(c)
    /\ Put(open[c].book, Absent)
    /\ reported' = [reported EXCEPT ![open[c].book] = 0]

\* Refused, failed, or a duplicate.
NoEffect(c) ==
    /\ open[c] # Nothing /\ Return(c)
    /\ UNCHANGED <<shelf, reported>>

\* The application ends with calls under way: they have no effect.
Forget ==
    /\ open' = [c \in Calls |-> Nothing]
    /\ UNCHANGED <<shelf, reported>>

Next ==
    \/ \E c \in Calls, request \in Requests : Ask(c, request)
    \/ \E c \in Calls : \/ Import(c) \/ Finalize(c) \/ SaveProgress(c)
                        \/ Remove(c) \/ NoEffect(c)
    \/ Forget

Spec == Init /\ [][Next]_vars
=============================================================================
