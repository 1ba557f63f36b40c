-------------------------- MODULE BookShelfProofs --------------------------
(***************************************************************************)
(* Proofs about BookShelf for any set of books and any number of calls.    *)
(*                                                                         *)
(* The invariant comes in two layers.  InLine says that the chain of       *)
(* mutate is a line without repetitions whose first call alone is inside   *)
(* its callback.  On it rests what the callback may rely on: the index it  *)
(* has read is still the one on the disk (ReadsCurrent).  The rest ties    *)
(* calls to files: a removal under way exempts its book (AskedWhile), a    *)
(* queued import has its file, or somebody is to blame (Shelved).          *)
(***************************************************************************)
EXTENDS BookShelf, SequenceTheorems, TLAPS

InChain == {"queued", "apply", "cover"}
Inside  == {"apply", "cover"}
CallRecords == [kind : Kinds, book : Books, at : Steps, arg : Fractions,
                seen : [Books -> Entry]]

In(q, c)    == \E i \in 1..Len(q) : q[i] = c
Distinct(q) == \A i, j \in 1..Len(q) : q[i] = q[j] => i = j

\* Calls stand in line once; only the first is inside its callback.
InLine ==
    /\ queue \in Seq(Calls) /\ Distinct(queue)
    /\ call \in [Calls -> CallRecords]
    /\ \A c \in Calls : In(queue, c) <=> call[c].at \in InChain
    /\ \A c \in Calls : call[c].at \in Inside => queue # <<>> /\ Head(queue) = c

-----------------------------------------------------------------------------
(* Lines. *)

LEMMA AppendLine ==
    ASSUME NEW S, NEW q \in Seq(S), NEW c \in S
    PROVE  /\ Append(q, c) \in Seq(S)
           /\ \A d : In(Append(q, c), d) <=> In(q, d) \/ d = c
           /\ Distinct(q) /\ ~ In(q, c) => Distinct(Append(q, c))
           /\ q # <<>> => Append(q, c) # <<>> /\ Head(Append(q, c)) = Head(q)
<1> DEFINE a == Append(q, c)
<1>1. /\ a \in Seq(S) /\ Len(a) = Len(q) + 1 /\ Len(q) \in Nat
      /\ \A i \in 1..Len(q) : a[i] = q[i]
      /\ a[Len(q) + 1] = c
  BY AppendProperties, LenProperties
<1>2. \A i \in 1..Len(a) : i \in 1..Len(q) \/ i = Len(q) + 1
  BY <1>1
<1>3. 1..Len(q) \subseteq 1..Len(a) /\ Len(q) + 1 \in 1..Len(a)
  BY <1>1
<1> HIDE DEF a
<1>4. ASSUME NEW d PROVE In(a, d) <=> In(q, d) \/ d = c
  BY <1>1, <1>2, <1>3, Zenon DEF In
<1>5. Distinct(q) /\ ~ In(q, c) => Distinct(a)
  BY <1>1, <1>2 DEF In, Distinct
<1>6. q # <<>> => a # <<>> /\ Head(a) = Head(q)
  BY HeadTailAppend, AppendProperties DEF a
<1> QED
  BY <1>1, <1>4, <1>5, <1>6 DEF a

LEMMA TailLine ==
    ASSUME NEW S, NEW q \in Seq(S), q # <<>>, Distinct(q)
    PROVE  /\ Tail(q) \in Seq(S) /\ Distinct(Tail(q))
           /\ Head(q) \in S
           /\ \A d : In(Tail(q), d) <=> In(q, d) /\ d # Head(q)
<1> DEFINE t == Tail(q)
<1>1. /\ t \in Seq(S) /\ Len(q) \in Nat \ {0} /\ Len(t) = Len(q) - 1 /\ Head(q) \in S
      /\ \A i \in 1..Len(t) : t[i] = q[i + 1]
  BY HeadTailProperties, EmptySeq
<1>2. Head(q) = q[1]
  BY <1>1
<1>3. \A i \in 1..Len(t) : i + 1 \in 1..Len(q) /\ i + 1 # 1
  BY <1>1
<1>4. \A j \in 1..Len(q) : j = 1 \/ (j - 1 \in 1..Len(t) /\ (j - 1) + 1 = j)
  BY <1>1
<1>5. 1 \in 1..Len(q)
  BY <1>1
<1> HIDE DEF t
<1>6. Distinct(t)
  BY <1>1, <1>3 DEF Distinct
<1>7. ASSUME NEW d PROVE In(t, d) <=> In(q, d) /\ d # q[1]
  <2>1. ASSUME In(t, d) PROVE In(q, d) /\ d # q[1]
    BY <1>1, <1>3, <1>5, <2>1 DEF In, Distinct
  <2>2. ASSUME In(q, d), d # q[1] PROVE In(t, d)
    <3>1. PICK j \in 1..Len(q) : q[j] = d
      BY <2>2 DEF In
    <3>2. j - 1 \in 1..Len(t) /\ (j - 1) + 1 = j
      BY <1>4, <2>2, <3>1
    <3>3. t[j - 1] = d
      BY <1>1, <3>1, <3>2
    <3> QED
      BY <3>2, <3>3 DEF In
  <2> QED
    BY <2>1, <2>2
<1> QED
  BY <1>1, <1>2, <1>6, <1>7 DEF t

\* A call that does not touch the chain and stays out of it.
LEMMA OutOfLine ==
    ASSUME InLine, NEW c \in Calls, call' \in [Calls -> CallRecords],
           \A d \in Calls \ {c} : call'[d] = call[d],
           call[c].at \notin InChain, call'[c].at \notin InChain,
           queue' = queue
    PROVE  InLine'
BY DEF InLine, Inside, InChain

\* A call at the end of the line.
LEMMA EntersLine ==
    ASSUME InLine, NEW c \in Calls, call' \in [Calls -> CallRecords],
           \A d \in Calls \ {c} : call'[d] = call[d],
           call[c].at \notin InChain, call'[c].at = "queued",
           queue' = Append(queue, c)
    PROVE  InLine'
<1>1. queue \in Seq(Calls) /\ Distinct(queue) /\ ~ In(queue, c)
  BY DEF InLine
<1>2. /\ queue' \in Seq(Calls) /\ Distinct(queue')
      /\ \A d : In(queue', d) <=> In(queue, d) \/ d = c
      /\ queue # <<>> => queue' # <<>> /\ Head(queue') = Head(queue)
  BY <1>1, AppendLine
<1> QED
  BY <1>2 DEF InLine, Inside, InChain

\* The first call goes on inside its turn.
LEMMA StaysFirst ==
    ASSUME InLine, NEW c \in Calls, call' \in [Calls -> CallRecords],
           \A d \in Calls \ {c} : call'[d] = call[d],
           call[c].at \in InChain, call'[c].at \in InChain,
           queue # <<>>, Head(queue) = c, queue' = queue
    PROVE  InLine'
BY DEF InLine, Inside, InChain

\* The first call leaves, and nobody has entered his callback yet.
LEMMA LeavesLine ==
    ASSUME InLine, NEW c \in Calls, call' \in [Calls -> CallRecords],
           \A d \in Calls \ {c} : call'[d] = call[d],
           call[c].at \in InChain, call'[c].at \notin InChain,
           queue # <<>>, Head(queue) = c, queue' = Tail(queue)
    PROVE  InLine'
<1>1. /\ queue' \in Seq(Calls) /\ Distinct(queue')
      /\ \A d : In(queue', d) <=> In(queue, d) /\ d # c
  BY TailLine DEF InLine
<1>2. \A d \in Calls \ {c} : call[d].at \notin Inside
  BY DEF InLine
<1> QED
  BY <1>1, <1>2 DEF InLine, Inside, InChain

-----------------------------------------------------------------------------
(* What the steps of a call do to its record. *)

LEMMA IdleTyped == Idle \in CallRecords /\ NoEntry \in Entry /\ NewEntry \in Entry
<1>1. Anybook \in Books
  BY BooksAssumption DEF Anybook
<1>2. NoEntry \in Entry /\ NewEntry \in Entry
  BY FractionsAssumption DEF NoEntry, NewEntry, Entry
<1> QED
  BY <1>1, <1>2, FractionsAssumption DEF Idle, CallRecords, Kinds, Steps

LEMMA GotoEffect ==
    ASSUME call \in [Calls -> CallRecords], NEW c \in Calls, NEW s \in Steps,
           Goto(c, s)
    PROVE  /\ call' \in [Calls -> CallRecords]
           /\ \A d \in Calls \ {c} : call'[d] = call[d]
           /\ call'[c].at = s /\ call'[c].kind = call[c].kind
           /\ call'[c].book = call[c].book /\ call'[c].seen = call[c].seen
           /\ call'[c].arg = call[c].arg
BY DEF Goto, CallRecords

LEMMA ReturnEffect ==
    ASSUME call \in [Calls -> CallRecords], NEW c \in Calls, Return(c)
    PROVE  /\ call' \in [Calls -> CallRecords]
           /\ \A d \in Calls \ {c} : call'[d] = call[d]
           /\ call'[c] = Idle /\ call'[c].at = "idle"
BY IdleTyped DEF Return, Idle

LEMMA FreeIsIdle ==
    ASSUME NEW c \in Calls, Free(c)
    PROVE  call[c].at = "idle"
<1>1. c \in 1..c
  BY DEF Calls
<1> QED
  BY <1>1 DEF Free, At

\* A new record in the place of one call's.
LEMMA NewRecord ==
    ASSUME call \in [Calls -> CallRecords], NEW c \in Calls, NEW r \in CallRecords,
           call' = [call EXCEPT ![c] = r]
    PROVE  /\ call' \in [Calls -> CallRecords] /\ call'[c] = r
           /\ \A d \in Calls \ {c} : call'[d] = call[d]
OBVIOUS

LEMMA BeginEffect ==
    ASSUME call \in [Calls -> CallRecords], NEW c \in Calls, NEW kind \in Kinds,
           NEW b \in Books, NEW s \in Steps, Begin(c, kind, b, s)
    PROVE  /\ call' \in [Calls -> CallRecords]
           /\ \A d \in Calls \ {c} : call'[d] = call[d]
           /\ call'[c].at = s /\ call'[c].kind = kind /\ call'[c].book = b
           /\ call'[c].arg = 0
<1> DEFINE r == [Idle EXCEPT !.kind = kind, !.book = b, !.at = s]
<1>1. r \in CallRecords /\ r.at = s /\ r.kind = kind /\ r.book = b /\ r.arg = Idle.arg
  BY IdleTyped DEF CallRecords, Idle
<1>2. call' = [call EXCEPT ![c] = r]
  BY DEF Begin
<1> HIDE DEF r
<1>3. Idle.arg = 0
  BY DEF Idle
<1> QED
  BY <1>1, <1>2, <1>3, NewRecord

LEMMA ProgressEffect ==
    ASSUME call \in [Calls -> CallRecords], NEW c \in Calls, NEW b \in Books,
           NEW f \in Fractions, SaveProgress(c, b, f)
    PROVE  /\ call' \in [Calls -> CallRecords]
           /\ \A d \in Calls \ {c} : call'[d] = call[d]
           /\ call'[c].at = "queued" /\ call'[c].kind = "progress"
           /\ call'[c].book = b /\ call'[c].arg = f
<1> DEFINE r == [Idle EXCEPT !.kind = "progress", !.book = b, !.at = "queued",
                             !.arg = f]
<1>1. r \in CallRecords /\ r.at = "queued" /\ r.kind = "progress" /\ r.book = b
      /\ r.arg = f
  BY IdleTyped DEF CallRecords, Idle, Steps, Kinds
<1>2. call' = [call EXCEPT ![c] = r]
  BY DEF SaveProgress
<1> HIDE DEF r
<1> QED
  BY <1>1, <1>2, NewRecord

LEMMA RemoveEffect ==
    ASSUME call \in [Calls -> CallRecords], index \in [Books -> Entry],
           NEW c \in Calls, NEW b \in Books, Remove(c, b)
    PROVE  /\ call' \in [Calls -> CallRecords]
           /\ \A d \in Calls \ {c} : call'[d] = call[d]
           /\ call'[c].at = "unlink" /\ call'[c].kind = "remove"
           /\ call'[c].book = b
<1> DEFINE r == [Idle EXCEPT !.kind = "remove", !.book = b, !.at = "unlink",
                             !.seen = index]
<1>1. r \in CallRecords /\ r.at = "unlink" /\ r.kind = "remove" /\ r.book = b
  BY IdleTyped DEF CallRecords, Idle, Steps, Kinds
<1>2. call' = [call EXCEPT ![c] = r]
  BY DEF Remove
<1> HIDE DEF r
<1> QED
  BY <1>1, <1>2, NewRecord

\* The index is read inside the chain.
LEMMA ReadEffect ==
    ASSUME call \in [Calls -> CallRecords], index \in [Books -> Entry],
           NEW c \in Calls, NEW s \in Steps,
           call' = [call EXCEPT ![c].seen = index, ![c].at = s]
    PROVE  /\ call' \in [Calls -> CallRecords]
           /\ \A d \in Calls \ {c} : call'[d] = call[d]
           /\ call'[c].at = s /\ call'[c].kind = call[c].kind
           /\ call'[c].book = call[c].book /\ call'[c].seen = index
           /\ call'[c].arg = call[c].arg
BY DEF CallRecords

\* finalize has written a cover and notes it in what it will write.
LEMMA CoverEffect ==
    ASSUME call \in [Calls -> CallRecords], NEW c \in Calls,
           call' = [call EXCEPT ![c].at = "apply",
                      ![c].seen = [@ EXCEPT ![call[c].book].cover = TRUE]]
    PROVE  /\ call' \in [Calls -> CallRecords]
           /\ \A d \in Calls \ {c} : call'[d] = call[d]
           /\ call'[c].at = "apply" /\ call'[c].kind = call[c].kind
           /\ call'[c].book = call[c].book /\ call'[c].arg = call[c].arg
           /\ \A b \in Books \ {call[c].book} : call'[c].seen[b] = call[c].seen[b]
           /\ call'[c].seen[call[c].book]
                = [call[c].seen[call[c].book] EXCEPT !.cover = TRUE]
<1> DEFINE seen == [call[c].seen EXCEPT ![call[c].book].cover = TRUE]
<1>1. /\ call[c].seen \in [Books -> Entry] /\ call[c].book \in Books
      /\ call[c] \in CallRecords
  BY DEF CallRecords
<1>2. [call[c].seen[call[c].book] EXCEPT !.cover = TRUE] \in Entry
  BY <1>1 DEF Entry
<1>3. /\ seen \in [Books -> Entry]
      /\ \A b \in Books \ {call[c].book} : seen[b] = call[c].seen[b]
      /\ seen[call[c].book] = [call[c].seen[call[c].book] EXCEPT !.cover = TRUE]
  BY <1>1, <1>2
<1> DEFINE r == [call[c] EXCEPT !.at = "apply", !.seen = seen]
<1>4. call' = [call EXCEPT ![c] = r]
  OBVIOUS
<1> HIDE DEF seen
<1>5. /\ r \in CallRecords /\ r.at = "apply" /\ r.seen = seen
      /\ r.kind = call[c].kind /\ r.book = call[c].book /\ r.arg = call[c].arg
  BY <1>1, <1>3 DEF CallRecords, Steps
<1> HIDE DEF r
<1>6. /\ call' \in [Calls -> CallRecords] /\ call'[c] = r
      /\ \A d \in Calls \ {c} : call'[d] = call[d]
  BY <1>4, <1>5
<1> QED
  BY <1>3, <1>5, <1>6

-----------------------------------------------------------------------------
(* Types, and the line. *)

Types ==
    /\ files \subseteq Books /\ covers \subseteq Books
    /\ index \in [Books -> Entry]
    /\ asked \subseteq Books /\ undone \subseteq Books
    /\ saved \in [Books -> Fractions]
    /\ faults \in 0..MaxFaults

\* Imports, and removals before they queue, are out of the chain.
LEMMA OutsideKeepsLine ==
    ASSUME InLine, NEW c \in Calls, NEW b \in Books,
           \/ Import(c, b) \/ CheckDuplicate(c) \/ StoreFails(c) \/ Undo(c)
           \/ UnlinkFails(c) \/ (Types /\ Remove(c, b))
    PROVE  InLine'
<1> USE DEF At
<1>0. call \in [Calls -> CallRecords]
  BY DEF InLine
<1>1. Free(c) => call[c].at = "idle"
  BY FreeIsIdle
<1>2. CASE Import(c, b)
  <2>1. call[c].at = "idle" /\ queue' = queue /\ Begin(c, "import", b, "check")
    BY <1>1, <1>2 DEF Import
  <2> QED
    BY <1>0, <2>1, BeginEffect, OutOfLine DEF InChain, Kinds, Steps
<1>3. CASE CheckDuplicate(c)
  <2>1. call[c].at = "check" /\ queue' = queue /\ (Return(c) \/ Goto(c, "store"))
    BY <1>3 DEF CheckDuplicate
  <2> QED
    BY <1>0, <2>1, GotoEffect, ReturnEffect, OutOfLine DEF InChain, Steps
<1>4. CASE StoreFails(c) \/ UnlinkFails(c) \/ Undo(c)
  <2>1. call[c].at \notin InChain /\ queue' = queue /\ Return(c)
    BY <1>4 DEF StoreFails, UnlinkFails, Undo, InChain
  <2> QED
    BY <1>0, <2>1, ReturnEffect, OutOfLine DEF InChain
<1>5. CASE Types /\ Remove(c, b)
  <2>1. call[c].at = "idle" /\ queue' = queue /\ index \in [Books -> Entry]
    BY <1>1, <1>5 DEF Remove, Types
  <2> QED
    BY <1>0, <1>5, <2>1, RemoveEffect, OutOfLine DEF InChain
<1> QED
  BY <1>2, <1>3, <1>4, <1>5

\* Steps that enter the chain.
LEMMA EnteringKeepsLine ==
    ASSUME InLine, NEW c \in Calls, NEW b \in Books, NEW f \in Fractions,
           Store(c) \/ Finalize(c, b) \/ SaveProgress(c, b, f) \/ Unlink(c) \/ Uncover(c)
    PROVE  InLine'
<1> USE DEF At
<1>0. call \in [Calls -> CallRecords]
  BY DEF InLine
<1>1. Free(c) => call[c].at = "idle"
  BY FreeIsIdle
<1>2. ASSUME Enqueue(c), call[c].at \notin InChain PROVE InLine'
  BY <1>0, <1>2, GotoEffect, EntersLine DEF Enqueue, Steps
<1>3. CASE Store(c) \/ Uncover(c)
  BY <1>2, <1>3 DEF Store, Uncover, InChain
<1>4. CASE Unlink(c)
  <2>1. call[c].at = "unlink" /\ (Enqueue(c) \/ (Goto(c, "uncover") /\ queue' = queue))
    BY <1>4 DEF Unlink
  <2>2. CASE Enqueue(c)
    BY <1>2, <2>1, <2>2 DEF InChain
  <2>3. CASE Goto(c, "uncover") /\ queue' = queue
    BY <1>0, <2>1, <2>3, GotoEffect, OutOfLine DEF InChain, Steps
  <2> QED
    BY <2>1, <2>2, <2>3
<1>5. CASE Finalize(c, b)
  <2>1. call[c].at = "idle" /\ queue' = Append(queue, c)
        /\ Begin(c, "finalize", b, "queued")
    BY <1>1, <1>5 DEF Finalize
  <2> QED
    BY <1>0, <2>1, BeginEffect, EntersLine DEF Steps, Kinds, InChain
<1>6. CASE SaveProgress(c, b, f)
  <2>1. call[c].at = "idle" /\ queue' = Append(queue, c)
    BY <1>1, <1>6 DEF SaveProgress
  <2> QED
    BY <1>0, <1>6, <2>1, ProgressEffect, EntersLine DEF InChain
<1> QED
  BY <1>3, <1>4, <1>5, <1>6

\* The turn of a call begins: it is refused, or it has read the index.
LEMMA MutateReadEffect ==
    ASSUME InLine, Types, NEW c \in Calls, MutateRead(c)
    PROVE  /\ call' \in [Calls -> CallRecords]
           /\ \A d \in Calls \ {c} : call'[d] = call[d]
           /\ queue # <<>> /\ Head(queue) = c /\ call[c].at = "queued"
           /\ UNCHANGED <<disk, history, faults>>
           /\ \/ /\ call'[c] = Idle /\ queue' = Tail(queue)
              \/ /\ queue' = queue
                 /\ call'[c].at = IF Is(c, "finalize") THEN "cover" ELSE "apply"
                 /\ call'[c].kind = call[c].kind /\ call'[c].book = call[c].book
                 /\ call'[c].arg = call[c].arg /\ call'[c].seen = index
                 /\ Is(c, "finalize") \/ Is(c, "progress") => index[call[c].book].in
<1>1. call \in [Calls -> CallRecords] /\ index \in [Books -> Entry]
  BY DEF InLine, Types
<1>2. /\ call[c].at = "queued" /\ Head(queue) = c
      /\ UNCHANGED <<disk, history, faults>>
  BY DEF MutateRead, At
<1>3. queue # <<>>
  <2>1. In(queue, c)
    BY <1>2 DEF InLine, InChain
  <2> QED
    BY <2>1, EmptySeq DEF In
<1>4. CASE (Is(c, "finalize") \/ Is(c, "progress")) /\ ~ index[call[c].book].in
  <2>1. Return(c) /\ queue' = Tail(queue)
    BY <1>4 DEF MutateRead
  <2> QED
    BY <1>1, <1>2, <1>3, <2>1, ReturnEffect
<1>5. CASE ~ ((Is(c, "finalize") \/ Is(c, "progress")) /\ ~ index[call[c].book].in)
  <2> DEFINE s == IF Is(c, "finalize") THEN "cover" ELSE "apply"
  <2>1. queue' = queue /\ call' = [call EXCEPT ![c].seen = index, ![c].at = s]
    BY <1>5 DEF MutateRead
  <2>2. s \in Steps
    BY DEF Steps
  <2> HIDE DEF s
  <2>3. /\ call' \in [Calls -> CallRecords]
        /\ \A d \in Calls \ {c} : call'[d] = call[d]
        /\ call'[c].at = s /\ call'[c].kind = call[c].kind
        /\ call'[c].book = call[c].book /\ call'[c].seen = index
        /\ call'[c].arg = call[c].arg
    BY <1>1, <2>1, <2>2, ReadEffect
  <2> QED
    BY <1>2, <1>3, <1>5, <2>1, <2>3 DEF s
<1> QED
  BY <1>4, <1>5

\* Steps inside the chain.
LEMMA TurnKeepsLine ==
    ASSUME InLine, Types, NEW c \in Calls,
           MutateRead(c) \/ WriteCover(c) \/ MutateWrite(c) \/ MutateFails(c)
    PROVE  InLine'
<1> USE DEF At
<1>0. call \in [Calls -> CallRecords] /\ Idle.at = "idle"
  BY DEF InLine, Idle
<1>1. CASE MutateRead(c)
  BY <1>0, <1>1, MutateReadEffect, StaysFirst, LeavesLine DEF InChain
<1>2. call[c].at \in Inside => queue # <<>> /\ Head(queue) = c
  BY DEF InLine
<1>3. CASE WriteCover(c)
  <2>1. call[c].at = "cover" /\ queue' = queue
    BY <1>3 DEF WriteCover
  <2>2. \/ call' = [call EXCEPT ![c].at = "apply",
                      ![c].seen = [@ EXCEPT ![call[c].book].cover = TRUE]]
        \/ Goto(c, "apply")
    BY <1>3 DEF WriteCover
  <2>3. /\ call' \in [Calls -> CallRecords] /\ call'[c].at = "apply"
        /\ \A d \in Calls \ {c} : call'[d] = call[d]
    BY <1>0, <2>2, CoverEffect, GotoEffect DEF Steps
  <2> QED
    BY <1>2, <2>1, <2>3, StaysFirst DEF InChain, Inside
<1>4. CASE MutateWrite(c)
  <2>1. call[c].at = "apply" /\ queue' = Tail(queue) /\ Return(c)
    BY <1>4 DEF MutateWrite
  <2> QED
    BY <1>0, <1>2, <2>1, ReturnEffect, LeavesLine DEF InChain, Inside
<1>5. CASE MutateFails(c)
  <2>1. call[c].at \in Inside /\ queue' = Tail(queue) /\ (Return(c) \/ Goto(c, "undo"))
    BY <1>5 DEF MutateFails, Inside
  <2> QED
    BY <1>0, <1>2, <2>1, ReturnEffect, GotoEffect, LeavesLine DEF InChain, Inside, Steps
<1> QED
  BY <1>1, <1>3, <1>4, <1>5

\* Nobody waits after a crash.
LEMMA CrashKeepsLine == InLine /\ Crash => InLine'
<1> SUFFICES ASSUME InLine, Crash PROVE InLine'
  OBVIOUS
<1>1. call' = [c \in Calls |-> Idle] /\ queue' = <<>>
  BY DEF Crash
<1>2. Idle.at \notin InChain
  BY DEF Idle, InChain
<1>3. queue' \in Seq(Calls) /\ Len(queue') = 0
  BY <1>1, EmptySeq
<1>4. Distinct(queue') /\ \A c : ~ In(queue', c)
  BY <1>3 DEF Distinct, In
<1> QED
  BY <1>1, <1>2, <1>3, <1>4, IdleTyped DEF InLine, InChain, Inside

LEMMA NextLine == InLine /\ Types /\ [Next]_vars => InLine'
<1> SUFFICES ASSUME InLine, Types, [Next]_vars PROVE InLine'
  OBVIOUS
<1>1. ASSUME NEW c \in Calls, Step(c) \/ StoreFails(c) \/ UnlinkFails(c) \/ MutateFails(c)
      PROVE  InLine'
  <2>1. Anybook \in Books /\ 0 \in Fractions
    BY IdleTyped, FractionsAssumption DEF CallRecords, Idle
  <2> QED
    BY <1>1, <2>1, OutsideKeepsLine, EnteringKeepsLine, TurnKeepsLine DEF Step
<1>2. ASSUME NEW c \in Calls, NEW b \in Books, NEW f \in Fractions,
             Import(c, b) \/ Finalize(c, b) \/ Remove(c, b) \/ SaveProgress(c, b, f)
      PROVE  InLine'
  BY <1>2, OutsideKeepsLine, EnteringKeepsLine
<1>3. CASE UNCHANGED vars
  BY <1>3 DEF InLine, vars, In, Distinct
<1> QED
  BY <1>1, <1>2, <1>3, CrashKeepsLine, FractionsAssumption DEF Next

-----------------------------------------------------------------------------
(* The invariant. *)

\* What a call stands at tells what it was called for, and a callback that
\* would have been refused is not running.
KindsFit ==
    \A c \in Calls :
        /\ call[c].at \in {"check", "store", "undo"} => Is(c, "import")
        /\ call[c].at \in {"unlink", "uncover"} => Is(c, "remove")
        /\ At(c, "cover") => Is(c, "finalize")
        /\ call[c].at \in Inside /\ (Is(c, "finalize") \/ Is(c, "progress"))
             => index[call[c].book].in

\* What a callback has read is still the index, but for the cover that it has
\* written itself; and that cover is there, or a removal is on its way.
ReadsCurrent ==
    \A c \in Calls :
        /\ At(c, "cover") => call[c].seen = index
        /\ At(c, "apply") => \A b \in Books :
             \/ call[c].seen[b] = index[b]
             \/ /\ Is(c, "finalize") /\ b = call[c].book
                /\ call[c].seen[b] = [index[b] EXCEPT !.cover = TRUE]
                /\ b \in covers \cup asked

\* Progress is what was reported, and a book that is not there has no trace.
Recorded ==
    \A b \in Books : /\ index[b].progress = saved[b]
                     /\ ~ index[b].in => index[b] = NoEntry

\* A book is exempt while it is being removed.
AskedWhile == \A b \in Books : Removing(b) => b \in asked

\* Covers and files of indexed books are there, and the file of a book that an
\* import is about to index.
Shelved ==
    \A b \in Books \ asked :
        /\ index[b].cover => b \in covers
        /\ b \notin undone =>
             /\ index[b].in => b \in files
             /\ \A c \in Importing(b) : call[c].at \in {"queued", "apply"} => b \in files

IInv ==
    /\ Types /\ InLine /\ KindsFit /\ ReadsCurrent
    /\ Recorded /\ AskedWhile /\ Shelved

LEMMA InitIInv == Init => IInv
<1> SUFFICES ASSUME Init PROVE IInv
  OBVIOUS
<1>1. Idle.at = "idle" /\ Idle.kind = "import" /\ NoEntry.in = FALSE
      /\ NoEntry.cover = FALSE /\ NoEntry.progress = 0
  BY DEF Idle, NoEntry
<1>2. \A c \in Calls : call[c] = Idle
  BY DEF Init
<1>3. Types
  BY IdleTyped, FractionsAssumption, BoundsAssumption DEF Init, Types
<1>4. queue = <<>> /\ queue \in Seq(Calls) /\ Len(queue) = 0
  BY EmptySeq DEF Init
<1>5. InLine
  BY <1>1, <1>2, <1>4, IdleTyped DEF Init, InLine, In, Distinct, InChain, Inside
<1>6. KindsFit /\ ReadsCurrent
  BY <1>1, <1>2 DEF KindsFit, ReadsCurrent, At, Is, Inside
<1>7. Recorded /\ AskedWhile /\ Shelved
  BY <1>1, <1>2 DEF Init, Recorded, AskedWhile, Shelved, Removing, Importing, At, Is
<1> QED
  BY <1>3, <1>5, <1>6, <1>7 DEF IInv

\* What a callback makes of the index, on the index as it is.
LEMMA AppliedEffect ==
    ASSUME IInv, NEW c \in Calls, At(c, "apply"), NEW b, b = call[c].book
    PROVE  /\ b \in Books /\ Applied(c) \in [Books -> Entry]
           /\ \A x \in Books \ {b} : Applied(c)[x] = index[x]
           /\ Is(c, "import") =>
                Applied(c)[b] = IF index[b].in THEN index[b] ELSE NewEntry
           /\ Is(c, "finalize") =>
                /\ index[b].in
                /\ \/ Applied(c)[b] = index[b]
                   \/ /\ Applied(c)[b] = [index[b] EXCEPT !.cover = TRUE]
                      /\ b \in covers \cup asked
           /\ Is(c, "progress") =>
                /\ index[b].in
                /\ Applied(c)[b] = [index[b] EXCEPT !.progress = call[c].arg]
           /\ Is(c, "remove") => Applied(c)[b] = NoEntry
<1> DEFINE seen == call[c].seen
<1>1. /\ call[c] \in CallRecords /\ b \in Books /\ seen \in [Books -> Entry]
      /\ call[c].arg \in Fractions /\ call[c].kind \in Kinds
      /\ index \in [Books -> Entry]
  BY DEF IInv, Types, InLine, CallRecords
<1>2. \A x \in Books :
        \/ seen[x] = index[x]
        \/ /\ Is(c, "finalize") /\ x = b /\ x \in covers \cup asked
           /\ seen[x] = [index[x] EXCEPT !.cover = TRUE]
  BY DEF IInv, ReadsCurrent
<1>3. Is(c, "finalize") \/ Is(c, "progress") => index[b].in
  BY DEF IInv, KindsFit, At, Inside
<1> HIDE DEF seen
<1>4. CASE Is(c, "import")
  <2>1. Applied(c) = IF seen[b].in THEN seen ELSE [seen EXCEPT ![b] = NewEntry]
    BY <1>4 DEF Applied, Is, seen
  <2> QED
    BY <1>1, <1>2, <1>4, <2>1, IdleTyped DEF Is
<1>5. CASE Is(c, "finalize")
  <2>1. Applied(c) = seen
    BY <1>5 DEF Applied, Is, seen
  <2> QED
    BY <1>1, <1>2, <1>3, <1>5, <2>1 DEF Is
<1>6. CASE Is(c, "progress")
  <2>1. Applied(c) = [seen EXCEPT ![b] = [seen[b] EXCEPT !.progress = call[c].arg]]
    BY <1>6 DEF Applied, Is, seen
  <2>2. [seen[b] EXCEPT !.progress = call[c].arg] \in Entry
    BY <1>1 DEF Entry
  <2>3. seen[b] = index[b]
    BY <1>1, <1>2, <1>6 DEF Is
  <2> QED
    BY <1>1, <1>2, <1>3, <1>6, <2>1, <2>2, <2>3 DEF Is
<1>7. CASE Is(c, "remove")
  <2>1. Applied(c) = [seen EXCEPT ![b] = NoEntry]
    BY <1>7 DEF Applied, Is, seen
  <2> QED
    BY <1>1, <1>2, <1>7, <2>1, IdleTyped DEF Is
<1> QED
  BY <1>1, <1>4, <1>5, <1>6, <1>7 DEF Is, Kinds

-----------------------------------------------------------------------------
(* Steps that leave the index as it is. *)

\* What the record of the call that takes the step has to satisfy after it.
Fits(r) ==
    /\ r.at \in {"check", "store", "undo"} => r.kind = "import"
    /\ r.at \in {"unlink", "uncover"} => r.kind = "remove"
    /\ r.at = "cover" => r.kind = "finalize" /\ r.seen = index
    /\ r.at \in Inside /\ r.kind \in {"finalize", "progress"} => index[r.book].in
    /\ r.at = "apply" => \A b \in Books :
         \/ r.seen[b] = index[b]
         \/ /\ r.kind = "finalize" /\ b = r.book
            /\ r.seen[b] = [index[b] EXCEPT !.cover = TRUE]
            /\ b \in covers' \cup asked'
    /\ r.at # "idle" /\ r.kind = "remove" => r.book \in asked'

LEMMA SameIndex ==
    ASSUME IInv, NEW c \in Calls, \A d \in Calls \ {c} : call'[d] = call[d],
           index' = index, saved' = saved,
           \A b \in Books : index[b].in /\ b \in covers \cup asked
                              => b \in covers' \cup asked',
           \A b \in Books : Removing(b) => b \in asked',
           Fits(call'[c])
    PROVE  KindsFit' /\ ReadsCurrent' /\ Recorded' /\ AskedWhile'
<1>1. KindsFit'
  BY DEF IInv, KindsFit, Fits, At, Is, Inside
<1>2. ReadsCurrent'
  <2> SUFFICES ASSUME NEW d \in Calls
               PROVE  /\ call'[d].at = "cover" => call'[d].seen = index
                      /\ call'[d].at = "apply" => \A b \in Books :
                           \/ call'[d].seen[b] = index[b]
                           \/ /\ call'[d].kind = "finalize" /\ b = call'[d].book
                              /\ call'[d].seen[b] = [index[b] EXCEPT !.cover = TRUE]
                              /\ b \in covers' \cup asked'
    BY DEF ReadsCurrent, At, Is
  <2>1. CASE d = c
    BY <2>1 DEF Fits
  <2>2. CASE d # c
    <3>1. call'[d] = call[d]
      BY <2>2
    <3>2. call[d].at = "apply" /\ call[d].kind = "finalize" => index[call[d].book].in
      BY DEF IInv, KindsFit, Is, Inside
    <3> QED
      BY <3>1, <3>2 DEF IInv, ReadsCurrent, At, Is
  <2> QED
    BY <2>1, <2>2
<1>3. Recorded'
  BY DEF IInv, Recorded
<1>4. AskedWhile'
  BY DEF AskedWhile, Removing, Fits, At, Is
<1> QED
  BY <1>1, <1>2, <1>3, <1>4

\* Nothing that was on the disk goes, and nobody queues a new import.
LEMMA NothingGoes ==
    ASSUME IInv, NEW c \in Calls, \A d \in Calls \ {c} : call'[d] = call[d],
           index' = index, files \subseteq files', covers \subseteq covers',
           asked \subseteq asked', undone' = undone,
           call'[c].at \in {"queued", "apply"} /\ call'[c].kind = "import"
             => /\ call[c].at \in {"queued", "apply"} /\ call[c].kind = "import"
                /\ call'[c].book = call[c].book
    PROVE  Shelved'
<1> SUFFICES ASSUME NEW b \in Books, b \notin asked
             PROVE  /\ index[b].cover => b \in covers'
                    /\ b \notin undone =>
                         /\ index[b].in => b \in files'
                         /\ \A d \in Importing(b)' :
                              call'[d].at \in {"queued", "apply"} => b \in files'
  BY DEF Shelved
<1>1. /\ index[b].cover => b \in covers
      /\ b \notin undone =>
           /\ index[b].in => b \in files
           /\ \A d \in Importing(b) : call[d].at \in {"queued", "apply"} => b \in files
  BY DEF IInv, Shelved
<1>2. ASSUME NEW d \in Importing(b)', call'[d].at \in {"queued", "apply"}
      PROVE  d \in Importing(b) /\ call[d].at \in {"queued", "apply"}
  BY <1>2 DEF Importing, At, Is
<1> QED
  BY <1>1, <1>2

\* A step that does not write the index, takes nothing away and queues no new
\* import.
LEMMA QuietStep ==
    ASSUME IInv, NEW c \in Calls, \A d \in Calls \ {c} : call'[d] = call[d],
           index' = index, saved' = saved, files' = files, undone' = undone,
           covers \subseteq covers', covers' \subseteq Books, asked \subseteq asked',
           asked' \subseteq Books, faults' \in 0..MaxFaults, Fits(call'[c]),
           call'[c].at \in {"queued", "apply"} /\ call'[c].kind = "import"
             => /\ call[c].at \in {"queued", "apply"} /\ call[c].kind = "import"
                /\ call'[c].book = call[c].book,
           InLine'
    PROVE  IInv'
<1>1. Types'
  BY DEF IInv, Types
<1>2. \A b \in Books : index[b].in /\ b \in covers \cup asked
                         => b \in covers' \cup asked'
  OBVIOUS
<1>3. \A b \in Books : Removing(b) => b \in asked'
  BY DEF IInv, AskedWhile
<1>4. KindsFit' /\ ReadsCurrent' /\ Recorded' /\ AskedWhile'
  BY <1>2, <1>3, SameIndex
<1>5. Shelved'
  BY NothingGoes
<1> QED
  BY <1>1, <1>4, <1>5 DEF IInv

LEMMA FaultTyped == Types /\ Fault => faults' \in 0..MaxFaults
  BY BoundsAssumption DEF Types, Fault

\* A call that returns without effect.
LEMMA ReturnKeeps ==
    ASSUME IInv, NEW c \in Calls, Return(c), InLine',
           UNCHANGED <<disk, history>>, faults' = faults \/ Fault
    PROVE  IInv'
<1>1. call \in [Calls -> CallRecords] /\ faults' \in 0..MaxFaults
  BY FaultTyped DEF IInv, InLine, Types
<1>2. /\ call'[c].at = "idle"
      /\ \A d \in Calls \ {c} : call'[d] = call[d]
  BY <1>1, ReturnEffect
<1>3. Fits(call'[c])
  BY <1>2 DEF Fits, Inside
<1> QED
  BY <1>1, <1>2, <1>3, QuietStep DEF disk, history, IInv, Types

LEMMA AskingKeeps ==
    ASSUME IInv, NEW c \in Calls, NEW b \in Books, NEW f \in Fractions,
           \/ Import(c, b) \/ Finalize(c, b) \/ SaveProgress(c, b, f) \/ Remove(c, b)
    PROVE  IInv'
<1>0. /\ call \in [Calls -> CallRecords] /\ index \in [Books -> Entry]
      /\ asked \subseteq Books /\ covers \subseteq Books /\ faults \in 0..MaxFaults
      /\ Types /\ InLine
  BY DEF IInv, InLine, Types
<1>1. InLine'
  BY <1>0, OutsideKeepsLine, EnteringKeepsLine
<1> USE DEF disk, history
<1>2. CASE Import(c, b)
  <2>1. /\ call'[c].at = "check" /\ call'[c].kind = "import"
        /\ \A d \in Calls \ {c} : call'[d] = call[d]
    BY <1>0, <1>2, BeginEffect DEF Import, Kinds, Steps
  <2>2. Fits(call'[c])
    BY <2>1 DEF Fits, Inside
  <2> QED
    BY <1>0, <1>1, <1>2, <2>1, <2>2, QuietStep DEF Import
<1>3. CASE Finalize(c, b)
  <2>1. /\ call'[c].at = "queued" /\ call'[c].kind = "finalize"
        /\ \A d \in Calls \ {c} : call'[d] = call[d]
    BY <1>0, <1>3, BeginEffect DEF Finalize, Kinds, Steps
  <2>2. Fits(call'[c])
    BY <2>1 DEF Fits, Inside
  <2> QED
    BY <1>0, <1>1, <1>3, <2>1, <2>2, QuietStep DEF Finalize
<1>4. CASE SaveProgress(c, b, f)
  <2>1. /\ call'[c].at = "queued" /\ call'[c].kind = "progress"
        /\ \A d \in Calls \ {c} : call'[d] = call[d]
    BY <1>0, <1>4, ProgressEffect
  <2>2. Fits(call'[c])
    BY <2>1 DEF Fits, Inside
  <2> QED
    BY <1>0, <1>1, <1>4, <2>1, <2>2, QuietStep DEF SaveProgress
<1>5. CASE Remove(c, b)
  <2>1. /\ call'[c].at = "unlink" /\ call'[c].kind = "remove" /\ call'[c].book = b
        /\ \A d \in Calls \ {c} : call'[d] = call[d]
    BY <1>0, <1>5, RemoveEffect
  <2>2. asked' = asked \cup {b}
    BY <1>5 DEF Remove
  <2>3. Fits(call'[c])
    BY <2>1, <2>2 DEF Fits, Inside
  <2> QED
    BY <1>0, <1>1, <1>5, <2>1, <2>2, <2>3, QuietStep DEF Remove
<1> QED
  BY <1>2, <1>3, <1>4, <1>5

LEMMA CheckDuplicateKeeps ==
    ASSUME IInv, NEW c \in Calls, CheckDuplicate(c) PROVE IInv'
<1>0. call \in [Calls -> CallRecords] /\ InLine /\ Types
  BY DEF IInv, InLine
<1>1. InLine'
  BY <1>0, IdleTyped, OutsideKeepsLine DEF CallRecords, Idle
<1>2. CASE Return(c)
  BY <1>1, <1>2, ReturnKeeps DEF CheckDuplicate
<1>3. CASE Goto(c, "store")
  <2>1. /\ call'[c].at = "store" /\ call'[c].kind = call[c].kind
        /\ \A d \in Calls \ {c} : call'[d] = call[d]
    BY <1>0, <1>3, GotoEffect DEF Steps
  <2>2. call[c].kind = "import"
    BY DEF IInv, KindsFit, CheckDuplicate, At, Is
  <2>3. Fits(call'[c])
    BY <2>1, <2>2 DEF Fits, Inside
  <2> QED
    BY <1>0, <1>1, <2>1, <2>3, QuietStep DEF CheckDuplicate, Types, disk, history
<1> QED
  BY <1>2, <1>3 DEF CheckDuplicate

LEMMA FailuresKeep ==
    ASSUME IInv, NEW c \in Calls, StoreFails(c) \/ UnlinkFails(c) \/ MutateFails(c)
    PROVE  IInv'
<1>0. call \in [Calls -> CallRecords] /\ InLine /\ Types /\ faults' \in 0..MaxFaults
  BY FaultTyped DEF IInv, InLine, StoreFails, UnlinkFails, MutateFails
<1>1. InLine'
  <2>1. Anybook \in Books
    BY IdleTyped DEF CallRecords, Idle
  <2> QED
    BY <1>0, <2>1, OutsideKeepsLine, TurnKeepsLine
<1>2. UNCHANGED <<disk, history>> /\ Fault /\ (Return(c) \/ (Goto(c, "undo") /\ Is(c, "import")))
  BY DEF StoreFails, UnlinkFails, MutateFails
<1>3. CASE Return(c)
  BY <1>1, <1>2, <1>3, ReturnKeeps
<1>4. CASE Goto(c, "undo") /\ Is(c, "import")
  <2>1. /\ call'[c].at = "undo" /\ call'[c].kind = "import"
        /\ \A d \in Calls \ {c} : call'[d] = call[d]
    BY <1>0, <1>4, GotoEffect DEF Steps, Is
  <2>2. Fits(call'[c])
    BY <2>1 DEF Fits, Inside
  <2> QED
    BY <1>0, <1>1, <1>2, <2>1, <2>2, QuietStep DEF Types, disk, history
<1> QED
  BY <1>2, <1>3, <1>4

LEMMA MutateReadKeeps ==
    ASSUME IInv, NEW c \in Calls, MutateRead(c) PROVE IInv'
<1>0. call \in [Calls -> CallRecords] /\ InLine /\ Types
  BY DEF IInv, InLine
<1>1. InLine'
  BY <1>0, TurnKeepsLine
<1>2. /\ \A d \in Calls \ {c} : call'[d] = call[d]
      /\ call[c].at = "queued" /\ UNCHANGED <<disk, history, faults>>
  BY <1>0, MutateReadEffect
<1>3. CASE call'[c] = Idle
  <2>1. call'[c].at = "idle"
    BY <1>3 DEF Idle
  <2>2. Fits(call'[c])
    BY <2>1 DEF Fits, Inside
  <2> QED
    BY <1>0, <1>1, <1>2, <2>1, <2>2, QuietStep DEF Types, disk, history
<1>4. CASE call'[c] # Idle
  <2>1. /\ call'[c].at = IF Is(c, "finalize") THEN "cover" ELSE "apply"
        /\ call'[c].kind = call[c].kind /\ call'[c].book = call[c].book
        /\ call'[c].seen = index
        /\ Is(c, "finalize") \/ Is(c, "progress") => index[call[c].book].in
    BY <1>0, <1>4, MutateReadEffect
  <2>2. call[c].kind = "remove" => call[c].book \in asked /\ asked' = asked
    BY <1>0, <1>2 DEF IInv, AskedWhile, Removing, At, Is, CallRecords, history
  <2>3. Fits(call'[c])
    BY <2>1, <2>2 DEF Fits, Inside, Is
  <2> QED
    BY <1>0, <1>1, <1>2, <2>1, <2>3, QuietStep DEF Types, disk, history
<1> QED
  BY <1>3, <1>4

LEMMA WriteCoverKeeps ==
    ASSUME IInv, NEW c \in Calls, WriteCover(c) PROVE IInv'
<1>0. call \in [Calls -> CallRecords] /\ InLine /\ Types /\ call[c].book \in Books
  BY DEF IInv, InLine, CallRecords
<1>1. InLine'
  BY <1>0, TurnKeepsLine
<1>2. /\ call[c].at = "cover" /\ call[c].kind = "finalize" /\ call[c].seen = index
      /\ index[call[c].book].in
      /\ UNCHANGED <<files, index, queue, history, faults>>
  BY DEF WriteCover, At, IInv, KindsFit, ReadsCurrent, Is, Inside
<1>3. CASE /\ covers' = covers \cup {call[c].book}
           /\ call' = [call EXCEPT ![c].at = "apply",
                         ![c].seen = [@ EXCEPT ![call[c].book].cover = TRUE]]
  <2>1. /\ \A d \in Calls \ {c} : call'[d] = call[d]
        /\ call'[c].at = "apply" /\ call'[c].kind = call[c].kind
        /\ call'[c].book = call[c].book
        /\ \A b \in Books \ {call[c].book} : call'[c].seen[b] = call[c].seen[b]
        /\ call'[c].seen[call[c].book]
             = [call[c].seen[call[c].book] EXCEPT !.cover = TRUE]
    BY <1>0, <1>3, CoverEffect
  <2>2. Fits(call'[c])
    BY <1>2, <1>3, <2>1 DEF Fits, Inside
  <2> QED
    BY <1>0, <1>1, <1>2, <1>3, <2>1, <2>2, QuietStep DEF Types, history
<1>4. CASE Goto(c, "apply") /\ covers' = covers
  <2>1. /\ \A d \in Calls \ {c} : call'[d] = call[d]
        /\ call'[c].at = "apply" /\ call'[c].kind = call[c].kind
        /\ call'[c].book = call[c].book /\ call'[c].seen = call[c].seen
    BY <1>0, <1>4, GotoEffect DEF Steps
  <2>2. Fits(call'[c])
    BY <1>2, <1>4, <2>1 DEF Fits, Inside
  <2> QED
    BY <1>0, <1>1, <1>2, <1>4, <2>1, <2>2, QuietStep DEF Types, history
<1> QED
  BY <1>3, <1>4 DEF WriteCover

-----------------------------------------------------------------------------
(* Steps that touch files, and the one that writes the index. *)

\* A managed file appears: it is what a queued import stands for.
LEMMA StoreKeeps ==
    ASSUME IInv, NEW c \in Calls, Store(c) PROVE IInv'
<1> DEFINE b == call[c].book
<1>0. call \in [Calls -> CallRecords] /\ InLine /\ Types /\ b \in Books
  BY DEF IInv, InLine, CallRecords
<1>1. InLine'
  BY <1>0, FractionsAssumption, EnteringKeepsLine
<1>2. /\ call[c].at = "store" /\ call[c].kind = "import"
      /\ files' = files \cup {b} /\ undone' = undone \ {b} /\ Goto(c, "queued")
      /\ asked' = IF Removing(b) \/ index[b].in THEN asked ELSE asked \ {b}
      /\ UNCHANGED <<covers, index, saved, faults>>
  BY DEF Store, Enqueue, At, IInv, KindsFit, Is
<1>3. /\ \A d \in Calls \ {c} : call'[d] = call[d]
      /\ call'[c].at = "queued" /\ call'[c].kind = "import" /\ call'[c].book = b
  BY <1>0, <1>2, GotoEffect DEF Steps
<1>4. Fits(call'[c])
  BY <1>3 DEF Fits, Inside
<1> HIDE DEF b
<1>5. \A x \in Books : Removing(x) => x \in asked'
  BY <1>2 DEF IInv, AskedWhile
<1>6. \A x \in Books : index[x].in /\ x \in covers \cup asked
                         => x \in covers' \cup asked'
  BY <1>2
<1>7. KindsFit' /\ ReadsCurrent' /\ Recorded' /\ AskedWhile'
  BY <1>2, <1>3, <1>4, <1>5, <1>6, SameIndex
<1>8. Shelved'
  <2> SUFFICES ASSUME NEW x \in Books, x \notin asked'
               PROVE  /\ index[x].cover => x \in covers
                      /\ x \notin undone' =>
                           /\ index[x].in => x \in files'
                           /\ \A d \in Importing(x)' :
                                call'[d].at \in {"queued", "apply"} => x \in files'
    BY <1>2 DEF Shelved
  <2>1. CASE x = b
    <3>1. index[b].cover /\ b \in asked => b \in covers
      <4>1. ASSUME b \in asked PROVE ~ index[b].in
        BY <1>2, <2>1, <4>1
      <4> QED
        BY <1>0, <4>1 DEF IInv, Recorded, NoEntry, b
    <3>2. index[b].cover => b \in covers
      BY <1>0, <3>1 DEF IInv, Shelved, b
    <3> QED
      BY <1>2, <2>1, <3>2
  <2>2. CASE x # b
    <3>1. x \notin asked /\ (x \notin undone' => x \notin undone)
      BY <1>2, <2>2
    <3>2. ASSUME NEW d \in Importing(x)', call'[d].at \in {"queued", "apply"}
          PROVE  d \in Importing(x) /\ call[d].at \in {"queued", "apply"}
      BY <1>3, <2>2, <3>2 DEF Importing, At, Is
    <3> QED
      BY <1>2, <3>1, <3>2 DEF IInv, Shelved
  <2> QED
    BY <2>1, <2>2
<1>9. Types'
  BY <1>0, <1>2 DEF Types, b
<1> QED
  BY <1>1, <1>7, <1>8, <1>9 DEF IInv

\* A failed import takes the file away, and with it that of any other one.
LEMMA UndoKeeps ==
    ASSUME IInv, NEW c \in Calls, Undo(c) PROVE IInv'
<1> DEFINE b == call[c].book
<1>0. call \in [Calls -> CallRecords] /\ InLine /\ Types /\ b \in Books
  BY DEF IInv, InLine, CallRecords
<1>1. InLine'
  BY <1>0, OutsideKeepsLine
<1>2. /\ call[c].at = "undo" /\ call[c].kind = "import" /\ files' = files \ {b}
      /\ undone' = IF index[b].in \/ Importing(b) # {c} THEN undone \cup {b}
                                                        ELSE undone
      /\ Return(c) /\ UNCHANGED <<covers, index, asked, saved, faults>>
  BY DEF Undo, At, IInv, KindsFit, Is
<1>3. /\ \A d \in Calls \ {c} : call'[d] = call[d]
      /\ call'[c].at = "idle"
  BY <1>0, <1>2, ReturnEffect
<1>4. Fits(call'[c])
  BY <1>3 DEF Fits, Inside
<1>5. \A x \in Books : Removing(x) => x \in asked'
  BY <1>2 DEF IInv, AskedWhile
<1>6. KindsFit' /\ ReadsCurrent' /\ Recorded' /\ AskedWhile'
  BY <1>2, <1>3, <1>4, <1>5, SameIndex
<1>7. Shelved'
  <2> SUFFICES ASSUME NEW x \in Books, x \notin asked
               PROVE  /\ index[x].cover => x \in covers
                      /\ x \notin undone' =>
                           /\ index[x].in => x \in files'
                           /\ \A d \in Importing(x)' :
                                call'[d].at \in {"queued", "apply"} => x \in files'
    BY <1>2 DEF Shelved
  <2>1. ASSUME NEW d \in Importing(x)'
        PROVE  d \in Importing(x) /\ d # c /\ call'[d] = call[d]
    BY <1>3, <2>1 DEF Importing, At, Is
  <2>2. CASE x = b
    <3>1. x \notin undone' => ~ index[x].in /\ Importing(x) = {c}
      BY <1>2, <2>2
    <3> QED
      BY <2>1, <3>1 DEF IInv, Shelved
  <2>3. CASE x # b
    <3>1. x \notin undone' => x \notin undone
      BY <1>2
    <3> QED
      BY <1>2, <2>1, <2>3, <3>1 DEF IInv, Shelved
  <2> QED
    BY <2>2, <2>3
<1>8. Types'
  BY <1>0, <1>2 DEF Types
<1> QED
  BY <1>1, <1>6, <1>7, <1>8 DEF IInv

\* A removal takes away the file and the cover of an exempt book.
LEMMA UnlinkKeeps ==
    ASSUME IInv, NEW c \in Calls, Unlink(c) \/ Uncover(c) PROVE IInv'
<1> DEFINE b == call[c].book
<1>0. call \in [Calls -> CallRecords] /\ InLine /\ Types /\ b \in Books
  BY DEF IInv, InLine, CallRecords
<1>1. InLine'
  BY <1>0, FractionsAssumption, EnteringKeepsLine
<1>2. call[c].at \in {"unlink", "uncover"} /\ call[c].kind = "remove" /\ b \in asked
  BY <1>0 DEF Unlink, Uncover, At, IInv, KindsFit, AskedWhile, Removing, Is
<1>3. /\ files \ {b} \subseteq files' /\ files' \subseteq files
      /\ covers \ {b} \subseteq covers' /\ covers' \subseteq covers
      /\ Goto(c, "uncover") \/ Goto(c, "queued")
      /\ UNCHANGED <<index, history, faults>>
  BY DEF Unlink, Uncover, Enqueue
<1>4. /\ \A d \in Calls \ {c} : call'[d] = call[d]
      /\ call'[c].at \in {"uncover", "queued"} /\ call'[c].kind = "remove"
      /\ call'[c].book = b
  BY <1>0, <1>2, <1>3, GotoEffect DEF Steps
<1>5. Fits(call'[c])
  BY <1>2, <1>3, <1>4 DEF Fits, Inside, history
<1> HIDE DEF b
<1>6. /\ \A x \in Books : Removing(x) => x \in asked'
      /\ \A x \in Books : x \in covers \cup asked => x \in covers' \cup asked'
  BY <1>2, <1>3 DEF IInv, AskedWhile, history
<1>7. KindsFit' /\ ReadsCurrent' /\ Recorded' /\ AskedWhile'
  BY <1>3, <1>4, <1>5, <1>6, SameIndex DEF history
<1>8. Shelved'
  <2> SUFFICES ASSUME NEW x \in Books, x \notin asked
               PROVE  /\ index[x].cover => x \in covers'
                      /\ x \notin undone =>
                           /\ index[x].in => x \in files'
                           /\ \A d \in Importing(x)' :
                                call'[d].at \in {"queued", "apply"} => x \in files'
    BY <1>3 DEF Shelved, history
  <2>1. x # b
    BY <1>2
  <2>2. ASSUME NEW d \in Importing(x)'
        PROVE  d \in Importing(x) /\ call'[d] = call[d]
    BY <1>4, <2>2 DEF Importing, At, Is
  <2> QED
    BY <1>3, <2>1, <2>2 DEF IInv, Shelved
<1>9. Types'
  BY <1>0, <1>3 DEF Types, history
<1> QED
  BY <1>1, <1>7, <1>8, <1>9 DEF IInv
\* The index is written, on what it is at this instant.
LEMMA MutateWriteKeeps ==
    ASSUME IInv, NEW c \in Calls, MutateWrite(c) PROVE IInv'
<1> DEFINE b == call[c].book
           entry == index'[b]
<1>0. /\ call \in [Calls -> CallRecords] /\ InLine /\ Types /\ b \in Books
      /\ call[c].arg \in Fractions /\ call[c].kind \in Kinds
  BY DEF IInv, InLine, CallRecords
<1>1. InLine'
  BY <1>0, TurnKeepsLine
<1>2. /\ call[c].at = "apply" /\ At(c, "apply") /\ index' = Applied(c) /\ Return(c)
      /\ saved' = [saved EXCEPT ![b] = CASE Is(c, "progress") -> call[c].arg
                                         [] Is(c, "remove") -> 0
                                         [] OTHER -> @]
      /\ UNCHANGED <<files, covers, asked, undone, faults>>
  BY DEF MutateWrite, At
<1>3. /\ \A d \in Calls \ {c} : call'[d] = call[d]
      /\ call'[c].at = "idle"
  BY <1>0, <1>2, ReturnEffect
<1>4. /\ index' \in [Books -> Entry]
      /\ \A x \in Books \ {b} : index'[x] = index[x] /\ saved'[x] = saved[x]
      /\ Is(c, "import") => entry = IF index[b].in THEN index[b] ELSE NewEntry
      /\ Is(c, "finalize") =>
           /\ index[b].in
           /\ \/ entry = index[b]
              \/ /\ entry = [index[b] EXCEPT !.cover = TRUE]
                 /\ b \in covers \cup asked
      /\ Is(c, "progress") =>
           index[b].in /\ entry = [index[b] EXCEPT !.progress = call[c].arg]
      /\ Is(c, "remove") => entry = NoEntry
  BY <1>0, <1>2, AppliedEffect DEF Types
<1>5. saved'[b] = IF Is(c, "progress") THEN call[c].arg
                  ELSE IF Is(c, "remove") THEN 0 ELSE saved[b]
  BY <1>0, <1>2 DEF Types, Is
<1>6. /\ NoEntry.in = FALSE /\ NoEntry.cover = FALSE /\ NoEntry.progress = 0
      /\ NewEntry.in = TRUE /\ NewEntry.cover = FALSE /\ NewEntry.progress = 0
  BY DEF NoEntry, NewEntry
<1>7. index[b] \in Entry /\ (~ index[b].in => index[b] = NoEntry)
      /\ index[b].progress = saved[b]
  BY <1>0 DEF IInv, Types, Recorded
<1>8. \/ Is(c, "import") \/ Is(c, "finalize") \/ Is(c, "progress") \/ Is(c, "remove")
  BY <1>0 DEF Is, Kinds
<1> HIDE DEF b, entry
<1>9. /\ entry.progress = saved'[b]
      /\ ~ entry.in => entry = NoEntry
      /\ entry.cover => index[b].cover \/ b \in covers \cup asked
      /\ entry.in => index[b].in \/ Is(c, "import")
  <2>1. CASE Is(c, "import")
    BY <1>4, <1>5, <1>6, <1>7, <2>1 DEF Is
  <2>2. CASE Is(c, "finalize")
    BY <1>4, <1>5, <1>7, <2>2 DEF Is, Entry
  <2>3. CASE Is(c, "progress")
    BY <1>4, <1>5, <1>7, <2>3 DEF Is, Entry
  <2>4. CASE Is(c, "remove")
    BY <1>4, <1>5, <1>6, <2>4 DEF Is
  <2> QED
    BY <1>8, <2>1, <2>2, <2>3, <2>4
<1>10. Types'
  <2>1. saved'[b] \in Fractions /\ saved' \in [Books -> Fractions]
    BY <1>0, <1>2, <1>5, FractionsAssumption DEF Types, b
  <2> QED
    BY <1>0, <1>2, <1>4, <2>1 DEF Types
<1>11. \A d \in Calls : call'[d].at \notin Inside
  BY <1>0, <1>2, <1>3 DEF InLine, Inside
<1>12. KindsFit' /\ ReadsCurrent'
  <2>1. \A d \in Calls : call'[d].at \notin {"cover", "apply"}
    BY <1>11 DEF Inside
  <2>2. KindsFit'
    BY <1>3, <1>11, <2>1 DEF IInv, KindsFit, At, Is
  <2> QED
    BY <2>1, <2>2 DEF ReadsCurrent, At
<1>13. Recorded'
  BY <1>0, <1>4, <1>9 DEF IInv, Recorded, entry
<1>14. AskedWhile'
  BY <1>2, <1>3 DEF IInv, AskedWhile, Removing, At, Is
<1>15. Shelved'
  <2> SUFFICES ASSUME NEW x \in Books, x \notin asked
               PROVE  /\ index'[x].cover => x \in covers
                      /\ x \notin undone =>
                           /\ index'[x].in => x \in files
                           /\ \A d \in Importing(x)' :
                                call'[d].at \in {"queued", "apply"} => x \in files
    BY <1>2 DEF Shelved
  <2>1. \A d \in Importing(x)' : d \in Importing(x) /\ call'[d] = call[d]
    BY <1>3 DEF Importing, At, Is
  <2>2. /\ index[x].cover => x \in covers
        /\ x \notin undone =>
             /\ index[x].in => x \in files
             /\ \A d \in Importing(x) : call[d].at \in {"queued", "apply"} => x \in files
    BY DEF IInv, Shelved
  <2>3. CASE x = b
    <3>1. Is(c, "import") => c \in Importing(b)
      BY <1>2 DEF Importing, At, b
    <3> QED
      BY <1>2, <1>9, <2>1, <2>2, <2>3, <3>1 DEF entry
  <2>4. CASE x # b
    BY <1>4, <2>1, <2>2, <2>4
  <2> QED
    BY <2>3, <2>4
<1> QED
  BY <1>1, <1>10, <1>12, <1>13, <1>14, <1>15 DEF IInv

\* What is on the disk satisfies the invariant by itself.
LEMMA CrashKeeps == IInv /\ Crash => IInv'
<1> SUFFICES ASSUME IInv, Crash PROVE IInv'
  OBVIOUS
<1>1. /\ \A c \in Calls : call'[c].at = "idle"
      /\ UNCHANGED <<disk, history>> /\ Fault
  BY DEF Crash, Idle
<1>2. InLine'
  BY CrashKeepsLine DEF IInv
<1>3. Types'
  BY <1>1, FaultTyped DEF IInv, Types, disk, history
<1>4. KindsFit' /\ ReadsCurrent' /\ AskedWhile'
  BY <1>1 DEF KindsFit, ReadsCurrent, AskedWhile, Removing, At, Inside
<1>5. Recorded' /\ Shelved'
  BY <1>1 DEF IInv, Recorded, Shelved, Importing, At, disk, history
<1> QED
  BY <1>2, <1>3, <1>4, <1>5 DEF IInv

LEMMA NextIInv == IInv /\ [Next]_vars => IInv'
<1> SUFFICES ASSUME IInv, [Next]_vars PROVE IInv'
  OBVIOUS
<1>1. ASSUME NEW c \in Calls, Step(c) PROVE IInv'
  BY <1>1, CheckDuplicateKeeps, StoreKeeps, UndoKeeps, UnlinkKeeps, MutateReadKeeps,
     WriteCoverKeeps, MutateWriteKeeps DEF Step
<1>2. ASSUME NEW c \in Calls, StoreFails(c) \/ UnlinkFails(c) \/ MutateFails(c)
      PROVE  IInv'
  BY <1>2, FailuresKeep
<1>3. ASSUME NEW c \in Calls, NEW b \in Books, NEW f \in Fractions,
             Import(c, b) \/ Finalize(c, b) \/ Remove(c, b) \/ SaveProgress(c, b, f)
      PROVE  IInv'
  BY <1>3, AskingKeeps
<1>4. CASE UNCHANGED vars
  BY <1>4 DEF vars, disk, history, IInv, Types, InLine, In, Distinct, KindsFit,
              ReadsCurrent, Recorded, AskedWhile, Shelved, Removing, Importing, At, Is
<1> QED
  BY <1>1, <1>2, <1>3, <1>4, CrashKeeps, FractionsAssumption DEF Next

\* In every state the parts of the invariant hold together.
THEOREM Invariance == Spec => []IInv
BY InitIInv, NextIInv, PTL DEF Spec

\* Every variable has its type; a call is in the chain of mutate exactly while
\* it waits for its turn or has it.
THEOREM TypeCorrect == Spec => []TypeOK
<1>1. IInv => TypeOK
  BY DEF IInv, Types, InLine, TypeOK, Queued, In, InChain, CallRecords
<1> QED
  BY <1>1, Invariance, PTL

\* An indexed book has its managed file and the cover it names, unless a removal
\* took them or a failed second import of the same content did.
THEOREM IndexedBooksAreThere == Spec => []IndexedIsThere
<1>1. IInv => IndexedIsThere
  BY DEF IInv, Shelved, IndexedIsThere
<1> QED
  BY <1>1, Invariance, PTL

\* What saveProgress reported is what the index says, whatever was written since.
THEOREM ProgressIsKept == Spec => []ProgressKept
<1>1. IInv => ProgressKept
  BY DEF IInv, Recorded, ProgressKept
<1> QED
  BY <1>1, Invariance, PTL

-----------------------------------------------------------------------------
(* What a step does to the index, and the atomic shelf. *)

LEMMA OnlyWritesIndex ==
    ASSUME [Next]_vars, index' # index
    PROVE  \E c \in Calls : MutateWrite(c)
<1> USE DEF disk
<1>1. ASSUME NEW c \in Calls, Step(c) PROVE MutateWrite(c)
  BY <1>1 DEF Step, CheckDuplicate, Store, Undo, Unlink, Uncover, MutateRead,
              WriteCover
<1>2. \A c \in Calls : ~ StoreFails(c) /\ ~ UnlinkFails(c) /\ ~ MutateFails(c)
  BY DEF StoreFails, UnlinkFails, MutateFails
<1>3. \A c \in Calls, b \in Books : ~ Import(c, b) /\ ~ Finalize(c, b) /\ ~ Remove(c, b)
  BY DEF Import, Finalize, Remove
<1>4. \A c \in Calls, b \in Books, f \in Fractions : ~ SaveProgress(c, b, f)
  BY DEF SaveProgress
<1> QED
  BY <1>1, <1>2, <1>3, <1>4 DEF Next, Crash, vars

\* A book comes into the index by an import of it alone: no write of a call
\* that had read the index before a removal brings it back.
THEOREM RemovedBooksStayOut == Spec => RemovedStaysOut
<1>1. ASSUME IInv, [Next]_vars, NEW b \in Books, ~ index[b].in, index'[b].in
      PROVE  Importing(b) # {}
  <2>1. PICK c \in Calls : MutateWrite(c)
    BY <1>1, OnlyWritesIndex
  <2>2. At(c, "apply") /\ index' = Applied(c) /\ call[c].kind \in Kinds
    BY <1>1, <2>1 DEF MutateWrite, IInv, InLine, CallRecords
  <2>3. b = call[c].book
    <3>1. \A x \in Books \ {call[c].book} : Applied(c)[x] = index[x]
      BY <1>1, <2>2, AppliedEffect
    <3> QED
      BY <1>1, <2>2, <3>1
  <2>4. NoEntry.in = FALSE /\ index[b] \in Entry
    BY <1>1 DEF NoEntry, IInv, Types
  <2>5. ~ Is(c, "remove")
    BY <1>1, <2>2, <2>3, <2>4, AppliedEffect
  <2>6. ~ Is(c, "finalize") /\ ~ Is(c, "progress")
    BY <1>1, <2>2, <2>3, AppliedEffect
  <2>7. Is(c, "import")
    BY <2>2, <2>5, <2>6 DEF Is, Kinds
  <2> QED
    BY <2>2, <2>3, <2>7 DEF Importing, At
<1>2. IInv /\ [Next]_vars =>
        [\A b \in Books : ~ index[b].in /\ index'[b].in => Importing(b) # {}]_vars
  BY <1>1
<1> QED
  BY <1>2, Invariance, PTL DEF Spec, RemovedStaysOut

\* A call that goes on is asked for the same.
LEMMA GoesOn ==
    ASSUME NEW c \in Calls, \A d \in Calls \ {c} : call'[d] = call[d],
           call[c].at # "idle", call'[c].at # "idle", call'[c].kind = call[c].kind,
           call'[c].book = call[c].book, call'[c].arg = call[c].arg
    PROVE  Open' = Open
<1>1. \A d \in Calls : Open'[d] = Open[d]
  BY DEF Open, At
<1> QED
  BY <1>1 DEF Open

LEMMA OpenIs ==
    ASSUME call \in [Calls -> CallRecords], NEW c \in Calls
    PROVE  /\ call[c].at = "idle" => Open[c] = Atomic!Nothing
           /\ call[c].at # "idle" =>
                /\ Open[c] # Atomic!Nothing /\ Open[c] \in Atomic!Requests
                /\ Open[c].kind = call[c].kind /\ Open[c].book = call[c].book
                /\ Open[c].arg = call[c].arg
<1>1. /\ call[c].kind \in Kinds /\ call[c].book \in Books /\ call[c].arg \in Fractions
  BY DEF CallRecords
<1>2. call[c].at = "idle" => Open[c] = Atomic!Nothing
  BY DEF Open, At, Atomic!Nothing
<1>3. ASSUME call[c].at # "idle"
      PROVE  Open[c] = [kind |-> call[c].kind, book |-> call[c].book, arg |-> call[c].arg]
  BY <1>3 DEF Open, At
<1>4. Atomic!Nothing.kind \notin Kinds
  BY DEF Atomic!Nothing, Kinds
<1> QED
  BY <1>1, <1>2, <1>3, <1>4 DEF Atomic!Requests, Kinds

\* A call that begins is asked for something.
LEMMA BeginsOpen ==
    ASSUME call \in [Calls -> CallRecords], call' \in [Calls -> CallRecords],
           NEW c \in Calls, \A d \in Calls \ {c} : call'[d] = call[d],
           call[c].at = "idle", call'[c].at # "idle", UNCHANGED <<index, saved>>
    PROVE  \E request \in Atomic!Requests : Atomic!Ask(c, request)
<1> DEFINE r == Open'[c]
<1>1. Open[c] = Atomic!Nothing
  BY OpenIs
<1>2. r \in Atomic!Requests
  <2>1. /\ call'[c].kind \in Kinds /\ call'[c].book \in Books
        /\ call'[c].arg \in Fractions
    BY DEF CallRecords
  <2>2. r = [kind |-> call'[c].kind, book |-> call'[c].book, arg |-> call'[c].arg]
    BY DEF Open, At
  <2> QED
    BY <2>1, <2>2 DEF Atomic!Requests, Kinds
<1>3. Open' = [Open EXCEPT ![c] = r]
  <2>1. \A d \in Calls \ {c} : Open'[d] = Open[d]
    BY DEF Open, At
  <2> QED
    BY <2>1 DEF Open
<1> HIDE DEF r
<1> QED
  BY <1>1, <1>2, <1>3 DEF Atomic!Ask

\* A call that returns is asked for nothing any more.
LEMMA EndsOpen ==
    ASSUME call \in [Calls -> CallRecords], NEW c \in Calls,
           \A d \in Calls \ {c} : call'[d] = call[d],
           call[c].at # "idle", call'[c].at = "idle"
    PROVE  Atomic!Return(c) /\ Open[c] # Atomic!Nothing
<1>1. \A d \in Calls \ {c} : Open'[d] = Open[d]
  BY DEF Open, At
<1>2. Open'[c] = Atomic!Nothing
  BY DEF Open, At, Atomic!Nothing
<1>3. Open' = [Open EXCEPT ![c] = Atomic!Nothing]
  BY <1>1, <1>2 DEF Open
<1> QED
  BY <1>3, OpenIs DEF Atomic!Return

LEMMA StartsAreAsked ==
    ASSUME IInv, IInv', NEW c \in Calls, NEW b \in Books, NEW f \in Fractions,
           \/ Import(c, b) \/ Finalize(c, b) \/ SaveProgress(c, b, f) \/ Remove(c, b)
    PROVE  Atomic!Next
<1>1. /\ call \in [Calls -> CallRecords] /\ call' \in [Calls -> CallRecords]
      /\ index \in [Books -> Entry]
  BY DEF IInv, InLine, Types
<1>2. call[c].at = "idle" /\ UNCHANGED <<index, saved>>
  BY FreeIsIdle DEF Import, Finalize, SaveProgress, Remove, disk, history
<1>3. /\ \A d \in Calls \ {c} : call'[d] = call[d]
      /\ call'[c].at \in {"check", "queued", "unlink"}
  <2>1. CASE Import(c, b)
    BY <1>1, <2>1, BeginEffect DEF Import, Kinds, Steps
  <2>2. CASE Finalize(c, b)
    BY <1>1, <2>2, BeginEffect DEF Finalize, Kinds, Steps
  <2>3. CASE SaveProgress(c, b, f)
    BY <1>1, <2>3, ProgressEffect
  <2>4. CASE Remove(c, b)
    BY <1>1, <2>4, RemoveEffect
  <2> QED
    BY <2>1, <2>2, <2>3, <2>4
<1> QED
  BY <1>1, <1>2, <1>3, BeginsOpen DEF Atomic!Next

\* The steps between the first and the last of a call.
LEMMA StepsOnTheWay ==
    ASSUME IInv, IInv', NEW c \in Calls,
           \/ CheckDuplicate(c) \/ Store(c) \/ Unlink(c) \/ Uncover(c)
           \/ MutateRead(c) \/ WriteCover(c) \/ MutateFails(c)
           \/ Undo(c) \/ StoreFails(c) \/ UnlinkFails(c)
    PROVE  [Atomic!Next]_(Atomic!vars)
<1>1. call \in [Calls -> CallRecords] /\ InLine /\ Types
  BY DEF IInv, InLine
<1>2. call[c].at # "idle" /\ UNCHANGED <<index, saved>>
  BY DEF CheckDuplicate, Store, Unlink, Uncover, MutateRead, WriteCover, MutateFails,
         Undo, StoreFails, UnlinkFails, At, disk, history
<1>3. ASSUME Return(c) PROVE Atomic!Next
  <2>1. Atomic!NoEffect(c)
    BY <1>1, <1>2, <1>3, ReturnEffect, EndsOpen DEF Atomic!NoEffect
  <2> QED
    BY <2>1 DEF Atomic!Next
<1>4. ASSUME NEW s \in Steps \ {"idle"}, Goto(c, s) PROVE Open' = Open
  BY <1>1, <1>2, <1>4, GotoEffect, GoesOn
<1>5. CASE /\ CheckDuplicate(c) \/ Store(c) \/ Unlink(c) \/ Uncover(c)
           /\ ~ Return(c)
  <2>1. Goto(c, "store") \/ Goto(c, "uncover") \/ Goto(c, "queued")
    BY <1>5 DEF CheckDuplicate, Store, Unlink, Uncover, Enqueue
  <2> QED
    BY <1>2, <1>4, <2>1 DEF Steps, Atomic!vars
<1>6. CASE MutateFails(c) \/ Undo(c) \/ StoreFails(c) \/ UnlinkFails(c)
  <2>1. Return(c) \/ Goto(c, "undo")
    BY <1>6 DEF MutateFails, Undo, StoreFails, UnlinkFails
  <2> QED
    BY <1>2, <1>3, <1>4, <2>1 DEF Steps, Atomic!vars
<1>7. CASE MutateRead(c)
  <2>1. \A d \in Calls \ {c} : call'[d] = call[d]
    BY <1>1, <1>7, MutateReadEffect
  <2>2. CASE call'[c] = Idle
    <3>1. call'[c].at = "idle"
      BY <2>2 DEF Idle
    <3>2. Atomic!NoEffect(c)
      BY <1>1, <1>2, <2>1, <3>1, EndsOpen DEF Atomic!NoEffect
    <3> QED
      BY <3>2 DEF Atomic!Next
  <2>3. CASE call'[c] # Idle
    <3>1. /\ call'[c].at # "idle" /\ call'[c].kind = call[c].kind
          /\ call'[c].book = call[c].book /\ call'[c].arg = call[c].arg
      BY <1>1, <1>7, <2>3, MutateReadEffect
    <3> QED
      BY <1>2, <2>1, <3>1, GoesOn DEF Atomic!vars
  <2> QED
    BY <2>2, <2>3
<1>8. CASE WriteCover(c)
  <2>1. \/ call' = [call EXCEPT ![c].at = "apply",
                      ![c].seen = [@ EXCEPT ![call[c].book].cover = TRUE]]
        \/ Goto(c, "apply")
    BY <1>8 DEF WriteCover
  <2>2. /\ \A d \in Calls \ {c} : call'[d] = call[d]
        /\ call'[c].at = "apply" /\ call'[c].kind = call[c].kind
        /\ call'[c].book = call[c].book /\ call'[c].arg = call[c].arg
    BY <1>1, <2>1, CoverEffect, GotoEffect DEF Steps
  <2> QED
    BY <1>2, <2>2, GoesOn DEF Atomic!vars
<1> QED
  BY <1>3, <1>5, <1>6, <1>7, <1>8

\* The write is the instant at which a call takes effect.
LEMMA WritesTakeEffect ==
    ASSUME IInv, NEW c \in Calls, MutateWrite(c)
    PROVE  Atomic!Next
<1> DEFINE b == call[c].book
           entry == Applied(c)[b]
<1>0. /\ call \in [Calls -> CallRecords] /\ b \in Books /\ call[c].kind \in Kinds
      /\ index \in [Books -> Entry] /\ saved \in [Books -> Fractions]
  BY DEF IInv, InLine, Types, CallRecords
<1>1. /\ At(c, "apply") /\ index' = Applied(c) /\ Return(c)
      /\ saved' = [saved EXCEPT ![b] = CASE Is(c, "progress") -> call[c].arg
                                         [] Is(c, "remove") -> 0
                                         [] OTHER -> @]
  BY DEF MutateWrite
<1>2. Atomic!Return(c) /\ Open[c] # Atomic!Nothing
  BY <1>0, <1>1, ReturnEffect, EndsOpen DEF At
<1>3. Open[c].kind = call[c].kind /\ Open[c].book = b /\ Open[c].arg = call[c].arg
  BY <1>0, <1>1, OpenIs DEF At
<1>4. /\ Applied(c) \in [Books -> Entry]
      /\ \A x \in Books \ {b} : Applied(c)[x] = index[x]
      /\ Is(c, "import") => entry = IF index[b].in THEN index[b] ELSE NewEntry
      /\ Is(c, "finalize") =>
           index[b].in /\ (entry = index[b] \/ entry = [index[b] EXCEPT !.cover = TRUE])
      /\ Is(c, "progress") =>
           index[b].in /\ entry = [index[b] EXCEPT !.progress = call[c].arg]
      /\ Is(c, "remove") => entry = NoEntry
  BY <1>0, <1>1, AppliedEffect
<1> HIDE DEF b, entry
<1>5. Atomic!Put(b, entry)
  BY <1>0, <1>1, <1>4 DEF Atomic!Put, entry
<1>6. NewEntry = Atomic!New /\ NoEntry = Atomic!Absent
  <2>1. NoEntry = Atomic!Absent
    BY DEF NoEntry, Atomic!Absent
  <2>2. /\ NewEntry \in Entry /\ Atomic!New \in Entry
        /\ NewEntry.in = Atomic!New.in /\ NewEntry.cover = Atomic!New.cover
        /\ NewEntry.progress = Atomic!New.progress
    BY IdleTyped, FractionsAssumption DEF NewEntry, NoEntry, Atomic!New, Entry
  <2>3. NewEntry = Atomic!New
    BY <2>2 DEF Entry
  <2> QED
    BY <2>1, <2>3
<1>7. CASE Is(c, "import")
  <2>1. saved' = saved
    BY <1>0, <1>1, <1>7 DEF Is
  <2>2. Atomic!Import(c)
    BY <1>2, <1>3, <1>4, <1>5, <1>6, <1>7, <2>1
       DEF Atomic!Import, Atomic!Asked, Is
  <2> QED
    BY <2>2 DEF Atomic!Next
<1>8. CASE Is(c, "finalize")
  <2>1. saved' = saved
    BY <1>0, <1>1, <1>8 DEF Is
  <2>2. entry = index[b] => index' = index
    BY <1>0, <1>5 DEF Atomic!Put
  <2>3. Atomic!Finalize(c)
    BY <1>2, <1>3, <1>4, <1>5, <1>8, <2>1, <2>2
       DEF Atomic!Finalize, Atomic!Asked, Is
  <2> QED
    BY <2>3 DEF Atomic!Next
<1>9. CASE Is(c, "progress")
  <2>1. saved' = [saved EXCEPT ![b] = call[c].arg]
    BY <1>1, <1>9 DEF Is
  <2>2. Atomic!SaveProgress(c)
    BY <1>2, <1>3, <1>4, <1>5, <1>9, <2>1 DEF Atomic!SaveProgress, Atomic!Asked, Is
  <2> QED
    BY <2>2 DEF Atomic!Next
<1>10. CASE Is(c, "remove")
  <2>1. saved' = [saved EXCEPT ![b] = 0]
    BY <1>1, <1>10 DEF Is
  <2>2. Atomic!Remove(c)
    BY <1>2, <1>3, <1>4, <1>5, <1>6, <1>10, <2>1 DEF Atomic!Remove, Atomic!Asked, Is
  <2> QED
    BY <2>2 DEF Atomic!Next
<1> QED
  BY <1>0, <1>7, <1>8, <1>9, <1>10 DEF Is, Kinds

\* Calls that overlap and read ahead are, to whoever looks at the index, calls
\* that mutate ran one at a time, each at its instant and on what was there.
THEOREM CallsAreAtomic == Spec => ImplementsAtomicShelf
<1>1. Init => Atomic!Init
  <2> SUFFICES ASSUME Init PROVE Atomic!Init
    OBVIOUS
  <2>1. Idle.at = "idle" /\ NoEntry = Atomic!Absent
    BY DEF Idle, NoEntry, Atomic!Absent
  <2>2. Open = [c \in Calls |-> Atomic!Nothing]
    BY <2>1 DEF Init, Open, At, Atomic!Nothing
  <2> QED
    BY <2>1, <2>2 DEF Init, Atomic!Init
<1>2. IInv /\ IInv' /\ [Next]_vars => [Atomic!Next]_(Atomic!vars)
  <2> SUFFICES ASSUME IInv, IInv', [Next]_vars PROVE [Atomic!Next]_(Atomic!vars)
    OBVIOUS
  <2>1. ASSUME NEW c \in Calls,
               Step(c) \/ StoreFails(c) \/ UnlinkFails(c) \/ MutateFails(c)
        PROVE  [Atomic!Next]_(Atomic!vars)
    BY <2>1, StepsOnTheWay, WritesTakeEffect DEF Step
  <2>2. ASSUME NEW c \in Calls, NEW b \in Books, NEW f \in Fractions,
               Import(c, b) \/ Finalize(c, b) \/ Remove(c, b) \/ SaveProgress(c, b, f)
        PROVE  Atomic!Next
    BY <2>2, StartsAreAsked
  <2>3. CASE Crash
    <3>1. \A c \in Calls : call'[c].at = "idle"
      BY <2>3 DEF Crash, Idle
    <3>2. Open' = [c \in Calls |-> Atomic!Nothing] /\ UNCHANGED <<index, saved>>
      BY <2>3, <3>1 DEF Crash, Open, At, Atomic!Nothing, disk, history
    <3> QED
      BY <3>2 DEF Atomic!Forget, Atomic!Next
  <2>4. CASE UNCHANGED vars
    BY <2>4 DEF vars, disk, history, Open, At, Atomic!vars
  <2> QED
    BY <2>1, <2>2, <2>3, <2>4, FractionsAssumption DEF Next
<1> QED
  BY <1>1, <1>2, Invariance, PTL DEF Spec, Atomic!Spec, ImplementsAtomicShelf
=============================================================================
