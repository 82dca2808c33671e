---------------------------- MODULE MemoryStore ----------------------------
(***************************************************************************)
(* What the gateway remembers of a device (agent/): a table of memories,    *)
(* which finished turns and the admin API write, a compactor summarises and  *)
(* prompts read, and a table of recent turns, bounded by a prune of its own *)
(* after every insert.  Every SQL statement is one step; the database has   *)
(* one connection and does not fail while it is open.  The user and the     *)
(* device that scope a row are the same throughout.                         *)
(***************************************************************************)
EXTENDS Integers, Sequences, FiniteSets

CONSTANTS
    Writers,         \* the turns that may write
    RecentLimit,     \* rows kept of recent_turns: four times agent.recent_turns
    PromptItems,     \* agent.memory_max_items
    PromptTurns      \* agent.recent_turns

ASSUME MemoryAssumption ==
    RecentLimit \in Nat \ {0} /\ PromptItems \in Nat \ {0} /\ PromptTurns \in Nat

\* stableMemoryID: one row for the name, one per preference (here one in all), and
\* one for the summary; the admin writes any row.
Facts == {"name", "likes"}
RowIds == Facts \cup {"summary"}
Importance == [name |-> 5, likes |-> 4, summary |-> 5]

VARIABLES
    memoryOpen,      \* the database has not been closed
    sqlite,          \* memory_db_path is set: otherwise recent turns are in memory
    rows,            \* memories: the ids of the rows, by updated_at
    recent,          \* recent_turns, oldest first
    writer,          \* a turn's writes: facts left to write, and the step of the turn's row
    compacting,      \* the admin's compaction has read the facts
    written, appended \* history: facts a turn has written, turns ever inserted

memoryVars == <<memoryOpen, sqlite, rows, recent, writer, compacting, written, appended>>

NothingToWrite == [facts |-> <<>>, row |-> "none"]

MemoryInit ==
    /\ memoryOpen = TRUE /\ sqlite \in BOOLEAN
    /\ rows = <<>> /\ recent = <<>> /\ compacting = FALSE
    /\ writer = [t \in Writers |-> NothingToWrite]
    /\ written = [t \in Writers |-> {}] /\ appended = <<>>

-----------------------------------------------------------------------------
\* Upsert of row i: ON CONFLICT replaces it.
Without(i) == SelectSeq(rows, LAMBDA j : j # i)
Put(i) == rows' = Append(Without(i), i)

\* WriteMemories of turn t: the facts of its transcript, one statement each, with
\* the context of the turn; the first failure leaves the rest unwritten.
WriteFact(t, live) ==
    /\ writer[t].facts # <<>>
    /\ IF live /\ memoryOpen
       THEN /\ Put(Head(writer[t].facts))
            /\ written' = [written EXCEPT ![t] = @ \cup {Head(writer[t].facts)}]
            /\ writer' = [writer EXCEPT ![t].facts = Tail(@)]
       ELSE /\ writer' = [writer EXCEPT ![t].facts = <<>>]
            /\ UNCHANGED <<rows, written>>
    /\ UNCHANGED <<memoryOpen, sqlite, recent, compacting, appended>>

\* Mutant: the prune keeps the oldest rows.
PrunedOldest(turns) ==
    IF Len(turns) <= RecentLimit THEN turns ELSE SubSeq(turns, 1, RecentLimit)

\* pruneRecentTurns: DELETE ... NOT IN the newest ids.
Pruned(turns) ==
    IF Len(turns) <= RecentLimit THEN turns
    ELSE SubSeq(turns, Len(turns) - RecentLimit + 1, Len(turns))

\* AppendRecentTurn with a context of its own: INSERT, then the prune; the store in
\* memory does both under its mutex.
AppendRecent(t) ==
    /\ writer[t].row = "none" /\ memoryOpen
    /\ recent' = IF sqlite THEN Append(recent, t) ELSE Pruned(Append(recent, t))
    /\ writer' = [writer EXCEPT ![t].row = IF sqlite THEN "inserted" ELSE "kept"]
    /\ appended' = Append(appended, t)
    /\ UNCHANGED <<memoryOpen, sqlite, rows, compacting, written>>

PruneRecent(t) ==
    /\ writer[t].row = "inserted"
    /\ recent' = IF memoryOpen THEN Pruned(recent) ELSE recent
    /\ writer' = [writer EXCEPT ![t].row = "kept"]
    /\ UNCHANGED <<memoryOpen, sqlite, rows, compacting, written, appended>>

\* The insert fails: recent_turn_record_failed.
AppendFails(t) ==
    /\ writer[t].row = "none" /\ ~memoryOpen
    /\ writer' = [writer EXCEPT ![t].row = "lost"]
    /\ UNCHANGED <<memoryOpen, sqlite, rows, recent, compacting, written, appended>>

-----------------------------------------------------------------------------
\* Retrieve: ORDER BY importance, updated_at LIMIT n.
Present == {rows[k] : k \in DOMAIN rows}
Place(i) == CHOOSE k \in DOMAIN rows : rows[k] = i

Before(i, j) == \/ Importance[i] > Importance[j]
                \/ Importance[i] = Importance[j] /\ Place(i) > Place(j)

Retrieve(n) == {i \in Present : Cardinality({j \in Present : Before(j, i)}) < n}

\* RecentTurns, newest first in the table and oldest first in the prompt.
Newest(turns, n) == IF Len(turns) <= n THEN turns
                    ELSE SubSeq(turns, Len(turns) - n + 1, Len(turns))

\* BuildLLMContext: the memories and the recent turns a prompt is given.
PromptOf == [items |-> Retrieve(PromptItems), turns |-> Newest(recent, PromptTurns)]

-----------------------------------------------------------------------------
\* The admin API: put, delete, compact.  It is there with the database alone.
AdminMayWrite == sqlite /\ memoryOpen

AdminPut(i) ==
    /\ AdminMayWrite /\ Put(i)
    /\ UNCHANGED <<memoryOpen, sqlite, recent, writer, compacting, written, appended>>

AdminDelete(i) ==
    /\ AdminMayWrite /\ i \in Present /\ rows' = Without(i)
    /\ UNCHANGED <<memoryOpen, sqlite, recent, writer, compacting, written, appended>>

\* Compact reads the facts and writes their summary, two statements: a fact that is
\* deleted or replaced between them is summarised all the same.
CompactReads ==
    /\ AdminMayWrite /\ ~compacting /\ Present \cap Facts # {}
    /\ compacting' = TRUE
    /\ UNCHANGED <<memoryOpen, sqlite, rows, recent, writer, written, appended>>

CompactWrites ==
    /\ compacting /\ compacting' = FALSE
    /\ IF memoryOpen THEN Put("summary") ELSE UNCHANGED rows
    /\ UNCHANGED <<memoryOpen, sqlite, recent, writer, written, appended>>

\* SQLiteMemoryStore.Close; what a process keeps in memory ends with it.
CloseMemory ==
    /\ memoryOpen' = ~sqlite
    /\ UNCHANGED <<sqlite, rows, recent, writer, compacting, written, appended>>

-----------------------------------------------------------------------------
MemoryTypeOK ==
    /\ memoryOpen \in BOOLEAN /\ sqlite \in BOOLEAN /\ compacting \in BOOLEAN
    /\ Present \subseteq RowIds /\ Len(rows) = Cardinality(Present)
    /\ \A t \in Writers : writer[t].row \in {"none", "inserted", "kept", "lost"}

\* The recent turns are the newest ones, in the order they were recorded, and as many
\* as the limit allows: an insert between another's insert and prune, or the prune of
\* another turn, never drops a newer turn.  So what a prompt is given is the end of the
\* conversation.
RecentsAreNewest ==
    LET n == Len(appended)
    IN  /\ recent = Newest(appended, Len(recent))
        /\ Len(recent) >= IF n < RecentLimit THEN n ELSE RecentLimit
        /\ PromptTurns <= RecentLimit => PromptOf.turns = Newest(appended, PromptTurns)

\* Every row but those of turns that have yet to prune.
FewRecents ==
    Len(recent) <= RecentLimit + Cardinality({t \in Writers : writer[t].row = "inserted"})

-----------------------------------------------------------------------------
(* The inductive strengthening used by the proofs.                          *)

\* What a turn still has to write: a suffix of the facts of its transcript.
ToWrite == {<<>>, <<"likes">>, <<"name", "likes">>}

MemoryTypes ==
    /\ memoryOpen \in BOOLEAN /\ sqlite \in BOOLEAN
    /\ writer \in [Writers -> [facts : ToWrite, row : {"none", "inserted", "kept", "lost"}]]
    /\ written \in [Writers -> SUBSET Facts]
    /\ recent \in Seq(Writers) /\ appended \in Seq(Writers)

\* The recent turns end the history.
RecentsAreLast ==
    /\ Len(recent) <= Len(appended) /\ recent = Newest(appended, Len(recent))
    /\ Len(recent) >= IF Len(appended) < RecentLimit THEN Len(appended) ELSE RecentLimit

\* The times that turn t was recorded.
TimesOf(h, t) == {i \in DOMAIN h : h[i] = t}
=============================================================================
