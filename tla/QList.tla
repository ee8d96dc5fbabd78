------------------------------- MODULE QList -------------------------------
(***************************************************************************)
(* The intrusive list of srv_qlist.h, pointer by pointer: two list heads   *)
(* that share the nodes, as the queue and the cache of srv_conn_ctxt.c do, *)
(* and one qlist_foreach_entry_safe() loop, whose body may take the entry  *)
(* it is at off the list and put it on the other one.  ConnCtx.tla has     *)
(* sequences in place of the pointers; the history variable `lists` holds  *)
(* these sequences.                                                        *)
(***************************************************************************)
EXTENDS Integers, SequencesExt

CONSTANTS
    Node,   \* the qlist members of the conn_t's
    Heads,  \* the list heads
    NULL    \* the null pointer

ASSUME DistinctCells == Node \cap Heads = {} /\ NULL \notin Node \cup Heads

Cell == Node \cup Heads

VARIABLES
    next, prev, \* the two pointers of each cell
    over,       \* the head of the list that the loop goes over, or NULL
    pos, posN,  \* the cursors of the loop
    lists,      \* history: the entries of each list, in order
    visit       \* history: what the loop has still to visit, from pos on

loopVars == <<over, pos, posN, visit>>
vars     == <<next, prev, lists, loopVars>>

Index(q, n) == CHOOSE i \in DOMAIN q : q[i] = n
Listed(n) == \E h \in Heads : n \in ToSet(lists[h])

\* qlist_head_init() on the heads.
Init ==
    /\ next = [c \in Cell |-> IF c \in Heads THEN c ELSE NULL] /\ prev = next
    /\ over = NULL /\ pos = NULL /\ posN = NULL
    /\ lists = [h \in Heads |-> <<>>] /\ visit = <<>>

\* While the loop runs, its body alone changes the list, and only at pos; it
\* may use other lists.
MayAddTo(h) == over # h
MayDelFrom(h, n) == over = h => n = pos

\* A wrong variant of AddHead: "next->prev = item_ptr" is missing.
AddHeadHalf(h, n) ==
    /\ MayAddTo(h) /\ ~Listed(n)
    /\ next' = [next EXCEPT ![h] = n, ![n] = next[h]]
    /\ prev' = [prev EXCEPT ![n] = h]
    /\ lists' = [lists EXCEPT ![h] = Cons(n, @)]
    /\ UNCHANGED loopVars

\* qlist_add_head() with an entry that is on no list.
AddHead(h, n) ==
    /\ MayAddTo(h) /\ ~Listed(n)
    /\ next' = [next EXCEPT ![h] = n, ![n] = next[h]]
    /\ prev' = [prev EXCEPT ![next[h]] = n, ![n] = h]
    /\ lists' = [lists EXCEPT ![h] = Cons(n, @)]
    /\ UNCHANGED loopVars

\* qlist_add_tail()
AddTail(h, n) ==
    /\ MayAddTo(h) /\ ~Listed(n)
    /\ prev' = [prev EXCEPT ![h] = n, ![n] = prev[h]]
    /\ next' = [next EXCEPT ![prev[h]] = n, ![n] = h]
    /\ lists' = [lists EXCEPT ![h] = Append(@, n)]
    /\ UNCHANGED loopVars

\* qlist_del_entry() of an entry that is on a list.
DelEntry(h, n) ==
    /\ n \in ToSet(lists[h]) /\ MayDelFrom(h, n)
    /\ next' = [next EXCEPT ![prev[n]] = next[n], ![n] = NULL]
    /\ prev' = [prev EXCEPT ![next[n]] = prev[n], ![n] = NULL]
    /\ lists' = [lists EXCEPT ![h] = RemoveAt(@, Index(@, n))]
    /\ UNCHANGED loopVars

\* The initialisation of qlist_foreach_entry_safe() ...
Foreach(h) ==
    /\ over = NULL /\ over' = h
    /\ pos' = next[h] /\ posN' = next[next[h]]
    /\ visit' = lists[h]
    /\ UNCHANGED <<next, prev, lists>>

\* A wrong variant of Advance: qlist_foreach_entry().
AdvanceUnsafe ==
    /\ over # NULL /\ pos # over
    /\ pos' = next[pos] /\ posN' = next[pos]
    /\ visit' = Tail(visit)
    /\ UNCHANGED <<next, prev, lists, over>>

\* ... its step ...
Advance ==
    /\ over # NULL /\ pos # over
    /\ pos' = posN /\ posN' = next[posN]
    /\ visit' = Tail(visit)
    /\ UNCHANGED <<next, prev, lists, over>>

\* ... and its end.
ForeachEnds ==
    /\ over # NULL /\ pos = over
    /\ over' = NULL
    /\ UNCHANGED <<next, prev, lists, pos, posN, visit>>

Next == \/ \E h \in Heads, n \in Node : AddHead(h, n) \/ AddTail(h, n) \/ DelEntry(h, n)
        \/ \E h \in Heads : Foreach(h)
        \/ Advance \/ ForeachEnds

Spec == Init /\ [][Next]_vars

-----------------------------------------------------------------------------
\* Types of the pointers and of the lists they stand for; the loop never
\* holds a null pointer.
QListTypeOK ==
    /\ next \in [Cell -> Cell \cup {NULL}] /\ prev \in [Cell -> Cell \cup {NULL}]
    /\ over \in Heads \cup {NULL}
    /\ over # NULL => pos \in Cell /\ posN \in Cell
    /\ lists \in [Heads -> Seq(Node)] /\ visit \in Seq(Node)

(***************************************************************************)
(* The pointers are the lists: next leads from the head through the        *)
(* entries in order and back, prev the other way, and an entry on no list  *)
(* has null pointers (the end of qlist_del_entry()).  Deleting inside the  *)
(* loop, and moving an entry to the other list, keep it so.                *)
(***************************************************************************)
At(h, i) == IF i \in DOMAIN lists[h] THEN lists[h][i] ELSE h
Represents ==
    /\ \A h \in Heads : \A i \in 0..Len(lists[h]) :
          next[At(h, i)] = At(h, i + 1) /\ prev[At(h, i + 1)] = At(h, i)
    /\ \A n \in Node : ~Listed(n) => next[n] = NULL /\ prev[n] = NULL

(***************************************************************************)
(* The safe loop visits every entry that was listed when it began, once    *)
(* and in order, and ends at the head, although its body deletes entries   *)
(* and reuses their links (handle_connections_routine(),                   *)
(* srv_routines.c:160-167): pos and posN follow the schedule, and what is  *)
(* to come is still on the list.                                           *)
(***************************************************************************)
LoopOnSchedule ==
    over # NULL =>
        IF visit = <<>> THEN pos = over
        ELSE LET d == Len(lists[over]) - Len(visit)
             IN  /\ pos = visit[1]
                 /\ posN = IF Len(visit) = 1 THEN over ELSE visit[2]
                 /\ \A i \in 2..Len(visit) : d + i \in DOMAIN lists[over] /\ visit[i] = lists[over][d + i]
=============================================================================
