-------------------------- MODULE SemStoreHistory --------------------------
(***************************************************************************)
(* SemStore with a memory: the ids of the sets that were removed from each *)
(* slot, as far back as a generation takes to come around.                 *)
(***************************************************************************)
EXTENDS SemStore

VARIABLE recent    \* per slot, the last MaxGeneration - 1 ids removed from it

hvars == <<store, last, recent>>

HistoryInit == Init /\ recent = [i \in Slots |-> <<>>]

\* The ids of the sets that disappear in this step are remembered.
Remember ==
  recent' = [i \in Slots |->
    IF store.sets[i].active /\ ~store'.sets[i].active
    THEN LET r == Append(recent[i], make_id(i, store.sets[i].generation))
         IN  IF Len(r) >= MaxGeneration THEN Tail(r) ELSE r
    ELSE recent[i]]

HistoryNext == Next /\ Remember

HistorySpec == HistoryInit /\ [][HistoryNext]_hvars

-----------------------------------------------------------------------------
\* An id that was removed stays invalid while its slot is created and removed
\* again, until all MaxGeneration generations have been used: a process that
\* kept the id of a removed set cannot reach the set that took its slot.
StaleIdsRejected ==
  \A i \in Slots : \A k \in DOMAIN recent[i] : ~found(store, recent[i][k])
=============================================================================
