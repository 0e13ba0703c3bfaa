------------------------- MODULE TaskManagerProofs -------------------------
(***************************************************************************)
(* Theorems about background tasks for every set of tasks, every number of *)
(* worker slots and any number of restarts.                                *)
(*                                                                         *)
(* The argument: where a task's goroutine is decides what the manager can  *)
(* show of it (StateFollowsLife), although a poller that nobody waits for  *)
(* and the files of an earlier life write to the same place; and a task    *)
(* that is shown running holds a slot (RunsOnSlot).                        *)
(***************************************************************************)
EXTENDS TaskManager, FiniteSetTheorems, TLAPS

(* The phases of a task, and the short forms the actions are written with. *)
USE DEF Step, poller, memory, files, NotCreated, Entering, Starting, Working, Ending,
        HasStatus, Active, Finished, Full, Results

(* What the goroutine and the poller make of a state is a state again, and *)
(* only the goroutine touches the status.                                  *)
LEMMA UpdatedState ==
    ASSUME NEW s \in States
    PROVE  /\ \A x \in Active \cup Finished :
                  [s EXCEPT !.status = x] \in States /\ [s EXCEPT !.status = x].status = x
           /\ \A r \in Results :
                  /\ [s EXCEPT !.result = r] \in States
                  /\ [s EXCEPT !.result = r].status = s.status
           /\ \A n \in 0..Full :
                  /\ [s EXCEPT !.progress = n] \in States
                  /\ [s EXCEPT !.progress = n].status = s.status
BY DEF States

(* Before the first request nothing is there.                              *)
LEMMA InitIInv == Init => IInv
<1> SUFFICES ASSUME Init PROVE IInv
    OBVIOUS
<1>1. TypeOK
    BY Slots DEF Init, TypeOK, Nothing, MaybeState
<1>2. StateFollowsLife /\ LocalFollowsLife
    BY DEF Init, Nothing, StateFollowsLife, LocalFollowsLife
<1>3. RunsOnSlot
    BY FS_EmptySet, NoneIsNoState, Slots DEF Init, Nothing, RunsOnSlot
<1> QED BY <1>1, <1>2, <1>3 DEF IInv
-----------------------------------------------------------------------------
(* A function that reports its result, a poll that reports statistics or   *)
(* progress: every task keeps its status.                                  *)
SameStatus ==
    /\ state' \in [Tasks -> MaybeState]
    /\ \A u \in Tasks : /\ state'[u] = None <=> state[u] = None
                        /\ state[u] # None => state'[u].status = state[u].status

LEMMA StatusKept ==
    ASSUME TypeOK, NEW t \in Tasks, state[t] # None,
           \/ \E r \in Results : state' = [state EXCEPT ![t].result = r]
           \/ \E n \in 0..Full : state' = [state EXCEPT ![t] = [state[t] EXCEPT !.progress = n]]
           \/ UNCHANGED state
    PROVE  SameStatus
<1>1. state[t] \in States
    BY DEF TypeOK, MaybeState
<1>2. CASE \E r \in Results : state' = [state EXCEPT ![t].result = r]
  <2> PICK r \in Results : state' = [state EXCEPT ![t].result = r]
      BY <1>2
  <2> DEFINE new == [state[t] EXCEPT !.result = r]
  <2>1. new \in States /\ new.status = state[t].status
      BY <1>1, UpdatedState
  <2>2. state' = [state EXCEPT ![t] = new]
      BY DEF TypeOK
  <2> HIDE DEF new
  <2> QED BY <2>1, <2>2, NoneIsNoState DEF TypeOK, MaybeState, SameStatus
<1>3. CASE \E n \in 0..Full : state' = [state EXCEPT ![t] = [state[t] EXCEPT !.progress = n]]
  <2> PICK n \in 0..Full : state' = [state EXCEPT ![t] = [state[t] EXCEPT !.progress = n]]
      BY <1>3
  <2> DEFINE new == [state[t] EXCEPT !.progress = n]
  <2>1. new \in States /\ new.status = state[t].status
      BY <1>1, UpdatedState
  <2>2. state' = [state EXCEPT ![t] = new]
      OBVIOUS
  <2> HIDE DEF new
  <2> QED BY <2>1, <2>2, NoneIsNoState DEF TypeOK, MaybeState, SameStatus
<1>4. CASE UNCHANGED state
    BY <1>4 DEF TypeOK, SameStatus
<1> QED BY <1>2, <1>3, <1>4

(* Such a step leaves alone who holds a slot, who is active and who is not. *)
LEMMA SameStatusLife ==
    ASSUME IInv, SameStatus, UNCHANGED <<local, slot, listed, file>>,
           \A u \in Tasks : \/ gpc'[u] = gpc[u]
                            \/ gpc[u] = "running" /\ gpc'[u] \in {"returned", "failing"},
           \A u \in Tasks : ppc'[u] # "off" => ppc[u] # "off"
    PROVE  StateFollowsLife' /\ LocalFollowsLife' /\ RunsOnSlot'
<1> USE NoneIsNoState DEF IInv
<1>1. \A u \in Tasks : state[u] # None => state[u] \in States /\ state'[u] \in States
    BY DEF SameStatus, TypeOK, MaybeState
<1>2. StateFollowsLife'
    BY <1>1 DEF SameStatus, StateFollowsLife
<1>3. LocalFollowsLife'
    BY DEF LocalFollowsLife
<1>4. RunsOnSlot'
    BY <1>1 DEF SameStatus, RunsOnSlot
<1> QED BY <1>2, <1>3, <1>4

(* StartScrub's look at the list changes nothing but its own progress.     *)
LEMMA CheckListIInv ==
    ASSUME IInv, NEW t \in Tasks, CheckList(t)
    PROVE  IInv'
<1> USE NoneIsNoState DEF IInv, CheckList
<1>1. TypeOK'
    BY DEF TypeOK, MaybeState
<1>2. StateFollowsLife'
    BY DEF TypeOK, StateFollowsLife
<1>3. LocalFollowsLife'
    BY DEF TypeOK, LocalFollowsLife
<1>4. RunsOnSlot'
    BY DEF TypeOK, RunsOnSlot
<1> QED BY <1>1, <1>2, <1>3, <1>4

(* A new task is pending, and not in the list yet.                         *)
LEMMA CheckStatusIInv ==
    ASSUME IInv, NEW t \in Tasks, CheckStatus(t)
    PROVE  IInv'
<1> USE NoneIsNoState DEF IInv, CheckStatus
<1>1. TypeOK'
    BY DEF TypeOK, MaybeState, States, Pending
<1>2. StateFollowsLife'
    BY DEF TypeOK, StateFollowsLife, Pending, States
<1>3. LocalFollowsLife'
    BY DEF TypeOK, LocalFollowsLife
<1>4. RunsOnSlot'
    BY DEF TypeOK, RunsOnSlot, Pending
<1> QED BY <1>1, <1>2, <1>3, <1>4

(* Create without a check.                                                 *)
LEMMA CreateIInv ==
    ASSUME IInv, NEW t \in Tasks, Create(t)
    PROVE  IInv'
<1> USE NoneIsNoState DEF IInv, Create
<1>1. TypeOK'
    BY DEF TypeOK, MaybeState, States, Pending
<1>2. StateFollowsLife'
    BY DEF TypeOK, StateFollowsLife, Pending, States
<1>3. LocalFollowsLife'
    BY DEF TypeOK, LocalFollowsLife
<1>4. RunsOnSlot'
    BY DEF TypeOK, RunsOnSlot, Pending
<1> QED BY <1>1, <1>2, <1>3, <1>4

(* The first persist.                                                      *)
LEMMA CreateWriteIInv ==
    ASSUME IInv, NEW t \in Tasks, CreateWrite(t)
    PROVE  IInv'
<1> USE NoneIsNoState DEF IInv, CreateWrite, WriteTmp
<1>1. TypeOK'
    BY DEF TypeOK, MaybeState
<1>2. StateFollowsLife'
    BY DEF TypeOK, StateFollowsLife
<1>3. LocalFollowsLife'
    BY DEF TypeOK, LocalFollowsLife
<1>4. RunsOnSlot'
    BY DEF TypeOK, RunsOnSlot
<1> QED BY <1>1, <1>2, <1>3, <1>4

(* The file is there and the task in the list.                             *)
LEMMA CreateRenameIInv ==
    ASSUME IInv, NEW t \in Tasks, CreateRename(t)
    PROVE  IInv'
<1> USE NoneIsNoState DEF IInv, CreateRename, RenameTmp
<1>1. TypeOK'
    BY DEF TypeOK, MaybeState, StateFollowsLife
<1>2. StateFollowsLife'
    BY DEF TypeOK, StateFollowsLife
<1>3. LocalFollowsLife'
    BY DEF TypeOK, LocalFollowsLife
<1>4. RunsOnSlot'
    BY DEF TypeOK, RunsOnSlot
<1> QED BY <1>1, <1>2, <1>3, <1>4

(* A task gets a slot only when one is free, and its running state is      *)
(* prepared then.                                                          *)
LEMMA AcquireSlotIInv ==
    ASSUME IInv, NEW t \in Tasks, AcquireSlot(t)
    PROVE  IInv'
<1> USE NoneIsNoState DEF IInv, AcquireSlot
<1> DEFINE new == [state[t] EXCEPT !.status = "running"]
<1>1. new \in States /\ new.status = "running" /\ local' = [local EXCEPT ![t] = new]
  <2>1. state[t] \in States
      BY DEF StateFollowsLife
  <2> QED BY <2>1, UpdatedState
<1> HIDE DEF new
<1>2. TypeOK'
    BY <1>1 DEF TypeOK, MaybeState
<1>3. StateFollowsLife'
    BY DEF TypeOK, StateFollowsLife
<1>4. LocalFollowsLife'
    BY <1>1 DEF TypeOK, LocalFollowsLife
<1>5. RunsOnSlot'
  <2>1. IsFiniteSet(slot') /\ (MaxConcurrent > 0 => Cardinality(slot') <= MaxConcurrent)
    <3>1. IsFiniteSet(slot) /\ Cardinality(slot) \in Nat
        BY FS_CardinalityType DEF RunsOnSlot
    <3>2. IsFiniteSet(slot') /\ Cardinality(slot') <= Cardinality(slot) + 1
      <4> slot' = slot \cup {t}
          OBVIOUS
      <4> QED BY <3>1, FS_AddElement
    <3>3. Cardinality(slot') \in Nat
        BY <3>2, FS_CardinalityType
    <3> QED BY <3>1, <3>2, <3>3, Slots
  <2>2. \A u \in Tasks : /\ gpc'[u] \in Starting \cup Working => u \in slot'
                         /\ HasStatus(state'[u], {"running"}) => u \in slot'
      BY DEF TypeOK, RunsOnSlot
  <2> QED BY <2>1, <2>2 DEF RunsOnSlot
<1> QED BY <1>2, <1>3, <1>4, <1>5

(* A task that never ran ends without a slot.                              *)
LEMMA GiveUpQueueIInv ==
    ASSUME IInv, NEW t \in Tasks, GiveUpQueue(t)
    PROVE  IInv'
<1> USE NoneIsNoState DEF IInv, GiveUpQueue
<1> DEFINE new == [state[t] EXCEPT !.status = "cancelled"]
<1>1. new \in States /\ new.status = "cancelled" /\ local' = [local EXCEPT ![t] = new]
  <2>1. state[t] \in States
      BY DEF StateFollowsLife
  <2> QED BY <2>1, UpdatedState
<1> HIDE DEF new
<1>2. TypeOK'
    BY <1>1 DEF TypeOK, MaybeState
<1>3. StateFollowsLife'
    BY DEF TypeOK, StateFollowsLife
<1>4. LocalFollowsLife'
    BY <1>1 DEF TypeOK, LocalFollowsLife
<1>5. RunsOnSlot'
    BY DEF TypeOK, RunsOnSlot
<1> QED BY <1>2, <1>3, <1>4, <1>5

(* The running state goes to disk first ...                                *)
LEMMA StartWriteIInv ==
    ASSUME IInv, NEW t \in Tasks, StartWrite(t)
    PROVE  IInv'
<1> USE NoneIsNoState DEF IInv, StartWrite, WriteTmp
<1>1. TypeOK'
    BY DEF TypeOK, MaybeState
<1>2. StateFollowsLife'
    BY DEF TypeOK, StateFollowsLife
<1>3. LocalFollowsLife'
    BY DEF TypeOK, LocalFollowsLife
<1>4. RunsOnSlot'
    BY DEF TypeOK, RunsOnSlot
<1> QED BY <1>1, <1>2, <1>3, <1>4

(* ... under the task's name ...                                           *)
LEMMA StartRenameIInv ==
    ASSUME IInv, NEW t \in Tasks, StartRename(t)
    PROVE  IInv'
<1> USE NoneIsNoState DEF IInv, StartRename, RenameTmp
<1>1. TypeOK'
    BY DEF TypeOK, MaybeState
<1>2. StateFollowsLife'
    BY DEF TypeOK, StateFollowsLife
<1>3. LocalFollowsLife'
    BY DEF TypeOK, LocalFollowsLife
<1>4. RunsOnSlot'
    BY DEF TypeOK, RunsOnSlot
<1> QED BY <1>1, <1>2, <1>3, <1>4

(* ... and is shown, by a task that holds a slot.                          *)
LEMMA StartStoreIInv ==
    ASSUME IInv, NEW t \in Tasks, StartStore(t)
    PROVE  IInv'
<1> USE NoneIsNoState DEF IInv, StartStore
<1>1. TypeOK'
    BY DEF TypeOK, MaybeState, LocalFollowsLife
<1>2. StateFollowsLife'
    BY DEF TypeOK, StateFollowsLife, LocalFollowsLife
<1>3. LocalFollowsLife'
    BY DEF TypeOK, LocalFollowsLife
<1>4. RunsOnSlot'
    BY DEF TypeOK, RunsOnSlot, LocalFollowsLife
<1> QED BY <1>1, <1>2, <1>3, <1>4

(* The function returns.                                                   *)
LEMMA FnReturnsIInv ==
    ASSUME IInv, NEW t \in Tasks, FnReturns(t)
    PROVE  IInv'
<1> USE NoneIsNoState DEF IInv, FnReturns
<1>1. SameStatus
  <2>1. state[t] # None
      BY DEF StateFollowsLife
  <2> QED BY <2>1, StatusKept
<1>2. TypeOK'
    BY <1>1 DEF TypeOK, SameStatus
<1>3. StateFollowsLife' /\ LocalFollowsLife' /\ RunsOnSlot'
  <2>1. UNCHANGED <<local, slot, listed, file>>
      OBVIOUS
  <2>2. \A u \in Tasks : \/ gpc'[u] = gpc[u]
                         \/ gpc[u] = "running" /\ gpc'[u] \in {"returned", "failing"}
      BY DEF TypeOK
  <2>3. \A u \in Tasks : ppc'[u] # "off" => ppc[u] # "off"
      BY DEF TypeOK
  <2> HIDE DEF IInv
  <2> QED BY <1>1, <2>1, <2>2, <2>3, SameStatusLife
<1> QED BY <1>2, <1>3

(* The outcome, whatever the context and the error make of it.             *)
LEMMA OutcomeIsFinal ==
    ASSUME NEW t \in Tasks, state[t] \in States
    PROVE  /\ Outcome(t) \in States /\ Outcome(t).status \in Finished
           /\ ctx[t] = "cancelled" => Outcome(t).status = "cancelled"
<1> DEFINE status == IF ctx[t] = "deadline" THEN "failed"
                     ELSE IF ctx[t] = "cancelled" THEN "cancelled"
                     ELSE IF gpc[t] = "failing" THEN "failed" ELSE "completed"
           pct == IF status = "completed" THEN Full ELSE state[t].progress
<1>1. status \in Finished /\ (ctx[t] = "cancelled" => status = "cancelled")
    OBVIOUS
<1>2. pct \in 0..Full
    BY DEF States
<1>3. Outcome(t) = [state[t] EXCEPT !.status = status, !.progress = pct]
    BY DEF Outcome
<1> HIDE DEF status, pct
<1>4. ASSUME NEW s \in States
      PROVE  LET new == [s EXCEPT !.status = status, !.progress = pct]
             IN  new \in States /\ new.status = status
    BY <1>1, <1>2 DEF States
<1> QED BY <1>1, <1>3, <1>4

(* The outcome is decided.                                                 *)
LEMMA ConcludeIInv ==
    ASSUME IInv, NEW t \in Tasks, Conclude(t)
    PROVE  IInv'
<1> USE NoneIsNoState DEF IInv, Conclude
<1>1. PICK new \in States : new.status \in Finished /\ local' = [local EXCEPT ![t] = new]
    BY OutcomeIsFinal DEF StateFollowsLife
<1>2. TypeOK'
    BY <1>1 DEF TypeOK, MaybeState
<1>3. StateFollowsLife'
    BY DEF TypeOK, StateFollowsLife
<1>4. LocalFollowsLife'
    BY <1>1 DEF TypeOK, LocalFollowsLife
<1>5. RunsOnSlot'
    BY DEF TypeOK, RunsOnSlot
<1> QED BY <1>2, <1>3, <1>4, <1>5

(* It goes to disk ...                                                     *)
LEMMA FinalWriteIInv ==
    ASSUME IInv, NEW t \in Tasks, FinalWrite(t)
    PROVE  IInv'
<1> USE NoneIsNoState DEF IInv, FinalWrite, WriteTmp
<1>1. TypeOK'
    BY DEF TypeOK, MaybeState
<1>2. StateFollowsLife'
    BY DEF TypeOK, StateFollowsLife
<1>3. LocalFollowsLife'
    BY DEF TypeOK, LocalFollowsLife
<1>4. RunsOnSlot'
    BY DEF TypeOK, RunsOnSlot
<1> QED BY <1>1, <1>2, <1>3, <1>4

(* ... under the task's name ...                                           *)
LEMMA FinalRenameIInv ==
    ASSUME IInv, NEW t \in Tasks, FinalRename(t)
    PROVE  IInv'
<1> USE NoneIsNoState DEF IInv, FinalRename, RenameTmp
<1>1. TypeOK'
    BY DEF TypeOK, MaybeState
<1>2. StateFollowsLife'
    BY DEF TypeOK, StateFollowsLife
<1>3. LocalFollowsLife'
    BY DEF TypeOK, LocalFollowsLife
<1>4. RunsOnSlot'
    BY DEF TypeOK, RunsOnSlot
<1> QED BY <1>1, <1>2, <1>3, <1>4

(* ... and is shown; the slot is free when the task is not running any     *)
(* more.                                                                   *)
LEMMA FinalStoreIInv ==
    ASSUME IInv, NEW t \in Tasks, FinalStore(t)
    PROVE  IInv'
<1> USE NoneIsNoState DEF IInv, FinalStore
<1>1. TypeOK'
    BY DEF TypeOK, MaybeState, LocalFollowsLife
<1>2. StateFollowsLife'
    BY DEF TypeOK, StateFollowsLife, LocalFollowsLife
<1>3. LocalFollowsLife'
    BY DEF TypeOK, LocalFollowsLife
<1>4. RunsOnSlot'
  <2>1. IsFiniteSet(slot') /\ Cardinality(slot') <= Cardinality(slot)
      BY FS_Subset, slot' \subseteq slot DEF RunsOnSlot
  <2>2. Cardinality(slot') \in Nat /\ Cardinality(slot) \in Nat
      BY <2>1, FS_CardinalityType DEF RunsOnSlot
  <2>3. \A u \in Tasks : /\ gpc'[u] \in Starting \cup Working => u \in slot'
                         /\ HasStatus(state'[u], {"running"}) => u \in slot'
      BY DEF TypeOK, RunsOnSlot, LocalFollowsLife
  <2> QED BY <2>1, <2>2, <2>3, Slots DEF RunsOnSlot
<1> QED BY <1>1, <1>2, <1>3, <1>4

(* A poll starts.                                                          *)
LEMMA TickIInv ==
    ASSUME IInv, NEW t \in Tasks, Tick(t)
    PROVE  IInv'
<1> USE NoneIsNoState DEF IInv, Tick
<1>1. TypeOK'
    BY DEF TypeOK, MaybeState
<1>2. StateFollowsLife'
    BY DEF TypeOK, StateFollowsLife
<1>3. LocalFollowsLife'
    BY DEF TypeOK, LocalFollowsLife
<1>4. RunsOnSlot'
    BY DEF TypeOK, RunsOnSlot
<1> QED BY <1>1, <1>2, <1>3, <1>4

(* The poller's result leaves the status alone, whatever it is by now.     *)
LEMMA SetResultIInv ==
    ASSUME IInv, NEW t \in Tasks, SetResult(t)
    PROVE  IInv'
<1> USE NoneIsNoState DEF IInv, SetResult
<1>1. SameStatus
  <2>1. state[t] # None
      BY DEF StateFollowsLife
  <2> QED BY <2>1, StatusKept
<1>2. TypeOK'
    BY <1>1 DEF TypeOK, SameStatus
<1>3. StateFollowsLife' /\ LocalFollowsLife' /\ RunsOnSlot'
  <2>1. UNCHANGED <<local, slot, listed, file>>
      OBVIOUS
  <2>2. \A u \in Tasks : \/ gpc'[u] = gpc[u]
                         \/ gpc[u] = "running" /\ gpc'[u] \in {"returned", "failing"}
      BY DEF TypeOK
  <2>3. \A u \in Tasks : ppc'[u] # "off" => ppc[u] # "off"
      BY DEF TypeOK
  <2> HIDE DEF IInv
  <2> QED BY <1>1, <2>1, <2>2, <2>3, SameStatusLife
<1> QED BY <1>2, <1>3

(* So does its progress.                                                   *)
LEMMA SetProgressIInv ==
    ASSUME IInv, NEW t \in Tasks, NEW pct \in 0..Full, SetProgress(t, pct)
    PROVE  IInv'
<1> USE NoneIsNoState DEF IInv, SetProgress
<1>1. state[t] # None /\ state[t] \in States
    BY DEF StateFollowsLife, TypeOK, MaybeState
<1>2. SameStatus
    BY <1>1, StatusKept
<1>3. polled' \in [Tasks -> MaybeState]
  <2> DEFINE new == [state[t] EXCEPT !.progress = pct]
  <2>1. new \in MaybeState
      BY <1>1, UpdatedState DEF MaybeState
  <2>2. polled' = [polled EXCEPT ![t] = new] \/ polled' = polled
      OBVIOUS
  <2> HIDE DEF new
  <2> QED BY <2>1, <2>2 DEF TypeOK
<1>4. TypeOK'
    BY <1>2, <1>3 DEF TypeOK, SameStatus
<1>5. StateFollowsLife' /\ LocalFollowsLife' /\ RunsOnSlot'
  <2>1. UNCHANGED <<local, slot, listed, file>>
      OBVIOUS
  <2>2. \A u \in Tasks : \/ gpc'[u] = gpc[u]
                         \/ gpc[u] = "running" /\ gpc'[u] \in {"returned", "failing"}
      BY DEF TypeOK
  <2>3. \A u \in Tasks : ppc'[u] # "off" => ppc[u] # "off"
      BY DEF TypeOK
  <2> HIDE DEF IInv
  <2> QED BY <1>2, <2>1, <2>2, <2>3, SameStatusLife
<1> QED BY <1>4, <1>5

(* The poller ends.                                                        *)
LEMMA PollerStopsIInv ==
    ASSUME IInv, NEW t \in Tasks, PollerStops(t)
    PROVE  IInv'
<1> USE NoneIsNoState DEF IInv, PollerStops
<1>1. TypeOK'
    BY DEF TypeOK, MaybeState
<1>2. StateFollowsLife'
    BY DEF TypeOK, StateFollowsLife
<1>3. LocalFollowsLife'
    BY DEF TypeOK, LocalFollowsLife
<1>4. RunsOnSlot'
    BY DEF TypeOK, RunsOnSlot
<1> QED BY <1>1, <1>2, <1>3, <1>4

(* A late poll may write an old state to the temporary file ...            *)
LEMMA ProgressWriteIInv ==
    ASSUME IInv, NEW t \in Tasks, ProgressWrite(t)
    PROVE  IInv'
<1> USE NoneIsNoState DEF IInv, ProgressWrite, WriteTmp
<1>1. TypeOK'
    BY DEF TypeOK, MaybeState
<1>2. StateFollowsLife'
    BY DEF TypeOK, StateFollowsLife
<1>3. LocalFollowsLife'
    BY DEF TypeOK, LocalFollowsLife
<1>4. RunsOnSlot'
    BY DEF TypeOK, RunsOnSlot
<1> QED BY <1>1, <1>2, <1>3, <1>4

(* ... and to the file of a task that is in the list.                      *)
LEMMA ProgressRenameIInv ==
    ASSUME IInv, NEW t \in Tasks, ProgressRename(t)
    PROVE  IInv'
<1> USE NoneIsNoState DEF IInv, ProgressRename, RenameTmp
<1>1. TypeOK'
    BY DEF TypeOK, MaybeState
<1>2. StateFollowsLife'
    BY DEF TypeOK, StateFollowsLife
<1>3. LocalFollowsLife'
    BY DEF TypeOK, LocalFollowsLife
<1>4. RunsOnSlot'
    BY DEF TypeOK, RunsOnSlot
<1> QED BY <1>1, <1>2, <1>3, <1>4

(* Cancel and the timeout only end a context.                              *)
LEMMA CancelIInv ==
    ASSUME IInv, NEW t \in Tasks, Cancel(t)
    PROVE  IInv'
<1> USE NoneIsNoState DEF IInv, Cancel
<1>1. TypeOK'
    BY DEF TypeOK, MaybeState
<1>2. StateFollowsLife'
    BY DEF TypeOK, StateFollowsLife
<1>3. LocalFollowsLife'
    BY DEF TypeOK, LocalFollowsLife
<1>4. RunsOnSlot'
    BY DEF TypeOK, RunsOnSlot
<1> QED BY <1>1, <1>2, <1>3, <1>4

(* The timeout.                                                            *)
LEMMA DeadlineIInv ==
    ASSUME IInv, NEW t \in Tasks, Deadline(t)
    PROVE  IInv'
<1> USE NoneIsNoState DEF IInv, Deadline
<1>1. TypeOK'
    BY DEF TypeOK, MaybeState
<1>2. StateFollowsLife'
    BY DEF TypeOK, StateFollowsLife
<1>3. LocalFollowsLife'
    BY DEF TypeOK, LocalFollowsLife
<1>4. RunsOnSlot'
    BY DEF TypeOK, RunsOnSlot
<1> QED BY <1>1, <1>2, <1>3, <1>4

(* Only a finished task, whose goroutine is gone, leaves the list.         *)
LEMMA CleanupIInv ==
    ASSUME IInv, NEW t \in Tasks, Cleanup(t)
    PROVE  IInv'
<1> USE NoneIsNoState DEF IInv, Cleanup
<1>1. TypeOK'
    BY DEF TypeOK, MaybeState
<1>2. StateFollowsLife'
    BY DEF TypeOK, StateFollowsLife
<1>3. LocalFollowsLife'
    BY DEF TypeOK, LocalFollowsLife
<1>4. RunsOnSlot'
    BY DEF TypeOK, RunsOnSlot
<1> QED BY <1>1, <1>2, <1>3, <1>4

(* loadFromDisk shows nothing as active.                                   *)
LEMMA LoadedIsFinal ==
    ASSUME NEW s \in MaybeState
    PROVE  /\ Loaded(s) \in MaybeState /\ (Loaded(s) = None <=> s = None)
           /\ s # None => HasStatus(Loaded(s), Finished)
<1>1. CASE s = None
    BY <1>1 DEF Loaded, MaybeState
<1>2. CASE s # None /\ s.status \in Active
  <2>1. s \in States
      BY <1>2 DEF MaybeState
  <2>2. Loaded(s) = [s EXCEPT !.status = "failed"]
      BY <1>2 DEF Loaded
  <2>3. Loaded(s) \in States /\ Loaded(s).status = "failed"
      BY <2>1, <2>2 DEF States
  <2> QED BY <1>2, <2>3, NoneIsNoState DEF MaybeState
<1>3. CASE s # None /\ s.status \notin Active
    BY <1>3 DEF Loaded, MaybeState, States
<1> QED BY <1>1, <1>2, <1>3

(* The restart: every task is as far as its file says, and none active.    *)
LEMMA CrashIInv ==
    ASSUME IInv, Crash
    PROVE  IInv'
<1> USE NoneIsNoState DEF IInv, Crash
<1>1. \A t \in Tasks : /\ state'[t] = Loaded(file[t]) /\ state'[t] \in MaybeState
                       /\ state'[t] = None <=> file[t] = None
                       /\ file[t] # None => HasStatus(state'[t], Finished)
                       /\ file'[t] = state'[t]
    BY LoadedIsFinal DEF TypeOK
<1>2. TypeOK'
    BY <1>1, Slots DEF TypeOK, Nothing, MaybeState
<1>3. StateFollowsLife'
  <2>1. \A t \in Tasks : gpc'[t] = "unborn" => file[t] = None
      BY DEF TypeOK, StateFollowsLife
  <2>2. \A t \in Tasks : gpc'[t] \in {"unborn", "gone"} /\ ppc'[t] = "off"
      OBVIOUS
  <2> QED BY <1>1, <2>1, <2>2 DEF StateFollowsLife
<1>4. LocalFollowsLife'
    BY DEF LocalFollowsLife, Nothing
<1>5. RunsOnSlot'
  <2>1. IsFiniteSet(slot') /\ Cardinality(slot') = 0
      BY FS_EmptySet
  <2>2. \A t \in Tasks : gpc'[t] \in {"unborn", "gone"}
      OBVIOUS
  <2>3. \A t \in Tasks : ~HasStatus(state'[t], {"running"})
      BY <1>1
  <2> QED BY <2>1, <2>2, <2>3, Slots DEF RunsOnSlot
<1> QED BY <1>2, <1>3, <1>4, <1>5
-----------------------------------------------------------------------------
(* Every step keeps the invariant.                                         *)
LEMMA NextIInv == IInv /\ [Next]_vars => IInv'
<1> SUFFICES ASSUME IInv, [Next]_vars PROVE IInv'
    OBVIOUS
<1>1. CASE UNCHANGED vars
  <2>1. TypeOK'
      BY <1>1 DEF IInv, TypeOK, vars
  <2> QED BY <1>1, <2>1 DEF IInv, StateFollowsLife, LocalFollowsLife, RunsOnSlot, vars
<1>2. CASE Crash
    BY <1>2, CrashIInv
<1>3. ASSUME NEW t \in Tasks, Creates(t) \/ Persists(t)
      PROVE  IInv'
    BY <1>3, CheckListIInv, CheckStatusIInv, CreateIInv, CreateWriteIInv, CreateRenameIInv
       DEF Creates, Persists
<1>4. ASSUME NEW t \in Tasks, Leaves(t) \/ Runs(t) \/ FnReturns(t)
      PROVE  IInv'
    BY <1>4, AcquireSlotIInv, GiveUpQueueIInv, StartWriteIInv, StartRenameIInv, StartStoreIInv,
       FnReturnsIInv, ConcludeIInv, FinalWriteIInv, FinalRenameIInv, FinalStoreIInv
       DEF Leaves, Runs
<1>5. ASSUME NEW t \in Tasks, Tick(t) \/ PollerStops(t) \/ Polls(t)
      PROVE  IInv'
    BY <1>5, TickIInv, PollerStopsIInv, SetResultIInv, SetProgressIInv, ProgressWriteIInv,
       ProgressRenameIInv DEF Polls
<1>6. ASSUME NEW t \in Tasks, Cancel(t) \/ Deadline(t) \/ Cleanup(t)
      PROVE  IInv'
    BY <1>6, CancelIInv, DeadlineIInv, CleanupIInv
<1> QED BY <1>1, <1>2, <1>3, <1>4, <1>5, <1>6 DEF Next

(* What is shown of a task is what its goroutine's place in the code says, *)
(* in all states: type correctness and the three parts of the invariant.   *)
THEOREM TaskInvariant == Spec => []IInv
<1>1. Init => IInv
    BY InitIInv
<1>2. IInv /\ [Next]_vars => IInv'
    BY NextIInv
<1> QED BY <1>1, <1>2, PTL DEF Spec

(* The worker pool's limit holds for what the API shows: at most           *)
(* MaxConcurrent tasks are shown running, for every number of slots.       *)
THEOREM TasksWithinLimit == Spec => []WorkerLimit
<1>1. IInv => WorkerLimit
  <2> SUFFICES ASSUME IInv, MaxConcurrent > 0
               PROVE  Cardinality({t \in listed : state[t].status = "running"}) <= MaxConcurrent
      BY DEF WorkerLimit
  <2> DEFINE shown == {t \in listed : state[t].status = "running"}
  <2>1. shown \subseteq slot
      BY DEF IInv, TypeOK, RunsOnSlot, MaybeState
  <2>2. IsFiniteSet(slot) /\ Cardinality(slot) <= MaxConcurrent
      BY DEF IInv, RunsOnSlot
  <2>3. IsFiniteSet(shown) /\ Cardinality(shown) <= Cardinality(slot)
      BY <2>1, <2>2, FS_Subset
  <2>4. Cardinality(shown) \in Nat /\ Cardinality(slot) \in Nat
      BY <2>2, <2>3, FS_CardinalityType
  <2> QED BY <2>2, <2>3, <2>4, Slots
<1> QED BY <1>1, TaskInvariant, PTL

(* What is shown as pending or running is looked after by a goroutine,     *)
(* through restarts and late polls.                                        *)
THEOREM ShownTasksAreAlive == Spec => []ActiveIsAlive
<1>1. IInv => ActiveIsAlive
    BY NoneIsNoState DEF IInv, TypeOK, StateFollowsLife, ActiveIsAlive
<1> QED BY <1>1, TaskInvariant, PTL

(* An outcome that is shown is never taken back while the agent runs.      *)
THEOREM OutcomesStay == Spec => OutcomeStays
<1>1. IInv /\ [Next]_vars =>
        [\A t \in Tasks : t \in listed /\ state[t].status \in Finished /\ crashes' = crashes
            => state'[t].status = state[t].status]_vars
  <2> SUFFICES ASSUME IInv, Next, NEW t \in Tasks, t \in listed,
                      state[t].status \in Finished, crashes' = crashes
               PROVE  state'[t].status = state[t].status
      OBVIOUS
  <2>1. state[t] \in States /\ gpc[t] = "gone"
      BY NoneIsNoState DEF IInv, TypeOK, StateFollowsLife, MaybeState
  <2>2. ~Crash
      BY DEF Crash, IInv, TypeOK
  <2> PICK u \in Tasks : \/ Creates(u) \/ Persists(u) \/ Leaves(u) \/ Runs(u) \/ FnReturns(u)
                         \/ Tick(u) \/ PollerStops(u) \/ Polls(u)
                         \/ Cancel(u) \/ Deadline(u) \/ Cleanup(u)
      BY <2>2 DEF Next
  <2>3. CASE SetResult(u) \/ \E pct \in 0..Full : SetProgress(u, pct)
    <3>1. state[u] # None
        BY <2>3 DEF IInv, StateFollowsLife, SetResult, SetProgress
    <3>2. SameStatus
        BY <2>3, <3>1, StatusKept DEF SetResult, SetProgress, IInv
    <3> QED BY <2>1, <3>2, NoneIsNoState DEF SameStatus
  <2>4. CASE gpc[u] # "gone"
    <3>1. state'[t] = state[t]
        BY <2>1, <2>4 DEF Creates, Persists, Leaves, Runs, Polls, IInv, TypeOK, CheckList,
           CheckStatus, Create, CreateWrite, CreateRename, AcquireSlot, GiveUpQueue, StartWrite,
           StartRename, StartStore, FnReturns, Conclude, FinalWrite, FinalRename, FinalStore,
           Tick, PollerStops, SetResult, SetProgress, ProgressWrite, ProgressRename,
           Cancel, Deadline, Cleanup
    <3> QED BY <3>1
  <2>5. CASE /\ gpc[u] = "gone"
             /\ ~(SetResult(u) \/ \E pct \in 0..Full : SetProgress(u, pct))
    <3>1. UNCHANGED state
        BY <2>5 DEF Creates, Persists, Leaves, Runs, Polls, CheckList,
           CheckStatus, Create, CreateWrite, CreateRename, AcquireSlot, GiveUpQueue, StartWrite,
           StartRename, StartStore, FnReturns, Conclude, FinalWrite, FinalRename, FinalStore,
           Tick, PollerStops, ProgressWrite, ProgressRename, Cancel, Deadline, Cleanup
    <3> QED BY <3>1
  <2> QED BY <2>3, <2>4, <2>5
<1> QED BY <1>1, TaskInvariant, PTL DEF Spec, OutcomeStays

(* A cancel that comes before the outcome is decided is honoured.          *)
THEOREM CancelsHonoured == Spec => CancelHonoured
<1>1. IInv /\ [Next]_vars =>
        [\A t \in Tasks :
            ctx[t] = "cancelled" /\ gpc[t] \in {"queued", "running", "returned", "failing"}
              => local'[t] = None \/ local'[t].status # "completed"]_vars
  <2> SUFFICES ASSUME IInv, Next, NEW t \in Tasks, ctx[t] = "cancelled",
                      gpc[t] \in {"queued", "running", "returned", "failing"}
               PROVE  local'[t] = None \/ local'[t].status # "completed"
      OBVIOUS
  <2>1. CASE Conclude(t)
    <3>1. state[t] \in States /\ local'[t] = Outcome(t)
        BY <2>1 DEF Conclude, IInv, TypeOK, StateFollowsLife
    <3> QED BY <3>1, OutcomeIsFinal
  <2>2. CASE ~Conclude(t)
    <3>1. IInv'
        BY NextIInv
    <3>2. gpc'[t] \notin Ending \/ GiveUpQueue(t)
        BY <2>2 DEF Next, Creates, Persists, Leaves, Runs, Polls, IInv, TypeOK, CheckList,
           CheckStatus, Create, CreateWrite, CreateRename, AcquireSlot, StartWrite,
           GiveUpQueue, StartRename, StartStore, FnReturns, Conclude, FinalWrite, FinalRename,
           FinalStore, Tick, PollerStops, SetResult, SetProgress, ProgressWrite, ProgressRename,
           Cancel, Deadline, Cleanup, Crash
    <3>3. CASE GiveUpQueue(t)
      <4>1. state[t] \in States
          BY <3>3 DEF GiveUpQueue, IInv, StateFollowsLife
      <4>2. local'[t] = [state[t] EXCEPT !.status = "cancelled"]
          BY <3>3 DEF GiveUpQueue, IInv, TypeOK
      <4> QED BY <4>1, <4>2, UpdatedState
    <3>4. CASE gpc'[t] \notin Ending
      <4>1. local'[t] = None \/ HasStatus(local'[t], {"running"})
          BY <3>1, <3>4 DEF IInv, TypeOK, LocalFollowsLife
      <4> QED BY <4>1
    <3> QED BY <3>2, <3>3, <3>4
  <2> QED BY <2>1, <2>2
<1> QED BY <1>1, TaskInvariant, PTL DEF Spec, CancelHonoured
=============================================================================
