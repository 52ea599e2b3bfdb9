--------------------------- MODULE AccountsProofs ---------------------------
(***************************************************************************)
(* Proofs about Accounts, for any states, callbacks, tasks and credentials. *)
(***************************************************************************)
EXTENDS Accounts, FiniteSetTheorems, TLAPS

(* The part of the type invariant that the argument needs.                 *)
StatesOK ==
  states \in [States -> [provider : Providers \cup {None},
                         left : {"unminted", "time", "none", "gone"}]]

(* A state that let a callback in is gone, and none is minted again.       *)
AcceptedAreGone ==
  \A x \in accepted : x.state \in States /\ states[x.state].left = "gone"

IInv == StatesOK /\ AcceptedAreGone /\ StateUsedOnce

(* Pruning forgets states that ran out of time and changes no other.       *)
LEMMA PruneKeeps ==
  ASSUME StatesOK
  PROVE  /\ Pruned \in [States -> [provider : Providers \cup {None},
                                   left : {"unminted", "time", "none", "gone"}]]
         /\ \A s \in States :
              /\ states[s].left \in {"unminted", "time", "gone"} => Pruned[s] = states[s]
              /\ states[s].left = "none" => Pruned[s].left = "gone"
BY DEF StatesOK, Pruned

(* A callback that is let in finds a live state of its own provider, which *)
(* no earlier one was let in with, and leaves it gone.                     *)
LEMMA CallbackStep ==
  ASSUME IInv, NEW b \in Callbacks, NEW s \in States, NEW p \in Providers, Callback(b, s, p)
  PROVE  IInv'
<1>1. StatesOK'
  BY PruneKeeps DEF IInv, StatesOK, Callback, PopState
<1>2. \A x \in States : states[x].left = "gone" => states'[x].left = "gone"
  BY PruneKeeps DEF IInv, StatesOK, Callback, PopState
<1>3. CASE accepted' = accepted
  BY <1>1, <1>2, <1>3 DEF IInv, AcceptedAreGone, StateUsedOnce
<1>4. CASE Known(s) = p
  <2> DEFINE new == [callback |-> b, state |-> s, provider |-> p,
                     minted |-> states[s].provider, inTime |-> states[s].left = "time"]
  <2>1. accepted' = accepted \cup {new}
    BY <1>4 DEF Callback
  <2>2. states[s].left = "time" /\ states[s].provider = p
    BY <1>4, PruneKeeps DEF IInv, StatesOK, Known, Providers, None
  <2>3. \A x \in accepted : x.state # s
    BY <2>2 DEF IInv, AcceptedAreGone
  <2>4. states'[s].left = "gone"
    BY <2>2, PruneKeeps DEF IInv, StatesOK, Callback, PopState
  <2>5. new.state = s /\ new.minted = p /\ new.provider = p /\ new.inTime
    BY <2>2
  <2> HIDE DEF new
  <2>6. AcceptedAreGone'
    BY <1>2, <2>1, <2>4, <2>5 DEF IInv, AcceptedAreGone
  <2>7. StateUsedOnce'
    BY <2>1, <2>3, <2>5 DEF IInv, StateUsedOnce
  <2>8. QED
    BY <1>1, <2>6, <2>7 DEF IInv
<1>5. QED
  BY <1>3, <1>4 DEF Callback

(* Every other step leaves the accepted callbacks and what is gone alone.  *)
LEMMA StatesStep == IInv /\ [Next]_vars => IInv'
<1> SUFFICES ASSUME IInv, [Next]_vars PROVE IInv'
  OBVIOUS
<1> USE DEF IInv
<1>1. ASSUME NEW s \in States, NEW p \in Providers, Authorize(s, p) PROVE IInv'
  BY <1>1, PruneKeeps DEF Authorize, StatesOK, AcceptedAreGone, StateUsedOnce
<1>2. ASSUME NEW s \in States, TimeOut(s) PROVE IInv'
  BY <1>2 DEF TimeOut, StatesOK, AcceptedAreGone, StateUsedOnce
<1>3. ASSUME NEW b \in Callbacks, NEW s \in States, NEW p \in Providers, Callback(b, s, p)
      PROVE  IInv'
  BY <1>3, CallbackStep
<1>4. ASSUME NEW k \in Keys, Restart(k) PROVE IInv'
  BY <1>4 DEF Restart, StatesOK, AcceptedAreGone, StateUsedOnce
<1>5. CASE UNCHANGED <<states, accepted>>
  BY <1>5 DEF StatesOK, AcceptedAreGone, StateUsedOnce
<1>6. ASSUME NEW b \in Callbacks, Exchange(b) \/ Find(b) \/ Store(b)
      PROVE  UNCHANGED <<states, accepted>>
  BY <1>6 DEF Exchange, Find, Store
<1>7. ASSUME NEW p \in Providers, Disconnect(p) PROVE UNCHANGED <<states, accepted>>
  BY <1>7 DEF Disconnect, oauth
<1>8. ASSUME NEW i \in Rows, TokenExpires(i) PROVE UNCHANGED <<states, accepted>>
  BY <1>8 DEF TokenExpires, oauth
<1>9. ASSUME NEW t \in Tasks, Use(t) PROVE UNCHANGED <<states, accepted>>
  BY <1>9 DEF Use, StartBatch, NextCut, StartUpload, ReadCredential, Reload, Refresh,
              CommitRefresh, Return, Send, Write, oauth
<1>10. CASE UNCHANGED vars
  BY <1>10, <1>5 DEF vars, oauth
<1>11. QED
  BY <1>1, <1>2, <1>3, <1>4, <1>5, <1>6, <1>7, <1>8, <1>9, <1>10 DEF Next, Operator

(* An OAuth state lets at most one callback in, for its own provider and   *)
(* in time, whatever the browser brings back and however often the API     *)
(* restarts (consume_state in api/oauth.py).                               *)
THEOREM StatesAreUsedOnce == Spec => []StateUsedOnce
<1>1. Init => IInv
  BY DEF Init, IInv, StatesOK, AcceptedAreGone, StateUsedOnce
<1>2. IInv => StateUsedOnce
  BY DEF IInv
<1>3. QED
  BY <1>1, <1>2, StatesStep, PTL DEF Spec

-----------------------------------------------------------------------------
(* The credentials, what uses them, and the history.                       *)

Credentials == [provider : Providers, token : Accounts, refresh : Accounts \cup {None},
                expires : {"never", "later", "past"}, seal : Keys]

TaskRecords == [pc : TaskPC, kind : {None, "batch", "upload"}, todo : SUBSET Cuts,
                cut : Cuts \cup {None}, id : Rows \cup {0}, cred : Credentials \cup {NoRow},
                linked : Accounts \cup {None}, reply : Views \cup {0},
                seen : [Cuts -> SUBSET (Views \cup {0})]]

Replied == [pc : {"find", "store"}, provider : Providers, token : Accounts,
            refresh : Accounts \cup {None}, expires : {"never", "later"}]
Looked  == [pc : {"find", "store"}, provider : Providers, token : Accounts,
            refresh : Accounts \cup {None}, expires : {"never", "later"}, id : Rows \cup {0}]

(* A callback that has a reply keeps at most that reply's refresh token.   *)
CallbacksOK ==
  /\ callback \in [Callbacks -> [pc : {"new", "over"}]
                      \cup [pc : {"exchange"}, provider : Providers] \cup Replied \cup Looked]
  /\ \A b \in Callbacks :
       /\ callback[b].pc = "find" => callback[b] \in Replied
       /\ callback[b].pc = "store" => callback[b] \in Looked
       /\ callback[b].pc \in {"find", "store"} => callback[b].refresh \in {None, callback[b].token}

Created == {i \in Rows : row[i] # NoRow}

(* Rows are created in order, and stay when they are deleted.              *)
RowsOK ==
  /\ row \in [Rows -> {NoRow, Deleted} \cup Credentials]
  /\ Cardinality(Created) \in Nat /\ Created = 1 .. Cardinality(Created)
  /\ linked \in [Providers -> Accounts \cup {None}]
  /\ key \in Keys /\ races \subseteq {"refresh", "callback"}

(* Unless two callbacks or a refresh and a reconnection crossed, a provider *)
(* has one row, its tokens are of the account it was last connected to, and *)
(* a callback that found no row is still right about that.                 *)
LinkedOK ==
  races = {} =>
    /\ \A i, j \in Rows : Exists(i) /\ row[i].provider = row[j].provider => i = j
    /\ \A i \in Rows : Exists(i) =>
         /\ row[i].token = linked[row[i].provider]
         /\ row[i].refresh \in {None, linked[row[i].provider]}
    /\ \A b \in Callbacks : callback[b].pc = "store" /\ callback[b].id = 0 =>
         \A i \in Rows : row[i].provider # callback[b].provider

(* The readings on record for a cut.                                       *)
Reported(c) == {s.views : s \in {s \in snaps : s.cut = c}} \ {0}

Busy    == {"credential", "reload", "refresh", "commit", "return", "send", "write"}
Holding == {"reload", "refresh", "commit", "return"}

(* What a task knows. The row it holds is of its cut's provider, and       *)
(* readable as long as it exists: a reconnection seals it under the key    *)
(* that opened it, and a change of the key ends the task.                  *)
Good(x) ==
  /\ x \in TaskRecords
  /\ x.pc \in Busy => x.cut \in Cuts
  /\ x.pc \in Holding =>
       /\ x.id \in Rows /\ row[x.id] # NoRow
       /\ row[x.id].provider \in {ProviderOf[x.cut], "deleted"}
       /\ Exists(x.id) => row[x.id].seal = key
  /\ x.pc \in {"refresh", "commit"} => x.cred \in Credentials /\ x.cred.refresh # None
  /\ x.pc = "send" => x.cred.seal = key /\ (races = {} => x.cred.token = x.linked)
  /\ \A c \in Cuts : x.seen[c] \subseteq {0} \cup Reported(c)

TasksOK ==
  /\ task \in [Tasks -> TaskRecords]
  /\ \A t \in Tasks : Good(task[t])

HistoryOK ==
  /\ views \in [Cuts -> Views \cup {0}]
  /\ snaps \subseteq replies
  /\ \A c \in Cuts : views[c] \in Reported(c) \/ (views[c] = 0 /\ Reported(c) = {})
  /\ \A t \in Tasks : task[t].pc = "write" => Snapshot(t, task[t].reply) \in replies

UseInv == CallbacksOK /\ RowsOK /\ LinkedOK /\ TasksOK /\ HistoryOK

(* What no step but a restart undoes, as far as tasks depend on it.        *)
Evolves ==
  /\ UNCHANGED key /\ races \subseteq races' /\ snaps \subseteq snaps'
  /\ \A i \in Rows : row[i] # NoRow =>
       /\ row'[i] # NoRow /\ row'[i].provider \in {row[i].provider, "deleted"}
       /\ Exists(i)' /\ row[i].seal = key => row'[i].seal = key

(* What platforms reported of a cut is only added to.                      *)
LEMMA ReportedGrows ==
  ASSUME snaps \subseteq snaps', NEW c
  PROVE  Reported(c) \subseteq Reported(c)'
BY DEF Reported

(* A task that stands still stays good while the rest evolves.             *)
LEMMA GoodStays ==
  ASSUME Evolves, NEW t \in Tasks, NEW x, Good(x), task'[t] = x
  PROVE  Good(task[t])'
<1>1. ASSUME x.pc \in Holding
      PROVE  /\ x.id \in Rows /\ row'[x.id] # NoRow
             /\ row'[x.id].provider \in {ProviderOf[x.cut], "deleted"}
             /\ Exists(x.id)' => row'[x.id].seal = key
  <2>1. /\ x.id \in Rows /\ row[x.id] # NoRow
        /\ row[x.id].provider \in {ProviderOf[x.cut], "deleted"}
        /\ Exists(x.id) => row[x.id].seal = key
    BY <1>1 DEF Good
  <2>2. /\ row'[x.id] # NoRow /\ row'[x.id].provider \in {row[x.id].provider, "deleted"}
        /\ Exists(x.id)' /\ row[x.id].seal = key => row'[x.id].seal = key
    BY <2>1 DEF Evolves
  <2>3. Exists(x.id)' => Exists(x.id)
    BY <2>2 DEF Exists, Providers
  <2>4. QED
    BY <2>1, <2>2, <2>3
<1>2. races' = {} => races = {}
  BY DEF Evolves
<1>3. \A c \in Cuts : x.seen[c] \subseteq {0} \cup Reported(c)'
  BY ReportedGrows DEF Good, Evolves
<1>4. key' = key
  BY DEF Evolves
<1>5. QED
  BY <1>1, <1>2, <1>3, <1>4 DEF Good

LEMMA TasksStay ==
  ASSUME TasksOK, Evolves, UNCHANGED task
  PROVE  TasksOK'
BY GoodStays DEF TasksOK

(* Nor does a step of one task harm the others.                            *)
LEMMA TaskChanges ==
  ASSUME TasksOK, Evolves, NEW t \in Tasks, NEW x, Good(x), task' = [task EXCEPT ![t] = x]
  PROVE  TasksOK'
<1>1. task' \in [Tasks -> TaskRecords]
  BY DEF TasksOK, Good
<1>2. ASSUME NEW u \in Tasks PROVE Good(task[u])'
  <2>1. CASE u = t
    BY <2>1, GoodStays DEF TasksOK
  <2>2. CASE u # t
    <3>1. task'[u] = task[u] /\ Good(task[u])
      BY <2>2 DEF TasksOK
    <3>2. QED
      BY <3>1, GoodStays
  <2>3. QED
    BY <2>1, <2>2
<1>3. QED
  BY <1>1, <1>2 DEF TasksOK

(* The records a task goes on with when it is done with a cut.             *)
LEMMA DoneIsGood ==
  ASSUME TasksOK, NEW t \in Tasks
  PROVE  /\ CutDone(t) \in TaskRecords /\ Good(CutDone(t)) /\ Good(Ended)
         /\ CutDone(t).pc \in {"next", "over"}
         /\ \A f \in [Cuts -> SUBSET (Views \cup {0})] :
              (\A c \in Cuts : f[c] \subseteq {0} \cup Reported(c)) =>
                Good([CutDone(t) EXCEPT !.seen = f])
<1>1. task[t] \in TaskRecords /\ \A c \in Cuts : task[t].seen[c] \subseteq {0} \cup Reported(c)
  BY DEF TasksOK, Good
<1>2. NewTask \in TaskRecords
  BY DEF NewTask, TaskRecords, TaskPC
<1>3. Ended \in TaskRecords /\ Ended.pc = "over" /\ \A c \in Cuts : Ended.seen[c] = {}
  BY DEF NewTask, Ended, TaskRecords, TaskPC
<1>4. Good(Ended)
  BY <1>3 DEF Good, Busy, Holding
<1>5. CASE IsBatch(t)
  <2> DEFINE d == [NewTask EXCEPT !.pc = "next", !.kind = "batch",
                                  !.todo = task[t].todo, !.seen = task[t].seen]
  <2>1. CutDone(t) = d
    BY <1>5 DEF CutDone
  <2>2. d \in TaskRecords /\ d.pc = "next" /\ d.seen = task[t].seen
    BY <1>1 DEF NewTask, TaskRecords, TaskPC
  <2> HIDE DEF d
  <2>3. Good(d)
    BY <1>1, <2>2 DEF Good, Busy, Holding
  <2>4. ASSUME NEW f \in [Cuts -> SUBSET (Views \cup {0})],
               \A c \in Cuts : f[c] \subseteq {0} \cup Reported(c)
        PROVE  Good([d EXCEPT !.seen = f])
    <3> DEFINE e == [d EXCEPT !.seen = f]
    <3>1. e \in TaskRecords /\ e.pc = "next" /\ e.seen = f
      BY <2>2 DEF TaskRecords
    <3> HIDE DEF e
    <3>2. Good(e)
      BY <2>4, <3>1 DEF Good, Busy, Holding
    <3>3. QED
      BY <3>2 DEF e
  <2>5. QED
    BY <1>4, <2>1, <2>2, <2>3, <2>4
<1>6. CASE ~IsBatch(t)
  <2>1. CutDone(t) = Ended
    BY <1>6 DEF CutDone
  <2>2. ASSUME NEW f \in [Cuts -> SUBSET (Views \cup {0})],
               \A c \in Cuts : f[c] \subseteq {0} \cup Reported(c)
        PROVE  Good([Ended EXCEPT !.seen = f])
    <3> DEFINE e == [Ended EXCEPT !.seen = f]
    <3>1. e \in TaskRecords /\ e.pc = "over" /\ e.seen = f
      BY <1>3 DEF TaskRecords
    <3> HIDE DEF e
    <3>2. Good(e)
      BY <2>2, <3>1 DEF Good, Busy, Holding
    <3>3. QED
      BY <3>2 DEF e
  <2>3. QED
    BY <1>3, <1>4, <2>1, <2>2
<1>7. QED
  BY <1>5, <1>6

(* A readable row of the cut's provider, put to use.                       *)
LEMMA UsingIsGood ==
  ASSUME RowsOK, LinkedOK, TasksOK, NEW t \in Tasks, task[t].cut \in Cuts, NEW i \in Rows,
         row[i].provider = ProviderOf[task[t].cut], row[i].seal = key
  PROVE  Good(Using(t, i)) /\ Using(t, i).pc \in {"next", "over", "refresh", "send"}
<1>1. /\ task[t] \in TaskRecords /\ task[t].cut \in Cuts
      /\ \A c \in Cuts : task[t].seen[c] \subseteq {0} \cup Reported(c)
  BY DEF TasksOK, Good
<1>2. ProviderOf[task[t].cut] \in Providers /\ Exists(i)
  BY AccountsAssumption DEF Exists
<1>3. row[i] \in Credentials /\ row[i] # NoRow
  <2>1. row[i] \in {NoRow, Deleted} \cup Credentials
    BY DEF RowsOK
  <2>2. NoRow.provider \notin Providers /\ Deleted.provider \notin Providers
    BY DEF NoRow, Deleted, None, Providers
  <2>3. QED
    BY <1>2, <2>1, <2>2
<1>4. linked[row[i].provider] \in Accounts \cup {None}
  BY <1>2 DEF RowsOK
<1> DEFINE expired == row[i].provider = "youtube" /\ row[i].expires = "past"
           p == IF expired THEN "refresh" ELSE "send"
           x == [task[t] EXCEPT !.id = i, !.cred = row[i], !.linked = linked[row[i].provider],
                                !.pc = p]
<1>5. CASE expired /\ row[i].refresh = None
  <2>1. Using(t, i) = CutDone(t)
    BY <1>5 DEF Using
  <2>2. QED
    BY <2>1, DoneIsGood
<1>6. CASE ~(expired /\ row[i].refresh = None)
  <2>1. Using(t, i) = x
    BY <1>6 DEF Using
  <2>2. /\ x \in TaskRecords /\ x.pc = p /\ x.id = i /\ x.cred = row[i]
        /\ x.cut = task[t].cut /\ x.linked = linked[row[i].provider] /\ x.seen = task[t].seen
    BY <1>1, <1>3, <1>4 DEF TaskRecords, TaskPC
  <2>3. races = {} => row[i].token = linked[row[i].provider]
    BY <1>2 DEF LinkedOK
  <2>4. p = "refresh" => row[i].refresh # None
    BY <1>6
  <2>5. p \in {"refresh", "send"}
    OBVIOUS
  <2> HIDE DEF x, p
  <2>6. Good(x)
    BY <1>1, <1>3, <2>2, <2>3, <2>4, <2>5 DEF Good, Busy, Holding
  <2>7. QED
    BY <2>1, <2>2, <2>5, <2>6
<1>7. QED
  BY <1>5, <1>6

-----------------------------------------------------------------------------
(* The steps that write a credential.                                      *)

(* A row exists exactly when it is a credential.                           *)
LEMMA RowKinds ==
  ASSUME RowsOK, NEW i \in Rows
  PROVE  /\ Exists(i) <=> row[i] \in Credentials
         /\ ~Exists(i) => row[i] \in {NoRow, Deleted}
         /\ NoRow # Deleted /\ NoRow \notin Credentials /\ Deleted \notin Credentials
<1>1. NoRow.provider = "none" /\ Deleted.provider = "deleted"
  BY DEF NoRow, Deleted, None
<1>2. \A c \in Credentials : c.provider \in Providers
  BY DEF Credentials
<1>3. row[i] \in {NoRow, Deleted} \cup Credentials
  BY DEF RowsOK
<1>4. QED
  BY <1>1, <1>2, <1>3 DEF Exists, Providers

(* A row that stays what it is, or a row that is rewritten for the same    *)
(* provider under the present key, or deleted.                             *)
LEMMA RewriteRow ==
  ASSUME RowsOK, UNCHANGED <<key, snaps>>, races \subseteq races',
         races' \subseteq {"refresh", "callback"},
         linked' \in [Providers -> Accounts \cup {None}],
         NEW i \in Rows, NEW x, row' = [row EXCEPT ![i] = x], row[i] # NoRow,
         \/ x = Deleted
         \/ x \in Credentials /\ x.provider = row[i].provider
              /\ (row[i].seal = key => x.seal = key)
  PROVE  RowsOK' /\ Evolves
<1>1. x # NoRow /\ row'[i] = x /\ \A k \in Rows \ {i} : row'[k] = row[k]
  BY RowKinds DEF RowsOK
<1>2. Created' = Created
  BY <1>1 DEF Created
<1>3. row' \in [Rows -> {NoRow, Deleted} \cup Credentials]
  BY DEF RowsOK
<1>4. RowsOK'
  BY <1>2, <1>3 DEF RowsOK
<1>5. x.provider \in {row[i].provider, "deleted"}
  BY DEF Deleted
<1>6. Exists(i)' => x # Deleted
  BY <1>1 DEF Exists, Deleted, Providers
<1>7. Evolves
  BY <1>1, <1>5, <1>6 DEF Evolves
<1>8. QED
  BY <1>4, <1>7

(* A step that leaves the table, the key and the history alone.            *)
LEMMA RowsStay ==
  ASSUME RowsOK, UNCHANGED <<row, key, snaps>>, races \subseteq races',
         races' \subseteq {"refresh", "callback"},
         linked' \in [Providers -> Accounts \cup {None}]
  PROVE  RowsOK' /\ Evolves
BY DEF RowsOK, Created, Evolves

(* A new row is the next one.                                              *)
LEMMA CreateRow ==
  ASSUME RowsOK, UNCHANGED <<key, snaps>>, races \subseteq races',
         races' \subseteq {"refresh", "callback"},
         linked' \in [Providers -> Accounts \cup {None}],
         NEW x \in Credentials, 1 + Cardinality(Created) \in Rows,
         row' = [row EXCEPT ![1 + Cardinality(Created)] = x]
  PROVE  RowsOK' /\ Evolves /\ row[1 + Cardinality(Created)] = NoRow
<1>1. PICK n \in Nat : n = Cardinality(Created) /\ Created = 1 .. n
  BY DEF RowsOK
<1> DEFINE i == 1 + n
<1>2. i \in Rows /\ i \notin Created /\ row' = [row EXCEPT ![i] = x] /\ i = n + 1
  <2>1. i = n + 1 /\ n + 1 \notin 1 .. n
    OBVIOUS
  <2>2. i \in Rows /\ row' = [row EXCEPT ![i] = x]
    BY <1>1
  <2>3. QED
    BY <1>1, <2>1, <2>2
<1>3. row[i] = NoRow
  BY <1>2 DEF Created
<1>4. row'[i] = x /\ x # NoRow /\ \A k \in Rows \ {i} : row'[k] = row[k]
  BY <1>2, RowKinds DEF RowsOK
<1>5. Created' = Created \cup {i}
  BY <1>2, <1>4 DEF Created
<1>6. Created' = 1 .. (n + 1)
  <2>1. Created' = (1 .. n) \cup {n + 1}
    BY <1>1, <1>2, <1>5
  <2>2. (1 .. n) \cup {n + 1} = 1 .. (n + 1)
    OBVIOUS
  <2>3. QED
    BY <2>1, <2>2
<1>7. Cardinality(Created') = n + 1
  <2>1. 1 \in Int /\ n + 1 \in Int
    OBVIOUS
  <2>2. Cardinality(1 .. (n + 1)) = IF 1 > n + 1 THEN 0 ELSE (n + 1) - 1 + 1
    BY <2>1, FS_Interval, Zenon
  <2>3. QED
    BY <1>6, <2>2
<1>8. Cardinality(Created)' = n + 1
  BY <1>7
<1>9. row' \in [Rows -> {NoRow, Deleted} \cup Credentials]
  BY <1>2 DEF RowsOK
<1>10. RowsOK'
  <2>1. n + 1 \in Nat
    OBVIOUS
  <2>2. Cardinality(Created)' \in Nat /\ Created' = 1 .. Cardinality(Created)'
    BY <1>6, <1>8, <2>1
  <2>3. QED
    BY <1>9, <2>2 DEF RowsOK
<1>11. Evolves
  BY <1>3, <1>4 DEF Evolves
<1>12. QED
  BY <1>1, <1>3, <1>10, <1>11

(* A callback stores its account: the provider is connected to it, unless  *)
(* two callbacks have crossed.                                             *)
LEMMA StoreStep ==
  ASSUME CallbacksOK, RowsOK, LinkedOK, NEW b \in Callbacks, Store(b)
  PROVE  RowsOK' /\ LinkedOK' /\ Evolves
<1> DEFINE c == callback[b]
           p == c.provider
           i == IF c.id = 0 THEN 1 + Cardinality(Created) ELSE c.id
<1>1. /\ c \in Looked /\ c.pc = "store" /\ c.refresh \in {None, c.token}
      /\ p \in Providers /\ c.token \in Accounts /\ c.id \in Rows \cup {0}
  BY DEF Store, CallbacksOK, Looked
<1>2. /\ i \in Rows /\ UNCHANGED <<key, snaps>>
      /\ races' = races \cup
           IF \E o \in Callbacks \ {b} : callback[o].pc = "store" /\ callback[o].provider = p
             THEN {"callback"} ELSE {}
      /\ callback' = [callback EXCEPT ![b] = [pc |-> "over"]]
  BY DEF Store, Created, metrics
<1>3. /\ races \subseteq races' /\ races' \subseteq {"refresh", "callback"}
      /\ races' = {} => races = {} /\ \A o \in Callbacks \ {b} :
                          ~(callback[o].pc = "store" /\ callback[o].provider = p)
  BY <1>2 DEF RowsOK
<1>4. /\ callback'[b].pc = "over"
      /\ \A o \in Callbacks \ {b} : callback'[o] = callback[o]
  BY <1>2 DEF CallbacksOK
<1>5. Credential(c) \in Credentials
  BY <1>1 DEF Credential, Credentials, Looked, RowsOK
<1>6. /\ Credential(c).provider = p /\ Credential(c).token = c.token
      /\ Credential(c).refresh = c.refresh /\ Credential(c).seal = key
  BY DEF Credential
<1>7. CASE ~(c.id = 0 \/ row[i].provider = p)
  <2>1. UNCHANGED <<row, linked>>
    BY <1>7 DEF Store, Created
  <2>2. RowsOK' /\ Evolves
    BY <1>2, <1>3, <2>1, RowsStay DEF RowsOK
  <2>3. LinkedOK'
    BY <1>3, <1>4, <2>1 DEF LinkedOK, Exists
  <2>4. QED
    BY <2>2, <2>3
<1>8. CASE c.id = 0 \/ row[i].provider = p
  <2>1. /\ row' = [row EXCEPT ![i] = Credential(c)]
        /\ linked' = [linked EXCEPT ![p] = c.token]
    BY <1>8 DEF Store, Created
  <2>2. /\ linked' \in [Providers -> Accounts \cup {None}] /\ linked'[p] = c.token
        /\ \A q \in Providers \ {p} : linked'[q] = linked[q]
    BY <1>1, <2>1 DEF RowsOK
  <2>3. /\ RowsOK' /\ Evolves
        /\ c.id = 0 => row[i] = NoRow
    <3>1. CASE c.id = 0
      BY <1>2, <1>3, <1>5, <2>1, <2>2, <3>1, CreateRow
    <3>2. CASE c.id # 0
      <4>1. row[i].provider = p /\ row[i] # NoRow
        BY <1>1, <1>2, <1>8, <3>2, RowKinds DEF Exists
      <4>2. QED
        BY <1>2, <1>3, <1>5, <1>6, <2>1, <2>2, <3>2, <4>1, RewriteRow
    <3>3. QED
      BY <3>1, <3>2
  <2>4. row'[i] = Credential(c) /\ \A k \in Rows \ {i} : row'[k] = row[k]
    BY <1>2, <2>1 DEF RowsOK
  <2>5. ASSUME races' = {}, NEW k \in Rows \ {i} PROVE row[k].provider # p
    <3>1. races = {}
      BY <1>3, <2>5
    <3>2. CASE c.id = 0
      BY <1>1, <3>1, <3>2 DEF LinkedOK
    <3>3. CASE c.id # 0
      BY <1>1, <1>2, <1>8, <3>1, <3>3 DEF LinkedOK, Exists
    <3>4. QED
      BY <3>2, <3>3
  <2>6. ASSUME races' = {} PROVE
          /\ \A k, l \in Rows : Exists(k)' /\ row'[k].provider = row'[l].provider => k = l
          /\ \A k \in Rows : Exists(k)' =>
               /\ row'[k].token = linked'[row'[k].provider]
               /\ row'[k].refresh \in {None, linked'[row'[k].provider]}
          /\ \A o \in Callbacks : callback'[o].pc = "store" /\ callback'[o].id = 0 =>
               \A k \in Rows : row'[k].provider # callback'[o].provider
    <3>1. races = {}
      BY <1>3, <2>6
    <3>2. \A k \in Rows \ {i} : Exists(k)' <=> Exists(k)
      BY <2>4 DEF Exists
    <3>3. row'[i].provider = p /\ \A k \in Rows \ {i} : row'[k].provider # p
      BY <1>6, <2>4, <2>5, <2>6
    <3>4. \A k, l \in Rows : Exists(k)' /\ row'[k].provider = row'[l].provider => k = l
      <4>1. ASSUME NEW k \in Rows \ {i}, NEW l \in Rows \ {i}, Exists(k)',
                   row'[k].provider = row'[l].provider
            PROVE  k = l
        BY <2>4, <3>1, <3>2, <4>1 DEF LinkedOK
      <4>2. QED
        BY <3>3, <4>1
    <3>5. ASSUME NEW k \in Rows, Exists(k)'
          PROVE  /\ row'[k].token = linked'[row'[k].provider]
                 /\ row'[k].refresh \in {None, linked'[row'[k].provider]}
      <4>1. CASE k = i
        BY <1>1, <1>6, <2>2, <2>4, <4>1
      <4>2. CASE k # i
        <5>1. /\ row'[k] = row[k] /\ Exists(k) /\ row[k].provider \in Providers \ {p}
          BY <2>4, <3>2, <3>3, <3>5, <4>2 DEF Exists
        <5>2. QED
          BY <2>2, <3>1, <5>1 DEF LinkedOK
      <4>3. QED
        BY <4>1, <4>2
    <3>6. ASSUME NEW o \in Callbacks, callback'[o].pc = "store", callback'[o].id = 0,
                 NEW k \in Rows
          PROVE  row'[k].provider # callback'[o].provider
      <4>1. o # b /\ callback'[o] = callback[o] /\ callback[o].provider # p
        BY <1>3, <1>4, <2>6, <3>6
      <4>2. CASE k = i
        BY <3>3, <4>1, <4>2
      <4>3. CASE k # i
        BY <2>4, <3>1, <3>6, <4>1, <4>3 DEF LinkedOK
      <4>4. QED
        BY <4>2, <4>3
    <3>7. QED
      BY <3>4, <3>5, <3>6
  <2>7. LinkedOK'
    BY <2>6 DEF LinkedOK
  <2>8. QED
    BY <2>3, <2>7
<1>9. QED
  BY <1>7, <1>8

(* A row is deleted, or changed without a new connection.                  *)
LEMMA DisconnectStep ==
  ASSUME CallbacksOK, RowsOK, LinkedOK, NEW p \in Providers, Disconnect(p)
  PROVE  RowsOK' /\ LinkedOK' /\ Evolves
<1>1. PICK i \in Rows : /\ row[i].provider = p
                        /\ row' = [row EXCEPT ![i] = Deleted]
                        /\ linked' = [linked EXCEPT ![p] = None]
                        /\ UNCHANGED <<callback, key, snaps, races>>
  BY DEF Disconnect, Connected, oauth, metrics
<1>2. /\ linked' \in [Providers -> Accounts \cup {None}]
      /\ \A q \in Providers \ {p} : linked'[q] = linked[q]
  BY <1>1 DEF RowsOK
<1>3. RowsOK' /\ Evolves
  <2>1. row[i] # NoRow
    BY <1>1, RowKinds DEF Exists
  <2>2. QED
    BY <1>1, <1>2, <2>1, RewriteRow DEF RowsOK
<1>4. /\ row'[i].provider = "deleted" /\ ~Exists(i)'
      /\ \A k \in Rows \ {i} : row'[k] = row[k] /\ (Exists(k)' <=> Exists(k))
  BY <1>1 DEF RowsOK, Deleted, Exists, Providers
<1>5. LinkedOK'
  <2> SUFFICES ASSUME races = {}
               PROVE  /\ \A k, l \in Rows : Exists(k)' /\ row'[k].provider = row'[l].provider => k = l
                      /\ \A k \in Rows : Exists(k)' =>
                           /\ row'[k].token = linked'[row'[k].provider]
                           /\ row'[k].refresh \in {None, linked'[row'[k].provider]}
                      /\ \A o \in Callbacks : callback[o].pc = "store" /\ callback[o].id = 0 =>
                           \A k \in Rows : row'[k].provider # callback[o].provider
    BY <1>1 DEF LinkedOK
  <2>1. \A k, l \in Rows : Exists(k)' /\ row'[k].provider = row'[l].provider => k = l
    BY <1>4 DEF LinkedOK, Exists, Providers
  <2>2. ASSUME NEW k \in Rows, Exists(k)'
        PROVE  /\ row'[k].token = linked'[row'[k].provider]
               /\ row'[k].refresh \in {None, linked'[row'[k].provider]}
    <3>1. k # i /\ row'[k] = row[k] /\ Exists(k)
      BY <1>4, <2>2
    <3>2. row[k].provider \in Providers \ {p}
      BY <1>1, <3>1 DEF LinkedOK, Exists
    <3>3. QED
      BY <1>2, <3>1, <3>2 DEF LinkedOK
  <2>3. ASSUME NEW o \in Callbacks, callback[o].pc = "store", callback[o].id = 0, NEW k \in Rows
        PROVE  row'[k].provider # callback[o].provider
    <3>1. row[k].provider # callback[o].provider /\ row[i].provider # callback[o].provider
      BY <2>3 DEF LinkedOK
    <3>2. CASE k # i
      BY <1>4, <3>1, <3>2
    <3>3. CASE k = i
      <4>1. callback[o].provider \in Providers
        BY <2>3 DEF CallbacksOK, Looked
      <4>2. QED
        BY <1>4, <3>3, <4>1 DEF Providers
    <3>4. QED
      BY <3>2, <3>3
  <2>4. QED
    BY <2>1, <2>2, <2>3
<1>6. QED
  BY <1>3, <1>5

(* A row rewritten for the account it had, by a refresh.                   *)
LEMMA KeepAccount ==
  ASSUME RowsOK, LinkedOK, UNCHANGED <<callback, linked, key, snaps>>,
         races \subseteq races', races' \subseteq {"refresh", "callback"},
         NEW i \in Rows, NEW x \in Credentials, Exists(i), row' = [row EXCEPT ![i] = x],
         x.provider = row[i].provider, x.refresh = row[i].refresh, x.seal = row[i].seal,
         races' = {} => x.token = linked[row[i].provider]
  PROVE  RowsOK' /\ LinkedOK' /\ Evolves
<1>1. RowsOK' /\ Evolves
  <2>1. row[i] # NoRow
    BY RowKinds
  <2>2. QED
    BY <2>1, RewriteRow DEF RowsOK
<1>2. /\ row'[i] = x /\ \A k \in Rows \ {i} : row'[k] = row[k]
      /\ \A k \in Rows : row'[k].provider = row[k].provider /\ (Exists(k)' <=> Exists(k))
  BY DEF RowsOK, Exists
<1>3. races' = {} => races = {}
  OBVIOUS
<1>4. ASSUME races' = {}, NEW k \in Rows, Exists(k)'
      PROVE  /\ row'[k].token = linked[row'[k].provider]
             /\ row'[k].refresh \in {None, linked[row'[k].provider]}
  BY <1>2, <1>3, <1>4 DEF LinkedOK
<1>5. LinkedOK'
  BY <1>2, <1>3, <1>4 DEF LinkedOK
<1>6. QED
  BY <1>1, <1>5

(* A token that expires is still a token of its account.                   *)
LEMMA TokenExpiresStep ==
  ASSUME RowsOK, LinkedOK, NEW i \in Rows, TokenExpires(i)
  PROVE  RowsOK' /\ LinkedOK' /\ Evolves
<1> DEFINE x == [row[i] EXCEPT !.expires = "past"]
<1>1. Exists(i) /\ row[i] \in Credentials
  BY RowKinds DEF TokenExpires, Exists
<1>2. row' = [row EXCEPT ![i] = x] /\ UNCHANGED <<callback, linked, key, snaps, races>>
  BY DEF TokenExpires, RowsOK, oauth, metrics
<1>3. /\ x \in Credentials /\ x.provider = row[i].provider /\ x.refresh = row[i].refresh
      /\ x.seal = row[i].seal /\ x.token = row[i].token
  BY <1>1 DEF Credentials
<1> HIDE DEF x
<1>4. races = {} => x.token = linked[row[i].provider]
  BY <1>1, <1>3 DEF LinkedOK
<1>5. QED
  BY <1>1, <1>2, <1>3, <1>4, KeepAccount DEF RowsOK

(* A refresh writes the token of the account whose refresh token it used;  *)
(* unless the row was reconnected meanwhile that is the connected one.     *)
LEMMA CommitRefreshStep ==
  ASSUME RowsOK, LinkedOK, TasksOK, NEW t \in Tasks, CommitRefresh(t)
  PROVE  RowsOK' /\ LinkedOK' /\ Evolves
<1> DEFINE i == task[t].id
           a == task[t].cred.refresh
<1>1. i \in Rows /\ a \in Accounts /\ a # None /\ UNCHANGED <<callback, linked, key, snaps>>
  BY DEF CommitRefresh, TasksOK, Good, Holding, Credentials, oauth, metrics
<1>2. CASE Exists(i)
  <2>1. PICK exp \in {"never", "later"} :
          row' = [row EXCEPT ![i].token = a, ![i].expires = exp]
    BY <1>2 DEF CommitRefresh
  <2>2. races' = races \cup IF row[i].refresh # a THEN {"refresh"} ELSE {}
    BY <1>2 DEF CommitRefresh
  <2> DEFINE x == [[row[i] EXCEPT !.token = a] EXCEPT !.expires = exp]
  <2>3. row[i] \in Credentials
    BY <1>1, <1>2, RowKinds
  <2>4. row' = [row EXCEPT ![i] = x]
    BY <1>1, <2>1 DEF RowsOK
  <2>5. /\ x \in Credentials /\ x.provider = row[i].provider /\ x.refresh = row[i].refresh
        /\ x.seal = row[i].seal /\ x.token = a
    BY <1>1, <2>3 DEF Credentials
  <2> HIDE DEF x
  <2>6. races' = {} => races = {} /\ row[i].refresh = a
    BY <2>2
  <2>7. races' = {} => x.token = linked[row[i].provider]
    BY <1>1, <1>2, <2>5, <2>6 DEF LinkedOK
  <2>8. races \subseteq races' /\ races' \subseteq {"refresh", "callback"}
    BY <2>2 DEF RowsOK
  <2>9. QED
    BY <1>1, <1>2, <2>4, <2>5, <2>7, <2>8, KeepAccount
<1>3. CASE ~Exists(i)
  <2>1. UNCHANGED <<row, races>>
    BY <1>3 DEF CommitRefresh
  <2>2. RowsOK' /\ Evolves
    BY <1>1, <2>1, RowsStay DEF RowsOK
  <2>3. LinkedOK'
    BY <1>1, <2>1 DEF LinkedOK, Exists
  <2>4. QED
    BY <2>2, <2>3
<1>4. QED
  BY <1>2, <1>3

(* The steps that write none.                                              *)
LEMMA QuietRows ==
  ASSUME RowsOK, LinkedOK, UNCHANGED <<row, linked, key, races>>, snaps \subseteq snaps',
         \A b \in Callbacks : callback'[b].pc = "store" /\ callback'[b].id = 0 =>
           \/ callback'[b] = callback[b]
           \/ \A i \in Rows : row[i].provider # callback'[b].provider
  PROVE  RowsOK' /\ LinkedOK' /\ Evolves
BY DEF RowsOK, LinkedOK, Created, Exists, Evolves

-----------------------------------------------------------------------------
(* The callbacks.                                                          *)

(* The other steps of a callback.                                          *)
LEMMA CallbackSteps ==
  ASSUME CallbacksOK, RowsOK, LinkedOK, NEW b \in Callbacks,
         \/ \E s \in States, p \in Providers : Callback(b, s, p)
         \/ Exchange(b) \/ Find(b)
  PROVE  CallbacksOK' /\ RowsOK' /\ LinkedOK' /\ Evolves
<1> DEFINE OK(x) == /\ \/ x \in [pc : {"new", "over"}] \/ x \in [pc : {"exchange"}, provider : Providers]
                       \/ x \in Replied \/ x \in Looked
                    /\ x.pc = "find" => x \in Replied
                    /\ x.pc = "store" => x \in Looked
                    /\ x.pc \in {"find", "store"} => x.refresh \in {None, x.token}
<1>1. ASSUME NEW x, OK(x), callback' = [callback EXCEPT ![b] = x] PROVE CallbacksOK'
  BY <1>1 DEF CallbacksOK
<1>2. UNCHANGED <<row, linked, key, races, snaps>>
  BY DEF Callback, Exchange, Find, metrics
<1>3. ASSUME NEW s \in States, NEW p \in Providers, Callback(b, s, p)
      PROVE  CallbacksOK' /\ callback'[b].pc # "store"
  <2>1. PICK x \in {[pc |-> "exchange", provider |-> p], [pc |-> "over"]} :
          callback' = [callback EXCEPT ![b] = x]
    BY <1>3 DEF Callback
  <2>2. OK(x) /\ x.pc # "store"
    OBVIOUS
  <2>3. QED
    BY <1>1, <2>1, <2>2 DEF CallbacksOK
<1>4. ASSUME Exchange(b) PROVE CallbacksOK' /\ callback'[b].pc # "store"
  <2>1. callback[b] \in [pc : {"exchange"}, provider : Providers]
    BY <1>4 DEF Exchange, CallbacksOK, Replied, Looked
  <2>2. CASE callback' = [callback EXCEPT ![b] = [pc |-> "over"]]
    <3>1. OK([pc |-> "over"])
      OBVIOUS
    <3>2. QED
      BY <1>1, <2>2, <3>1 DEF CallbacksOK
  <2>3. CASE \E a \in Accounts, exp \in {"never", "later"} : \E refresh \in {a, None} :
               callback' = [callback EXCEPT ![b] =
                 [pc |-> "find", provider |-> callback[b].provider, token |-> a,
                  refresh |-> refresh, expires |-> exp]]
    <3>1. PICK a \in Accounts, exp \in {"never", "later"}, refresh \in Accounts \cup {None} :
            /\ refresh \in {a, None}
            /\ callback' = [callback EXCEPT ![b] =
                 [pc |-> "find", provider |-> callback[b].provider, token |-> a,
                  refresh |-> refresh, expires |-> exp]]
      BY <2>3
    <3> DEFINE x == [pc |-> "find", provider |-> callback[b].provider, token |-> a,
                     refresh |-> refresh, expires |-> exp]
    <3>2. x \in Replied /\ x.pc = "find" /\ x.refresh \in {None, x.token}
      BY <2>1, <3>1 DEF Replied
    <3>3. callback' = [callback EXCEPT ![b] = x]
      BY <3>1
    <3> HIDE DEF x
    <3>4. QED
      BY <1>1, <3>2, <3>3 DEF CallbacksOK
  <2>4. QED
    BY <1>4, <2>2, <2>3 DEF Exchange, CallbacksOK
<1>5. ASSUME Find(b)
      PROVE  /\ CallbacksOK'
             /\ callback'[b].id = 0 => \A i \in Rows : row[i].provider # callback'[b].provider
  <2> DEFINE c == callback[b]
  <2>1. c \in Replied /\ c.refresh \in {None, c.token}
    BY <1>5 DEF Find, CallbacksOK
  <2>2. PICK id \in IF Connected(c.provider) = {} THEN {0} ELSE Connected(c.provider) :
          callback' = [callback EXCEPT ![b] =
            [pc |-> "store", provider |-> c.provider, token |-> c.token,
             refresh |-> c.refresh, expires |-> c.expires, id |-> id]]
    BY <1>5 DEF Find, CallbacksOK
  <2> DEFINE x == [pc |-> "store", provider |-> c.provider, token |-> c.token,
                   refresh |-> c.refresh, expires |-> c.expires, id |-> id]
  <2>3. id \in Rows \cup {0}
    BY DEF Connected
  <2>4. x \in Looked /\ x.pc = "store" /\ x.refresh \in {None, x.token}
        /\ x.id = id /\ x.provider = c.provider
    BY <2>1, <2>3 DEF Replied, Looked
  <2>5. callback' = [callback EXCEPT ![b] = x]
    BY <2>2
  <2> HIDE DEF x
  <2>6. CallbacksOK' /\ callback'[b] = x
    BY <1>1, <2>4, <2>5 DEF CallbacksOK
  <2>7. ASSUME id = 0, NEW i \in Rows PROVE row[i].provider # c.provider
    <3>1. 0 \notin Connected(c.provider)
      <4>1. 0 \notin Created
        BY DEF RowsOK
      <4>2. c.provider # "none"
        BY <2>1 DEF Replied, Providers
      <4>3. QED
        BY <4>1, <4>2 DEF Created, Connected, NoRow, None
    <3>2. QED
      BY <2>2, <2>7, <3>1 DEF Connected
  <2>8. QED
    BY <2>4, <2>6, <2>7
<1>6. \A o \in Callbacks \ {b} : callback'[o] = callback[o]
  BY DEF Callback, Exchange, Find, CallbacksOK
<1>7. CallbacksOK'
  BY <1>3, <1>4, <1>5
<1>8. \A o \in Callbacks : callback'[o].pc = "store" /\ callback'[o].id = 0 =>
        \/ callback'[o] = callback[o]
        \/ \A i \in Rows : row[i].provider # callback'[o].provider
  BY <1>3, <1>4, <1>5, <1>6
<1>9. QED
  BY <1>2, <1>7, <1>8, QuietRows

-----------------------------------------------------------------------------
(* The tasks.                                                              *)

(* The task goes on with a record that is in order, and is not about to    *)
(* write.                                                                  *)
GoesOn(t) == \E x \in TaskRecords :
               Good(x) /\ x.pc # "write" /\ task' = [task EXCEPT ![t] = x]

LEMMA StartBatchGoesOn ==
  ASSUME TasksOK, HistoryOK, NEW t \in Tasks, StartBatch(t)
  PROVE  GoesOn(t)
<1> DEFINE f == [c \in Cuts |-> {views[c]}]
           x == [task[t] EXCEPT !.pc = "next", !.kind = "batch", !.todo = Cuts, !.seen = f]
<1>1. task[t] \in TaskRecords
  BY DEF TasksOK
<1>2. task' = [task EXCEPT ![t] = x]
  BY DEF StartBatch, TasksOK
<1>3. f \in [Cuts -> SUBSET (Views \cup {0})] /\ \A c \in Cuts : f[c] \subseteq {0} \cup Reported(c)
  BY DEF HistoryOK
<1> HIDE DEF f
<1>4. x \in TaskRecords /\ x.pc = "next" /\ x.seen = f
  BY <1>1, <1>3 DEF TaskRecords, TaskPC
<1> HIDE DEF x
<1>5. Good(x)
  BY <1>3, <1>4 DEF Good, Busy, Holding
<1>6. QED
  BY <1>2, <1>4, <1>5 DEF GoesOn

LEMMA NextCutGoesOn ==
  ASSUME TasksOK, HistoryOK, NEW t \in Tasks, NextCut(t)
  PROVE  GoesOn(t)
<1>1. task[t] \in TaskRecords /\ Good(task[t])
  BY DEF TasksOK
<1>2. CASE task[t].todo = {}
  <2>1. task' = [task EXCEPT ![t] = Ended]
    BY <1>2 DEF NextCut, End
  <2>2. Good(Ended) /\ Ended \in TaskRecords /\ Ended.pc # "write"
    BY DoneIsGood DEF Ended, NewTask, Good
  <2>3. QED
    BY <2>1, <2>2 DEF GoesOn
<1>3. ASSUME NEW c \in task[t].todo,
             task' = [task EXCEPT ![t].pc = "credential", ![t].cut = c, ![t].todo = @ \ {c},
                        ![t].seen[c] = IF @ = {} THEN {views[c]} ELSE @]
      PROVE  GoesOn(t)
  <2> DEFINE s == task[t].seen
             f == [s EXCEPT ![c] = IF s[c] = {} THEN {views[c]} ELSE s[c]]
             x == [task[t] EXCEPT !.pc = "credential", !.cut = c, !.todo = task[t].todo \ {c},
                                  !.seen = f]
  <2>1. task' = [task EXCEPT ![t] = x]
    BY <1>1, <1>3 DEF TasksOK, TaskRecords
  <2>2. c \in Cuts /\ s \in [Cuts -> SUBSET (Views \cup {0})] /\ views[c] \in Views \cup {0}
    BY <1>1 DEF TaskRecords, HistoryOK
  <2>3. \A d \in Cuts : s[d] \subseteq {0} \cup Reported(d)
    BY <1>1 DEF Good
  <2>4. views[c] \in {0} \cup Reported(c)
    BY <2>2 DEF HistoryOK
  <2> HIDE DEF s
  <2>5. /\ f \in [Cuts -> SUBSET (Views \cup {0})]
        /\ \A d \in Cuts : f[d] \subseteq {0} \cup Reported(d)
    BY <2>2, <2>3, <2>4
  <2> HIDE DEF f
  <2>6. x \in TaskRecords /\ x.pc = "credential" /\ x.cut = c /\ x.seen = f
    BY <1>1, <2>2, <2>5 DEF TaskRecords, TaskPC
  <2> HIDE DEF x
  <2>7. Good(x)
    BY <2>2, <2>5, <2>6 DEF Good, Busy, Holding
  <2>8. QED
    BY <2>1, <2>6, <2>7 DEF GoesOn
<1>4. QED
  BY <1>2, <1>3 DEF NextCut

LEMMA StartUploadGoesOn ==
  ASSUME TasksOK, NEW t \in Tasks, StartUpload(t)
  PROVE  GoesOn(t)
<1>1. task[t] \in TaskRecords /\ \A c \in Cuts : task[t].seen[c] \subseteq {0} \cup Reported(c)
  BY DEF TasksOK, Good
<1>2. PICK c \in Cuts :
        task' = [task EXCEPT ![t].pc = "credential", ![t].kind = "upload", ![t].cut = c]
  BY DEF StartUpload
<1> DEFINE x == [task[t] EXCEPT !.pc = "credential", !.kind = "upload", !.cut = c]
<1>3. task' = [task EXCEPT ![t] = x]
  BY <1>2 DEF TasksOK
<1>4. x \in TaskRecords /\ x.pc = "credential" /\ x.cut = c /\ x.seen = task[t].seen
  BY <1>1 DEF TaskRecords, TaskPC
<1> HIDE DEF x
<1>5. Good(x)
  BY <1>1, <1>4 DEF Good, Busy, Holding
<1>6. QED
  BY <1>3, <1>4, <1>5 DEF GoesOn

LEMMA EndCutGoesOn ==
  ASSUME TasksOK, NEW t \in Tasks, EndCut(t) \/ End(t)
  PROVE  GoesOn(t)
<1>1. /\ Good(CutDone(t)) /\ CutDone(t) \in TaskRecords /\ CutDone(t).pc # "write"
      /\ Good(Ended) /\ Ended \in TaskRecords /\ Ended.pc # "write"
  <2>1. Ended.pc = "over"
    BY DEF Ended, NewTask
  <2>2. QED
    BY <2>1, DoneIsGood DEF Good
<1>2. QED
  BY <1>1 DEF EndCut, End, GoesOn

LEMMA ReadCredentialGoesOn ==
  ASSUME RowsOK, LinkedOK, TasksOK, NEW t \in Tasks, ReadCredential(t)
  PROVE  GoesOn(t)
<1>1. /\ task[t] \in TaskRecords /\ task[t].cut \in Cuts
      /\ \A c \in Cuts : task[t].seen[c] \subseteq {0} \cup Reported(c)
  BY DEF TasksOK, Good, ReadCredential, Busy
<1>2. ASSUME EndCut(t) PROVE GoesOn(t)
  BY <1>2, EndCutGoesOn
<1>3. ASSUME NEW i \in Connected(ProviderOf[task[t].cut]), Readable(row[i]),
             task' = [task EXCEPT ![t] = IF IsBatch(t) THEN Using(t, i)
                                         ELSE [@ EXCEPT !.id = i, !.pc = "reload"]]
      PROVE  GoesOn(t)
  <2>1. i \in Rows /\ row[i].provider = ProviderOf[task[t].cut] /\ row[i].seal = key
    BY <1>3 DEF Connected, Readable
  <2>2. Exists(i) /\ row[i] # NoRow
    BY <1>1, <2>1, AccountsAssumption, RowKinds DEF Exists
  <2>3. CASE IsBatch(t)
    <3>1. Good(Using(t, i)) /\ Using(t, i).pc # "write" /\ Using(t, i) \in TaskRecords
      BY <1>1, <2>1, UsingIsGood DEF Good
    <3>2. QED
      BY <1>3, <2>3, <3>1 DEF GoesOn
  <2>4. CASE ~IsBatch(t)
    <3> DEFINE x == [task[t] EXCEPT !.id = i, !.pc = "reload"]
    <3>1. task' = [task EXCEPT ![t] = x]
      BY <1>3, <2>4 DEF TasksOK
    <3>2. /\ x \in TaskRecords /\ x.pc = "reload" /\ x.id = i /\ x.cut = task[t].cut
          /\ x.seen = task[t].seen
      BY <1>1, <2>1 DEF TaskRecords, TaskPC
    <3> HIDE DEF x
    <3>3. Good(x)
      BY <1>1, <2>1, <2>2, <3>2 DEF Good, Busy, Holding
    <3>4. QED
      BY <3>1, <3>2, <3>3 DEF GoesOn
  <2>5. QED
    BY <2>3, <2>4
<1>4. QED
  BY <1>2, <1>3 DEF ReadCredential, TasksOK

LEMMA ReloadGoesOn ==
  ASSUME RowsOK, LinkedOK, TasksOK, NEW t \in Tasks, Reload(t)
  PROVE  GoesOn(t)
<1>1. /\ task[t].cut \in Cuts /\ task[t].id \in Rows
      /\ row[task[t].id].provider \in {ProviderOf[task[t].cut], "deleted"}
      /\ Exists(task[t].id) => row[task[t].id].seal = key
  BY DEF TasksOK, Good, Reload, Busy, Holding
<1>2. CASE Exists(task[t].id)
  <2>1. row[task[t].id].provider = ProviderOf[task[t].cut]
    BY <1>1, <1>2 DEF Exists, Providers
  <2>2. /\ Good(Using(t, task[t].id)) /\ Using(t, task[t].id).pc # "write"
        /\ Using(t, task[t].id) \in TaskRecords
    BY <1>1, <1>2, <2>1, UsingIsGood DEF Good
  <2>3. task' = [task EXCEPT ![t] = Using(t, task[t].id)]
    BY <1>2 DEF Reload, TasksOK
  <2>4. QED
    BY <2>2, <2>3 DEF GoesOn
<1>3. CASE ~Exists(task[t].id)
  BY <1>3, EndCutGoesOn DEF Reload
<1>4. QED
  BY <1>2, <1>3

LEMMA RefreshGoesOn ==
  ASSUME TasksOK, NEW t \in Tasks, Refresh(t)
  PROVE  GoesOn(t)
<1>1. CASE EndCut(t)
  BY <1>1, EndCutGoesOn
<1>2. CASE Goto(t, "commit")
  <2> DEFINE x == [task[t] EXCEPT !.pc = "commit"]
  <2>1. task' = [task EXCEPT ![t] = x] /\ task[t] \in TaskRecords /\ Good(task[t])
        /\ task[t].pc = "refresh"
    BY <1>2 DEF Goto, Refresh, TasksOK
  <2>2. /\ x \in TaskRecords /\ x.pc = "commit" /\ x.id = task[t].id /\ x.cut = task[t].cut
        /\ x.cred = task[t].cred /\ x.seen = task[t].seen
    BY <2>1 DEF TaskRecords, TaskPC
  <2> HIDE DEF x
  <2>3. Good(x)
    BY <2>1, <2>2 DEF Good, Busy, Holding
  <2>4. QED
    BY <2>1, <2>2, <2>3 DEF GoesOn
<1>3. QED
  BY <1>1, <1>2 DEF Refresh

LEMMA CommitRefreshGoesOn ==
  ASSUME TasksOK, NEW t \in Tasks, CommitRefresh(t)
  PROVE  GoesOn(t)
<1>1. task[t] \in TaskRecords /\ Good(task[t]) /\ task[t].pc = "commit"
  BY DEF TasksOK, CommitRefresh
<1>2. CASE Exists(task[t].id)
  <2> DEFINE x == [task[t] EXCEPT !.pc = "return", !.seen = Expired]
  <2>1. task' = [task EXCEPT ![t] = x]
    BY <1>2 DEF CommitRefresh, TasksOK
  <2>2. Expired \in [Cuts -> SUBSET (Views \cup {0})] /\ \A c \in Cuts : Expired[c] = {}
    BY DEF Expired
  <2>3. /\ x \in TaskRecords /\ x.pc = "return" /\ x.id = task[t].id /\ x.cut = task[t].cut
        /\ x.seen = Expired
    BY <1>1, <2>2 DEF TaskRecords, TaskPC
  <2> HIDE DEF x
  <2>4. Good(x)
    BY <1>1, <2>2, <2>3 DEF Good, Busy, Holding
  <2>5. QED
    BY <2>1, <2>3, <2>4 DEF GoesOn
<1>3. CASE ~Exists(task[t].id)
  <2> DEFINE p == IF IsBatch(t) THEN "aborted" ELSE Ended.pc
             x == [Ended EXCEPT !.pc = p]
  <2>1. task' = [task EXCEPT ![t] = x]
    BY <1>3 DEF CommitRefresh
  <2>2. Ended \in TaskRecords /\ Ended.pc = "over" /\ Ended.seen = [c \in Cuts |-> {}]
    BY DEF Ended, NewTask, TaskRecords, TaskPC
  <2>3. p \in {"aborted", "over"}
    BY <2>2
  <2> HIDE DEF p
  <2>4. x \in TaskRecords /\ x.pc = p /\ x.seen = [c \in Cuts |-> {}]
    BY <2>2, <2>3 DEF TaskRecords, TaskPC
  <2> HIDE DEF x
  <2>5. Good(x)
    BY <2>3, <2>4 DEF Good, Busy, Holding
  <2>6. QED
    BY <2>1, <2>3, <2>4, <2>5 DEF GoesOn
<1>4. QED
  BY <1>2, <1>3

LEMMA ReturnGoesOn ==
  ASSUME RowsOK, LinkedOK, TasksOK, HistoryOK, NEW t \in Tasks, Return(t)
  PROVE  GoesOn(t)
<1> DEFINE i == task[t].id
           c == task[t].cut
           s == task[t].seen
<1>1. /\ task[t] \in TaskRecords /\ task[t].pc = "return" /\ c \in Cuts /\ i \in Rows
      /\ row[i].provider \in {ProviderOf[c], "deleted"}
      /\ Exists(i) => row[i].seal = key
      /\ \A d \in Cuts : s[d] \subseteq {0} \cup Reported(d)
  BY DEF TasksOK, Good, Return, Busy, Holding
<1>2. CASE ~Exists(i)
  BY <1>2, EndCutGoesOn DEF Return
<1>3. CASE Exists(i)
  <2>1. row[i].provider = ProviderOf[c] /\ row[i] \in Credentials /\ ProviderOf[c] \in Providers
    BY <1>1, <1>3, RowKinds DEF Exists, Providers
  <2>2. /\ linked[ProviderOf[c]] \in Accounts \cup {None}
        /\ races = {} => row[i].token = linked[ProviderOf[c]]
    BY <1>1, <1>3, <2>1 DEF RowsOK, LinkedOK
  <2> DEFINE f == [s EXCEPT ![c] = {views[c]}]
             x == [task[t] EXCEPT !.pc = "send", !.cred = row[i], !.linked = linked[ProviderOf[c]],
                                  !.seen = f]
  <2>3. task' = [task EXCEPT ![t] = x]
    BY <1>1, <1>3 DEF Return, TasksOK, TaskRecords
  <2>4. s \in [Cuts -> SUBSET (Views \cup {0})] /\ views[c] \in Views \cup {0}
        /\ views[c] \in {0} \cup Reported(c)
    BY <1>1 DEF TaskRecords, HistoryOK
  <2> HIDE DEF s, c, i
  <2>5. /\ f \in [Cuts -> SUBSET (Views \cup {0})]
        /\ \A d \in Cuts : f[d] \subseteq {0} \cup Reported(d)
    BY <1>1, <2>4
  <2> HIDE DEF f
  <2>6. /\ x \in TaskRecords /\ x.pc = "send" /\ x.cred = row[i] /\ x.seen = f
        /\ x.linked = linked[ProviderOf[c]] /\ x.cut = task[t].cut
    BY <1>1, <2>1, <2>2, <2>5 DEF TaskRecords, TaskPC
  <2> HIDE DEF x
  <2>7. Good(x)
    BY <1>1, <1>3, <2>2, <2>5, <2>6 DEF Good, Busy, Holding, c
  <2>8. QED
    BY <2>3, <2>6, <2>7 DEF GoesOn
<1>4. QED
  BY <1>2, <1>3

(* A batch's call: what was told is on record before it is written down.   *)
LEMMA SendStep ==
  ASSUME TasksOK, NEW t \in Tasks, Send(t)
  PROVE  \/ GoesOn(t) /\ UNCHANGED replies
         \/ \E x \in TaskRecords :
              /\ Good(x) /\ x.pc = "write" /\ task' = [task EXCEPT ![t] = x]
              /\ x.cut = task[t].cut
              /\ replies' = replies \cup {[batch |-> t, cut |-> x.cut, views |-> x.reply]}
<1> DEFINE c == task[t].cut
           seen == IF ProviderOf[c] = "youtube" THEN task[t].seen ELSE Expired
<1>1. task[t] \in TaskRecords /\ c \in Cuts
      /\ \A d \in Cuts : task[t].seen[d] \subseteq {0} \cup Reported(d)
  BY DEF TasksOK, Good, Send, Busy
<1>2. /\ seen \in [Cuts -> SUBSET (Views \cup {0})]
      /\ \A d \in Cuts : seen[d] \subseteq {0} \cup Reported(d)
  BY <1>1 DEF TaskRecords, Expired
<1>3. CASE /\ UNCHANGED replies
           /\ task' = [task EXCEPT ![t] = IF IsBatch(t) THEN [CutDone(t) EXCEPT !.seen = seen]
                                                       ELSE Ended]
  <2>1. Good(Ended) /\ Ended \in TaskRecords /\ Ended.pc # "write"
    BY DoneIsGood DEF Ended, NewTask, Good
  <2> HIDE DEF seen
  <2> DEFINE x == [CutDone(t) EXCEPT !.seen = seen]
  <2>2. Good(x) /\ x \in TaskRecords
    BY <1>2, DoneIsGood DEF Good
  <2>3. x.pc # "write"
    BY DoneIsGood DEF TaskRecords
  <2> HIDE DEF x
  <2>4. PICK y \in {x, Ended} : task' = [task EXCEPT ![t] = y]
    BY <1>3 DEF x
  <2>5. QED
    BY <1>3, <2>1, <2>2, <2>3, <2>4 DEF GoesOn
<1>4. ASSUME NEW v \in Views \cup {0},
             replies' = replies \cup {[batch |-> t, cut |-> c, views |-> v]},
             task' = [task EXCEPT ![t].pc = "write", ![t].reply = v, ![t].seen = seen]
      PROVE  \E x \in TaskRecords :
               /\ Good(x) /\ x.pc = "write" /\ task' = [task EXCEPT ![t] = x]
               /\ x.cut = task[t].cut
               /\ replies' = replies \cup {[batch |-> t, cut |-> x.cut, views |-> x.reply]}
  <2> HIDE DEF seen
  <2> DEFINE x == [task[t] EXCEPT !.pc = "write", !.reply = v, !.seen = seen]
  <2>1. task' = [task EXCEPT ![t] = x]
    BY <1>4 DEF TasksOK
  <2>2. /\ x \in TaskRecords /\ x.pc = "write" /\ x.cut = c /\ x.reply = v /\ x.seen = seen
    BY <1>1, <1>2 DEF TaskRecords, TaskPC
  <2> HIDE DEF x
  <2>3. Good(x)
    BY <1>1, <1>2, <2>2 DEF Good, Busy, Holding
  <2>4. QED
    BY <1>4, <2>1, <2>2, <2>3
<1>5. QED
  BY <1>3, <1>4 DEF Send

LEMMA WriteGoesOn ==
  ASSUME TasksOK, NEW t \in Tasks, Write(t)
  PROVE  GoesOn(t)
<1> DEFINE x == [CutDone(t) EXCEPT !.seen = Expired]
<1>1. Expired \in [Cuts -> SUBSET (Views \cup {0})] /\ \A c \in Cuts : Expired[c] = {}
  BY DEF Expired
<1>2. Good(x) /\ x \in TaskRecords
  BY <1>1, DoneIsGood DEF Good
<1>3. x.pc # "write"
  BY DoneIsGood DEF TaskRecords
<1>4. QED
  BY <1>2, <1>3 DEF Write, GoesOn

-----------------------------------------------------------------------------
(* The history.                                                            *)

(* A step that records nothing keeps the history, if what a task is about  *)
(* to write is what a platform told it.                                    *)
LEMMA HistoryStays ==
  ASSUME HistoryOK, UNCHANGED <<views, snaps>>, replies \subseteq replies',
         \A t \in Tasks : task'[t].pc = "write" =>
           task'[t] = task[t] \/ Snapshot(t, task[t].reply)' \in replies'
  PROVE  HistoryOK'
BY DEF HistoryOK, Reported, Snapshot

(* The column takes the reading, or keeps one that the history has: it is  *)
(* left out of the UPDATE only when the session had read the very value.   *)
LEMMA WriteStep ==
  ASSUME TasksOK, HistoryOK, NEW t \in Tasks, Write(t)
  PROVE  HistoryOK'
<1>0. PICK c \in Cuts : c = task[t].cut
  BY DEF TasksOK, Good, Write, Busy
<1> DEFINE v == task[t].reply
           new == Snapshot(t, v)
<1>1. c \in Cuts /\ v \in Views \cup {0} /\ task[t].seen[c] \subseteq {0} \cup Reported(c)
      /\ new \in replies
  BY <1>0 DEF TasksOK, Good, Write, Busy, TaskRecords, HistoryOK
<1>2. /\ views' = [views EXCEPT ![c] = IF v = 0 \/ task[t].seen[c] = {v} THEN views[c] ELSE v]
      /\ snaps' = snaps \cup {new} /\ UNCHANGED replies
  BY <1>0 DEF Write, HistoryOK
<1>3. new.cut = c /\ new.views = v
  BY <1>0 DEF Snapshot
<1> HIDE DEF new
<1>4. Reported(c)' = Reported(c) \cup ({v} \ {0})
  BY <1>2, <1>3 DEF Reported
<1>5. \A d \in Cuts \ {c} : Reported(d)' = Reported(d)
  BY <1>2, <1>3 DEF Reported
<1>6. ASSUME NEW d \in Cuts
      PROVE  /\ views'[d] \in Views \cup {0}
             /\ views'[d] \in Reported(d)' \/ (views'[d] = 0 /\ Reported(d)' = {})
  <2>1. views[d] \in Views \cup {0}
        /\ (views[d] \in Reported(d) \/ (views[d] = 0 /\ Reported(d) = {}))
    BY DEF HistoryOK
  <2>2. CASE d # c
    BY <1>2, <1>5, <2>1, <2>2 DEF HistoryOK
  <2>3. CASE d = c /\ v = 0
    BY <1>2, <1>4, <2>1, <2>3 DEF HistoryOK
  <2>4. CASE d = c /\ v # 0 /\ task[t].seen[c] = {v}
    <3>1. v \in Reported(c)
      BY <1>1, <2>4
    <3>2. QED
      BY <1>2, <1>4, <2>1, <2>4, <3>1 DEF HistoryOK
  <2>5. CASE d = c /\ v # 0 /\ task[t].seen[c] # {v}
    BY <1>1, <1>2, <1>4, <2>5 DEF HistoryOK
  <2>6. QED
    BY <2>2, <2>3, <2>4, <2>5
<1>7. views' \in [Cuts -> Views \cup {0}]
  BY <1>1, <1>2 DEF HistoryOK
<1>8. snaps' \subseteq replies'
  BY <1>1, <1>2 DEF HistoryOK
<1>9. ASSUME NEW u \in Tasks, task'[u].pc = "write"
      PROVE  Snapshot(u, task[u].reply)' \in replies'
  <2>1. u # t
    <3>1. PICK x \in TaskRecords : x.pc # "write" /\ task' = [task EXCEPT ![t] = x]
      BY WriteGoesOn DEF GoesOn
    <3>2. QED
      BY <1>9, <3>1 DEF TasksOK
  <2>2. task'[u] = task[u]
    BY <2>1 DEF Write, TasksOK
  <2>3. QED
    BY <1>2, <1>9, <2>2 DEF HistoryOK, Snapshot
<1>10. QED
  BY <1>6, <1>7, <1>8, <1>9 DEF HistoryOK

-----------------------------------------------------------------------------
(* All of it is kept.                                                      *)

(* A step of a task keeps the invariant.                                   *)
LEMMA UseStep ==
  ASSUME UseInv, NEW t \in Tasks, Use(t)
  PROVE  UseInv'
<1> USE DEF UseInv
<1>1. UNCHANGED callback
  BY DEF Use, StartBatch, NextCut, StartUpload, ReadCredential, Reload, Refresh, CommitRefresh,
         Return, Send, Write, oauth
<1>2. CallbacksOK'
  BY <1>1 DEF CallbacksOK
<1>3. RowsOK' /\ LinkedOK' /\ Evolves
  <2>1. CASE CommitRefresh(t)
    BY <2>1, CommitRefreshStep
  <2>2. CASE \/ StartBatch(t) \/ NextCut(t) \/ StartUpload(t) \/ ReadCredential(t) \/ Reload(t)
             \/ Refresh(t) \/ Return(t) \/ Send(t) \/ Write(t)
    <3>1. UNCHANGED <<row, linked, key, races>> /\ snaps \subseteq snaps'
      BY <2>2 DEF StartBatch, NextCut, StartUpload, ReadCredential, Reload, Refresh,
                  Return, Send, Write, metrics
    <3>2. QED
      BY <1>1, <3>1, QuietRows
  <2>3. QED
    BY <2>1, <2>2 DEF Use
<1>4. ASSUME GoesOn(t) PROVE TasksOK'
  BY <1>3, <1>4, TaskChanges DEF GoesOn
<1>5. ASSUME GoesOn(t), UNCHANGED metrics PROVE HistoryOK'
  <2>1. PICK x \in TaskRecords : x.pc # "write" /\ task' = [task EXCEPT ![t] = x]
    BY <1>5 DEF GoesOn
  <2>2. \A u \in Tasks : task'[u].pc = "write" => task'[u] = task[u]
    BY <2>1 DEF TasksOK
  <2>3. QED
    BY <1>5, <2>2, HistoryStays DEF metrics
<1>6. CASE \/ StartBatch(t) \/ NextCut(t) \/ StartUpload(t) \/ ReadCredential(t) \/ Reload(t)
           \/ Refresh(t) \/ CommitRefresh(t) \/ Return(t)
  <2>1. GoesOn(t)
    BY <1>6, StartBatchGoesOn, NextCutGoesOn, StartUploadGoesOn, ReadCredentialGoesOn,
       ReloadGoesOn, RefreshGoesOn, CommitRefreshGoesOn, ReturnGoesOn
  <2>2. UNCHANGED metrics
    BY <1>6 DEF StartBatch, NextCut, StartUpload, ReadCredential, Reload, Refresh, CommitRefresh,
                Return
  <2>3. QED
    BY <1>2, <1>3, <1>4, <1>5, <2>1, <2>2
<1>7. CASE Send(t)
  <2>1. UNCHANGED <<views, snaps>>
    BY <1>7 DEF Send
  <2>2. CASE GoesOn(t) /\ UNCHANGED replies
    BY <1>2, <1>3, <1>4, <1>5, <2>1, <2>2 DEF metrics
  <2>3. ASSUME NEW x \in TaskRecords, Good(x), x.pc = "write", task' = [task EXCEPT ![t] = x],
               replies' = replies \cup {[batch |-> t, cut |-> x.cut, views |-> x.reply]}
        PROVE  UseInv'
    <3>1. TasksOK'
      BY <1>3, <2>3, TaskChanges
    <3>2. ASSUME NEW u \in Tasks
          PROVE  task'[u] = task[u] \/ Snapshot(u, task[u].reply)' \in replies'
      <4>1. CASE u = t
        <5>1. task'[u] = x
          BY <2>3, <4>1 DEF TasksOK
        <5>2. QED
          BY <2>3, <4>1, <5>1 DEF Snapshot
      <4>2. CASE u # t
        BY <2>3, <4>2 DEF TasksOK
      <4>3. QED
        BY <4>1, <4>2
    <3>3. HistoryOK'
      BY <2>1, <2>3, <3>2, HistoryStays
    <3>4. QED
      BY <1>2, <1>3, <3>1, <3>3
  <2>4. QED
    BY <1>7, <2>2, <2>3, SendStep
<1>8. CASE Write(t)
  BY <1>2, <1>3, <1>4, <1>8, WriteGoesOn, WriteStep
<1>9. QED
  BY <1>6, <1>7, <1>8 DEF Use

(* A restart ends every task and callback that is not past or to come.     *)
LEMMA RestartStep ==
  ASSUME UseInv, NEW k \in Keys, Restart(k)
  PROVE  UseInv'
<1> USE DEF UseInv
<1>1. UNCHANGED <<row, linked, races, views, snaps, replies>> /\ key' = k
  BY DEF Restart, metrics
<1>2. callback' = [b \in Callbacks |->
         IF callback[b].pc = "new" THEN callback[b] ELSE [pc |-> "over"]]
  BY DEF Restart
<1>3. \A b \in Callbacks : callback'[b] \in [pc : {"new", "over"}]
  <2> SUFFICES ASSUME NEW b \in Callbacks PROVE callback'[b] \in [pc : {"new", "over"}]
    OBVIOUS
  <2>1. CASE callback[b].pc = "new"
    BY <1>2, <2>1 DEF CallbacksOK, Replied, Looked
  <2>2. CASE callback[b].pc # "new"
    BY <1>2, <2>2
  <2>3. QED
    BY <2>1, <2>2
<1>4. CallbacksOK'
  <2>1. callback' \in [Callbacks -> [pc : {"new", "over"}]]
    BY <1>2, <1>3
  <2>2. QED
    BY <2>1 DEF CallbacksOK
<1>5. RowsOK'
  BY <1>1 DEF RowsOK, Created
<1>6. LinkedOK'
  BY <1>1, <1>3 DEF LinkedOK, Exists
<1>7. [NewTask EXCEPT !.pc = "over"] = Ended
  BY DEF Ended
<1>8. Ended \in TaskRecords /\ Ended.pc = "over" /\ Ended.seen = [c \in Cuts |-> {}]
  BY DEF Ended, NewTask, TaskRecords, TaskPC
<1>9. task' = [t \in Tasks |-> IF task[t].pc \in {"new", "aborted"} THEN task[t] ELSE Ended]
  BY <1>7 DEF Restart
<1>10. TasksOK'
  <2>1. task' \in [Tasks -> TaskRecords]
    BY <1>8, <1>9 DEF TasksOK
  <2>2. ASSUME NEW t \in Tasks PROVE Good(task[t])'
    <3>1. task'[t] \in TaskRecords /\ task'[t].pc \in {"new", "aborted", "over"}
      BY <1>8, <1>9 DEF TasksOK
    <3>2. ASSUME NEW c \in Cuts PROVE task'[t].seen[c] \subseteq {0} \cup Reported(c)'
      <4>1. Reported(c)' = Reported(c)
        BY <1>1 DEF Reported
      <4>2. task'[t].seen[c] \subseteq {0} \cup Reported(c)
        BY <1>8, <1>9 DEF TasksOK, Good
      <4>3. QED
        BY <4>1, <4>2
    <3>3. QED
      BY <3>1, <3>2 DEF Good, Busy, Holding
  <2>3. QED
    BY <2>1, <2>2 DEF TasksOK
<1>11. HistoryOK'
  <2>1. \A t \in Tasks : task'[t].pc # "write"
    BY <1>8, <1>9
  <2>2. QED
    BY <1>1, <2>1, HistoryStays
<1>12. QED
  BY <1>4, <1>5, <1>6, <1>10, <1>11

LEMMA UseInvStep == UseInv /\ [Next]_vars => UseInv'
<1> SUFFICES ASSUME UseInv, [Next]_vars PROVE UseInv'
  OBVIOUS
<1> USE DEF UseInv
<1>1. ASSUME UNCHANGED <<task, metrics>>, Evolves PROVE TasksOK' /\ HistoryOK'
  BY <1>1, TasksStay, HistoryStays DEF metrics
<1>2. ASSUME UNCHANGED callback PROVE CallbacksOK'
  BY <1>2 DEF CallbacksOK
<1>3. ASSUME UNCHANGED <<callback, row, linked, key, races, task, metrics>> PROVE UseInv'
  BY <1>1, <1>2, <1>3, QuietRows DEF metrics
<1>4. CASE UNCHANGED vars
  BY <1>3, <1>4 DEF vars, oauth
<1>5. ASSUME NEW s \in States, TimeOut(s) \/ \E p \in Providers : Authorize(s, p) PROVE UseInv'
  BY <1>3, <1>5 DEF TimeOut, Authorize
<1>6. ASSUME NEW b \in Callbacks,
             \/ \E s \in States, p \in Providers : Callback(b, s, p)
             \/ Exchange(b) \/ Find(b)
      PROVE  UseInv'
  BY <1>1, <1>6, CallbackSteps DEF Callback, Exchange, Find
<1>7. ASSUME NEW b \in Callbacks, Store(b) PROVE UseInv'
  <2>1. CallbacksOK'
    <3>1. callback' = [callback EXCEPT ![b] = [pc |-> "over"]]
      BY <1>7 DEF Store
    <3>2. QED
      BY <3>1 DEF CallbacksOK
  <2>2. QED
    BY <1>1, <1>7, <2>1, StoreStep DEF Store
<1>8. ASSUME NEW p \in Providers, Disconnect(p) PROVE UseInv'
  <2>1. UNCHANGED <<callback, task, metrics>>
    BY <1>8 DEF Disconnect, oauth
  <2>2. QED
    BY <1>1, <1>2, <1>8, <2>1, DisconnectStep
<1>9. ASSUME NEW k \in Keys, Restart(k) PROVE UseInv'
  BY <1>9, RestartStep
<1>10. ASSUME NEW i \in Rows, TokenExpires(i) PROVE UseInv'
  <2>1. UNCHANGED <<callback, task, metrics>>
    BY <1>10 DEF TokenExpires, oauth
  <2>2. QED
    BY <1>1, <1>2, <1>10, <2>1, TokenExpiresStep
<1>11. ASSUME NEW t \in Tasks, Use(t) PROVE UseInv'
  BY <1>11, UseStep
<1>12. QED
  BY <1>4, <1>5, <1>6, <1>7, <1>8, <1>9, <1>10, <1>11 DEF Next, Operator

LEMMA UseInvInit == Init => UseInv
<1> SUFFICES ASSUME Init PROVE UseInv
  OBVIOUS
<1>1. CallbacksOK
  BY DEF Init, CallbacksOK
<1>2. Created = {} /\ RowsOK
  <2>1. Created = {}
    BY DEF Init, Created
  <2>2. Cardinality(Created) = 0
    BY <2>1, FS_EmptySet
  <2>3. Created = 1 .. Cardinality(Created)
    BY <2>1, <2>2
  <2>4. QED
    BY <2>1, <2>2, <2>3 DEF Init, RowsOK
<1>3. LinkedOK
  BY DEF Init, LinkedOK, Exists, NoRow, None, Providers
<1>4. NewTask \in TaskRecords /\ NewTask.pc = "new" /\ NewTask.seen = [c \in Cuts |-> {}]
  BY DEF NewTask, TaskRecords, TaskPC
<1>5. TasksOK
  <2>1. Good(NewTask)
    BY <1>4 DEF Good, Busy, Holding
  <2>2. QED
    BY <1>4, <2>1 DEF Init, TasksOK
<1>6. HistoryOK
  BY <1>4 DEF Init, HistoryOK, Reported
<1>7. QED
  BY <1>1, <1>2, <1>3, <1>5, <1>6 DEF UseInv

(* The inductive invariant of the credentials and their use.               *)
LEMMA UseInvHolds == Spec => []UseInv
BY UseInvInit, UseInvStep, PTL DEF Spec

(* Unless a refresh crossed a reconnection or two callbacks crossed, what  *)
(* a task is about to send is a token, opened under the key it was sealed  *)
(* with, of the account its provider was connected to when it was read:    *)
(* a provider has one row, and every writer of it writes that account's.   *)
THEOREM TheConnectedAccountIsUsed == Spec => []SendsConnectedAccount
<1>1. UseInv => SendsConnectedAccount
  BY DEF UseInv, TasksOK, Good, SendsConnectedAccount, Sent, Opened
<1>2. QED
  BY <1>1, UseInvHolds, PTL

(* The metric history holds only what pulls were told, and the cut shows a *)
(* reading of it as soon as it has one: a value left out of the UPDATE was *)
(* read from the column, so the history had it (tasks/metrics.py).         *)
THEOREM TheHistoryIsRaw == Spec => []HistoryIsRaw
<1>1. UseInv => HistoryIsRaw
  BY DEF UseInv, HistoryOK, HistoryIsRaw, Reported
<1>2. QED
  BY <1>1, UseInvHolds, PTL
=============================================================================
