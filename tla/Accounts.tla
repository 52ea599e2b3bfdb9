------------------------------ MODULE Accounts ------------------------------
(***************************************************************************)
(* The connected accounts and what uses them: the OAuth states of          *)
(* api/oauth.py, the callback and disconnect routes, the Fernet key of     *)
(* api/crypto.py, get_valid_access_token, publishers and the batches of    *)
(* pull_publish_metrics with their history.                                *)
(*                                                                         *)
(* A token is the account it gives access to. One request is one thread of *)
(* the API process, one batch or upload one task of a worker; each         *)
(* statement that another one can be interleaved with is an action. The    *)
(* cuts are published already, and one metric stands for the three.        *)
(***************************************************************************)
EXTENDS Naturals, FiniteSets

CONSTANTS
  States,       \* tokens that new_state mints
  Callbacks,    \* requests to the callback route
  Tasks,        \* runs of pull_publish_metrics, or of publish_cut from the
                \* credential's lookup on
  Cuts,
  ProviderOf,   \* credential_provider_for_platform of each cut's platform
  Accounts,     \* what the operator can log in to
  Rows,         \* the ids of Credential rows, in order of creation; bounds connects
  Keys,         \* values of CREDENTIALS_KEY, NoKey for none
  NoKey,
  Views         \* readings of the metric

Providers == {"youtube", "instagram"}   \* SUPPORTED_PROVIDERS

ASSUME AccountsAssumption ==
  /\ ProviderOf \in [Cuts -> Providers]
  /\ Rows \subseteq Nat /\ Views \subseteq Nat \ {0}
  /\ NoKey \in Keys

VARIABLES
  states,    \* _pending_states, with the time left of each
  accepted,  \* history: the states that callbacks were let in with
  callback,  \* the requests
  row,       \* the credentials table
  key,       \* CREDENTIALS_KEY of the processes running
  linked,    \* history: the account each provider was last connected to
  task,      \* batches and uploads
  views,     \* Cut.views: the latest reading known, 0 for NULL
  snaps,     \* the CutMetricSnapshot rows
  replies,   \* history: the readings the platforms gave
  races      \* history: which concurrent writes crossed

oauth   == <<states, accepted, callback>>
metrics == <<views, snaps, replies>>
vars    == <<oauth, row, key, linked, task, metrics, races>>

None  == "none"

(* A row that was never created, one that was deleted, and the others.     *)
NoRow   == [provider |-> None]
Deleted == [provider |-> "deleted"]
Connected(p) == {i \in Rows : row[i].provider = p}

CallbackPC == {"new", "exchange", "find", "store", "over"}
TaskPC == {"new", "next", "credential", "reload", "refresh", "commit", "return", "send",
           "write", "over", "aborted"}

NewTask == [pc |-> "new", kind |-> None, todo |-> {}, cut |-> None, id |-> 0, cred |-> NoRow,
            linked |-> None, reply |-> 0, seen |-> [c \in Cuts |-> {}]]

TypeOK ==
  /\ states \in [States -> [provider : Providers \cup {None},
                            left : {"unminted", "time", "none", "gone"}]]
  /\ accepted \in SUBSET [callback : Callbacks, state : States, provider : Providers,
                          minted : Providers \cup {None}, inTime : BOOLEAN]
  /\ \A b \in Callbacks : callback[b].pc \in CallbackPC
  /\ \A i \in Rows : row[i] \in {NoRow, Deleted} \/
       /\ row[i].provider \in Providers /\ row[i].token \in Accounts
       /\ row[i].refresh \in Accounts \cup {None} /\ row[i].seal \in Keys
       /\ row[i].expires \in {"never", "later", "past"}
  /\ \A t \in Tasks : task[t].pc \in TaskPC /\ task[t].todo \subseteq Cuts
  /\ views \in [Cuts -> Views \cup {0}]
  /\ races \subseteq {"refresh", "callback"}

Init ==
  /\ states = [s \in States |-> [provider |-> None, left |-> "unminted"]]
  /\ accepted = {}
  /\ callback = [b \in Callbacks |-> [pc |-> "new"]]
  /\ row = [i \in Rows |-> NoRow]
  /\ key \in Keys
  /\ linked = [p \in Providers |-> None]
  /\ task = [t \in Tasks |-> NewTask]
  /\ snaps = {} /\ replies = {} /\ races = {}
  /\ views = [c \in Cuts |-> 0]

-----------------------------------------------------------------------------
(* OAuth states and the API process.                                       *)

(* _prune_expired_states.                                                  *)
Pruned == [s \in States |->
             IF states[s].left = "none" THEN [states[s] EXCEPT !.left = "gone"] ELSE states[s]]

(* authorize.                                                              *)
Authorize(s, p) ==
  /\ states[s].left = "unminted"
  /\ states' = [Pruned EXCEPT ![s] = [provider |-> p, left |-> "time"]]
  /\ UNCHANGED <<accepted, callback, row, key, linked, task, metrics, races>>

TimeOut(s) ==
  /\ states[s].left = "time"
  /\ states' = [states EXCEPT ![s].left = "none"]
  /\ UNCHANGED <<accepted, callback, row, key, linked, task, metrics, races>>

(* Mutant: the state is looked up, not taken out.                          *)
LookUpState(s) == states' = Pruned

(* consume_state removes it, whoever it was minted for ...                 *)
PopState(s) == states' = [Pruned EXCEPT ![s].left =
                            IF @ = "unminted" THEN @ ELSE "gone"]

(* ... and yields the provider of one that was still there.                *)
Known(s) == IF Pruned[s].left = "time" THEN Pruned[s].provider ELSE None

(* The callback route, called with any code and any state, once or again.  *)
Callback(b, s, p) ==
  /\ callback[b].pc = "new"
  /\ PopState(s)
  /\ IF Known(s) = p
       THEN /\ callback' = [callback EXCEPT ![b] = [pc |-> "exchange", provider |-> p]]
            /\ accepted' = accepted \cup
                 {[callback |-> b, state |-> s, provider |-> p,
                   minted |-> states[s].provider, inTime |-> states[s].left = "time"]}
       ELSE /\ callback' = [callback EXCEPT ![b] = [pc |-> "over"]]
            /\ UNCHANGED accepted
  /\ UNCHANGED <<row, key, linked, task, metrics, races>>

(* exchange_code, and for Instagram the long-lived token and the page's.   *)
Exchange(b) ==
  /\ callback[b].pc = "exchange"
  /\ \/ callback' = [callback EXCEPT ![b] = [pc |-> "over"]]
     \/ \E a \in Accounts, exp \in {"never", "later"} :
          \E refresh \in IF callback[b].provider = "youtube" THEN {a, None} ELSE {None} :
            callback' = [callback EXCEPT ![b] =
              [pc |-> "find", provider |-> @.provider, token |-> a, refresh |-> refresh,
               expires |-> exp]]
  /\ UNCHANGED <<states, accepted, row, key, linked, task, metrics, races>>

(* The provider's row is looked up, without its tokens.                    *)
Find(b) ==
  /\ callback[b].pc = "find"
  /\ LET found == Connected(callback[b].provider)
     IN \E id \in IF found = {} THEN {0} ELSE found :
          callback' = [callback EXCEPT ![b] =
            [pc |-> "store", provider |-> @.provider, token |-> @.token,
             refresh |-> @.refresh, expires |-> @.expires, id |-> id]]
  /\ UNCHANGED <<states, accepted, row, key, linked, task, metrics, races>>

(* Mutant: a reply without a refresh token keeps the one on record.        *)
CredentialKeeping(c) ==
  [provider |-> c.provider, token |-> c.token, expires |-> c.expires, seal |-> key,
   refresh |-> IF c.refresh = None /\ c.id # 0 /\ row[c.id].provider = c.provider
                THEN row[c.id].refresh ELSE c.refresh]

Credential(c) == [provider |-> c.provider, token |-> c.token, refresh |-> c.refresh,
                  expires |-> c.expires, seal |-> key]

(* Every column is replaced and sealed under the present key; a row that   *)
(* went away meanwhile fails the request.                                  *)
Store(b) ==
  LET c == callback[b]
      p == c.provider
      i == IF c.id = 0 THEN 1 + Cardinality({r \in Rows : row[r] # NoRow}) ELSE c.id
  IN  /\ c.pc = "store"
      /\ i \in Rows
      /\ IF c.id = 0 \/ row[i].provider = p
           THEN /\ row' = [row EXCEPT ![i] = Credential(c)]
                /\ linked' = [linked EXCEPT ![p] = c.token]
           ELSE UNCHANGED <<row, linked>>
      /\ races' = races \cup
           IF \E o \in Callbacks \ {b} : callback[o].pc = "store" /\ callback[o].provider = p
             THEN {"callback"} ELSE {}
      /\ callback' = [callback EXCEPT ![b] = [pc |-> "over"]]
      /\ UNCHANGED <<states, accepted, key, task, metrics>>

(* disconnect: one row of the provider is deleted, without its tokens.     *)
Disconnect(p) ==
  \E i \in Connected(p) :
    /\ row' = [row EXCEPT ![i] = Deleted]
    /\ linked' = [linked EXCEPT ![p] = None]
    /\ UNCHANGED <<oauth, key, task, metrics, races>>

(* The processes start again, perhaps with another key: states, requests   *)
(* and tasks are lost.                                                     *)
Restart(k) ==
  /\ key' = k
  /\ states' = [s \in States |->
       IF states[s].left = "unminted" THEN states[s] ELSE [states[s] EXCEPT !.left = "gone"]]
  /\ callback' = [b \in Callbacks |->
       IF callback[b].pc = "new" THEN callback[b] ELSE [pc |-> "over"]]
  /\ task' = [t \in Tasks |->
       IF task[t].pc \in {"new", "aborted"} THEN task[t] ELSE [NewTask EXCEPT !.pc = "over"]]
  /\ UNCHANGED <<accepted, row, linked, metrics, races>>

-----------------------------------------------------------------------------
(* A credential in use.                                                    *)

TokenExpires(i) ==
  /\ row[i].provider \in Providers /\ row[i].expires = "later"
  /\ row' = [row EXCEPT ![i].expires = "past"]
  /\ UNCHANGED <<oauth, key, linked, task, metrics, races>>

(* Mutant: without a key, whatever is stored is taken for a token.         *)
ReadableUnchecked(r) == key \in {NoKey, r.seal}

(* open_ returns the value, or raises when it was sealed under another key, *)
(* was not sealed, or is sealed and there is no key.                       *)
Readable(r) == key = r.seal

(* What a column holds, if open_ lets it through.                          *)
Opened(r, v) == IF r.seal = key THEN v ELSE "ciphertext"

Goto(t, p) == task' = [task EXCEPT ![t].pc = p]

IsBatch(t) == task[t].kind = "batch"

Ended == [NewTask EXCEPT !.pc = "over"]
End(t) == task' = [task EXCEPT ![t] = Ended]

(* One cut is over with: a batch goes on to the next, an upload ends.      *)
CutDone(t) ==
  IF IsBatch(t) THEN [NewTask EXCEPT !.pc = "next", !.kind = "batch",
                                     !.todo = task[t].todo, !.seen = task[t].seen]
                ELSE Ended
EndCut(t) == task' = [task EXCEPT ![t] = CutDone(t)]

(* A commit expires what the session has loaded.                           *)
Expired == [c \in Cuts |-> {}]

(* The batch loads every published cut.                                    *)
StartBatch(t) ==
  /\ task[t].pc = "new"
  /\ task' = [task EXCEPT ![t].pc = "next", ![t].kind = "batch", ![t].todo = Cuts,
                         ![t].seen = [c \in Cuts |-> {views[c]}]]
  /\ UNCHANGED <<oauth, row, key, linked, metrics, races>>

(* _pull_one; a cut that an earlier commit expired is read again.          *)
NextCut(t) ==
  /\ task[t].pc = "next"
  /\ IF task[t].todo = {} THEN End(t)
     ELSE \E c \in task[t].todo :
       task' = [task EXCEPT ![t].pc = "credential", ![t].cut = c, ![t].todo = @ \ {c},
                  ![t].seen[c] = IF @ = {} THEN {views[c]} ELSE @]
  /\ UNCHANGED <<oauth, row, key, linked, metrics, races>>

StartUpload(t) ==
  /\ task[t].pc = "new"
  /\ \E c \in Cuts :
       task' = [task EXCEPT ![t].pc = "credential", ![t].kind = "upload", ![t].cut = c]
  /\ UNCHANGED <<oauth, row, key, linked, metrics, races>>

(* What is done with a credential once it is read: get_valid_access_token   *)
(* for YouTube; Instagram's token is used as it is.                        *)
Using(t, i) ==
  LET expired == row[i].provider = "youtube" /\ row[i].expires = "past"
  IN  IF expired /\ row[i].refresh = None THEN CutDone(t)
      ELSE [task[t] EXCEPT !.id = i, !.cred = row[i], !.linked = linked[row[i].provider],
                           !.pc = IF expired THEN "refresh" ELSE "send"]

(* The provider's first row, decrypted. An upload commits after that.      *)
ReadCredential(t) ==
  LET found == Connected(ProviderOf[task[t].cut])
  IN  /\ task[t].pc = "credential"
      /\ \/ found = {} /\ EndCut(t)
         \/ \E i \in found : ~Readable(row[i]) /\ EndCut(t)
         \/ \E i \in found : Readable(row[i]) /\
              task' = [task EXCEPT ![t] = IF IsBatch(t) THEN Using(t, i)
                                          ELSE [@ EXCEPT !.id = i, !.pc = "reload"]]
      /\ UNCHANGED <<oauth, row, key, linked, metrics, races>>

Exists(i) == row[i].provider \in Providers

(* The commit expired the credential: the publisher reads the row again.   *)
Reload(t) ==
  /\ task[t].pc = "reload"
  /\ IF Exists(task[t].id) THEN task' = [task EXCEPT ![t] = Using(t, @.id)]
                           ELSE End(t)
  /\ UNCHANGED <<oauth, row, key, linked, metrics, races>>

Refresh(t) ==
  /\ task[t].pc = "refresh"
  /\ Goto(t, "commit") \/ EndCut(t)
  /\ UNCHANGED <<oauth, row, key, linked, metrics, races>>

(* Only the access token and its expiry are written. If the row is gone    *)
(* the flush fails, and nothing rolls a batch's session back: its next use *)
(* of it raises.                                                           *)
CommitRefresh(t) ==
  LET i == task[t].id
  IN  /\ task[t].pc = "commit"
      /\ IF Exists(i)
           THEN /\ \E exp \in {"never", "later"} :
                     row' = [row EXCEPT ![i].token = task[t].cred.refresh, ![i].expires = exp]
                /\ races' = races \cup
                     IF row[i].refresh # task[t].cred.refresh THEN {"refresh"} ELSE {}
                /\ task' = [task EXCEPT ![t].pc = "return", ![t].seen = Expired]
           ELSE /\ task' = [task EXCEPT ![t] = [Ended EXCEPT !.pc = IF IsBatch(t) THEN "aborted"
                                                                              ELSE @]]
                /\ UNCHANGED <<row, races>>
      /\ UNCHANGED <<oauth, key, linked, metrics>>

(* The token is read back from the row, and the cut with its post's id.    *)
Return(t) ==
  /\ task[t].pc = "return"
  /\ IF Exists(task[t].id)
       THEN task' = [task EXCEPT ![t].pc = "send", ![t].cred = row[task[t].id],
                       ![t].linked = linked[ProviderOf[task[t].cut]],
                       ![t].seen[task[t].cut] = {views[task[t].cut]}]
       ELSE EndCut(t)
  /\ UNCHANGED <<oauth, row, key, linked, metrics, races>>

(* The platform is called with the token. For a batch it raises, has no    *)
(* data, or gives a reading, in which the metric may be missing (0). The   *)
(* call to Instagram is a recorded stage, whose commit expires the cuts.   *)
Send(t) ==
  LET c == task[t].cut
      seen == IF ProviderOf[c] = "youtube" THEN task[t].seen ELSE Expired
  IN  /\ task[t].pc = "send"
      /\ \/ /\ task' = [task EXCEPT ![t] = IF IsBatch(t) THEN [CutDone(t) EXCEPT !.seen = seen]
                                                        ELSE Ended]
            /\ UNCHANGED replies
         \/ \E v \in Views \cup {0} :
              /\ IsBatch(t)
              /\ replies' = replies \cup {[batch |-> t, cut |-> c, views |-> v]}
              /\ task' = [task EXCEPT ![t].pc = "write", ![t].reply = v, ![t].seen = seen]
      /\ UNCHANGED <<oauth, row, key, linked, views, snaps, races>>

(* What Send sends.                                                        *)
Sent(t) == Opened(task[t].cred, task[t].cred.token)

Snapshot(t, v) == [batch |-> t, cut |-> task[t].cut, views |-> v]

(* Mutant: the history carries the last known value forward.               *)
WriteCarried(t) ==
  LET c == task[t].cut
      v == IF task[t].reply = 0 THEN views[c] ELSE task[t].reply
  IN  /\ task[t].pc = "write"
      /\ views' = [views EXCEPT ![c] = v]
      /\ snaps' = snaps \cup {Snapshot(t, v)}
      /\ task' = [task EXCEPT ![t] = [CutDone(t) EXCEPT !.seen = Expired]]
      /\ UNCHANGED <<oauth, row, key, linked, replies, races>>

(* The column takes the reading unless it is missing, or is the value the  *)
(* session loaded (then it is not part of the UPDATE); the snapshot is raw. *)
Write(t) ==
  LET c == task[t].cut
      v == task[t].reply
  IN  /\ task[t].pc = "write"
      /\ views' = [views EXCEPT ![c] = IF v = 0 \/ task[t].seen[c] = {v} THEN @ ELSE v]
      /\ snaps' = snaps \cup {Snapshot(t, v)}
      /\ task' = [task EXCEPT ![t] = [CutDone(t) EXCEPT !.seen = Expired]]
      /\ UNCHANGED <<oauth, row, key, linked, replies, races>>

-----------------------------------------------------------------------------
Operator ==
  \/ \E s \in States, p \in Providers : Authorize(s, p)
  \/ \E s \in States : TimeOut(s)
  \/ \E b \in Callbacks, s \in States, p \in Providers : Callback(b, s, p)
  \/ \E b \in Callbacks : Exchange(b) \/ Find(b) \/ Store(b)
  \/ \E p \in Providers : Disconnect(p)
  \/ \E k \in Keys : Restart(k)

Use(t) ==
  \/ StartBatch(t) \/ NextCut(t) \/ StartUpload(t) \/ ReadCredential(t) \/ Reload(t)
  \/ Refresh(t) \/ CommitRefresh(t) \/ Return(t) \/ Send(t) \/ Write(t)

Next ==
  \/ Operator
  \/ \E i \in Rows : TokenExpires(i)
  \/ \E t \in Tasks : Use(t)

Spec == Init /\ [][Next]_vars

-----------------------------------------------------------------------------
(* An OAuth state lets one callback in, for the provider it was minted     *)
(* for, within its ten minutes, however often and wherever the browser     *)
(* brings it ("Validate + consume a CSRF state token once").               *)
StateUsedOnce ==
  \A x \in accepted :
    /\ x.minted = x.provider /\ x.inTime
    /\ \A y \in accepted : y.state = x.state => y = x

(* What is about to be sent to a platform is a token, never a sealed value, *)
(* and of the account its provider was connected to when it was read, through *)
(* refreshes, reconnections to another account and changes of the key. Two *)
(* crossings excepted: a refresh that commits over a reconnection (the     *)
(* token written belongs to the account before), and two callbacks that    *)
(* both look the row up before either stores it (there may be two rows).   *)
SendsConnectedAccount ==
  races # {} \/ \A t \in Tasks : task[t].pc = "send" => Sent(t) = task[t].linked

(* Every snapshot is what one pull was told, missing readings included     *)
(* ("must not fabricate a history data point"); the cut shows a reading of *)
(* its history, and shows one as soon as the history has one, also when    *)
(* two batches overlap.                                                    *)
HistoryIsRaw ==
  /\ snaps \subseteq replies
  /\ \A c \in Cuts :
       LET known == {s.views : s \in {s \in snaps : s.cut = c}} \ {0}
       IN  IF known = {} THEN views[c] = 0 ELSE views[c] \in known

(* "A fetch failure for one cut is logged and skipped so it doesn't abort  *)
(* the rest of the batch."                                                 *)
BatchGoesOn == \A t \in Tasks : task[t].pc # "aborted"
=============================================================================
