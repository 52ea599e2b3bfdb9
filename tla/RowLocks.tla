----------------------------- MODULE RowLocks ------------------------------
(***************************************************************************)
(* The transactions of the other modules, statement by statement. There a  *)
(* commit is one step; here it is a program of statements that take row    *)
(* locks in Postgres and keep them until COMMIT, on the rows of one reel   *)
(* (its enrich and generate jobs) and of one of its cuts (a render job and *)
(* the one a router may add).                                              *)
(*                                                                         *)
(* The programs list a transaction's statements in the order they reach    *)
(* the database: a bulk UPDATE (a compare-and-set of Job.status) at once,  *)
(* ORM attributes only when the session is flushed, since it does not      *)
(* autoflush. READ COMMITTED: a statement that waited for a lock           *)
(* sees what the lock's holder committed.                                  *)
(***************************************************************************)
EXTENDS Naturals, Sequences

CONSTANTS
  Workers,   \* processes that run deliveries of a message
  JobOf,     \* [Workers -> Jobs]: whose message
  MaxClaims  \* bound on the claims of each job: nothing is retried or resumed past it

Jobs   == {"enrich", "generate", "render", "rerender"}
Owners == {"reel", "cut"}
Rows   == Jobs \union Owners
Procs  == Workers \union {"reaper", "router"}

ASSUME RowLocksAssumption ==
  /\ JobOf \in [Workers -> Jobs]
  /\ MaxClaims \in [Jobs -> Nat]
  /\ Workers \intersect {"reaper", "router"} = {}

VARIABLES
  db,     \* the committed value of each row
  own,    \* per process, its uncommitted values: a function on some rows
  held,   \* per process, the lock it holds on each row
  txn,    \* per process, the statements its transaction has yet to execute
  phase,  \* where each process is between its transactions
  tok     \* Claim.token of each worker

vars == <<db, own, held, txn, phase, tok>>

JobStatus == {"none", "pending", "running", "done", "failed"}
InFlight  == {"pending", "running"}

(* JOB_IN_FLIGHT: the owner of a job and the state it is in for it.        *)
OwnerOf(j)    == IF j \in {"enrich", "generate"} THEN "reel" ELSE "cut"
OwnerState(j) == CASE j = "enrich"   -> "enriching"
                   [] j = "generate" -> "generating"
                   [] OTHER          -> "rendering"

Init ==
  /\ db = [r \in Rows |->
             CASE r \in {"enrich", "render"}     -> [status |-> "pending", token |-> 0]
               [] r \in {"generate", "rerender"} -> [status |-> "none", token |-> 0]
               [] r = "reel"                     -> "enriching"
               [] r = "cut"                      -> "rendering"]
  /\ own = [p \in Procs |-> << >>]
  /\ held = [p \in Procs |-> [r \in Rows |-> "free"]]
  /\ txn = [p \in Procs |-> << >>]
  /\ phase = [p \in Procs |-> "start"]
  /\ tok = [w \in Workers |-> 0]

-----------------------------------------------------------------------------
(* Statements.                                                             *)

(* No token: a Claim.token is at least 1.                                  *)
Unfenced == 0

(* UPDATE jobs SET status = to WHERE status = from, with or without AND    *)
(* claim_token = t (Unfenced: without). No row: "rollback", or "commit" what *)
(* was written before.                                                     *)
Cas(j, from, to, t, miss) ==
  [op |-> "cas", row |-> j, from |-> from, to |-> to, token |-> t, miss |-> miss]

(* The flush of a changed ORM object, the insert of a Job, and the row     *)
(* that a foreign key of an inserted row refers to (FOR KEY SHARE).        *)
Flush(r, to)  == [op |-> "flush", row |-> r, to |-> to]
Touch(r)      == [op |-> "touch", row |-> r]
Insert(j)     == [op |-> "insert", row |-> j]
Refer(r)      == [op |-> "refer", row |-> r]

(* rollback_owner: SELECT .. FOR UPDATE, then "failed" if the row is still *)
(* in the state the job put it in.                                         *)
FreeOwner(j)  == [op |-> "free", row |-> OwnerOf(j), from |-> OwnerState(j)]

(* SELECT .. FOR UPDATE and the guards of a route.                         *)
Guard(r, allowed) == [op |-> "guard", row |-> r, from |-> allowed]

(* COMMIT, after which the process is in phase ph.                         *)
Commit(ph) == [op |-> "commit", to |-> ph]

-----------------------------------------------------------------------------
(* Transactions.                                                           *)

Claim(j) == <<Cas(j, "pending", "running", Unfenced, "rollback"), Commit("claimed")>>

(* heartbeat(): the compare-and-set, then the flush of what the body wrote *)
(* to the reel since the last commit (enriched_context).                   *)
Heartbeat(j, t) ==
  <<Cas(j, "running", "running", t, "rollback"), Touch(OwnerOf(j)), Commit("claimed")>>

(* record_stage inserts a StageEvent that refers to the reel, in a render  *)
(* to the cut as well.                                                     *)
RecordStage(j) ==
  IF j \in {"render", "rerender"}
    THEN <<Refer("reel"), Refer("cut"), Commit("claimed")>>
    ELSE <<Refer("reel"), Commit("claimed")>>

(* Mutant: enrich_context's last transaction without lock_job.             *)
HandOverUnlocked(t) ==
  <<Flush("reel", "generating"), Insert("generate"), Refer("reel"),
    Cas("enrich", "running", "done", t, "rollback"), Commit("committed")>>

(* enrich_context's last transaction: lock_job, the flush that gives the   *)
(* generate job its id, and job_task's done-stamp.                         *)
HandOver(t) ==
  <<Cas("enrich", "running", "running", t, "rollback"),
    Flush("reel", "generating"), Insert("generate"), Refer("reel"),
    Cas("enrich", "running", "done", t, "rollback"), Commit("committed")>>

(* The done-stamp of the other bodies: the job first, the reel and the     *)
(* cuts when the commit flushes them.                                      *)
DoneStamp(j, t) ==
  IF j = "generate"
    THEN <<Cas(j, "running", "done", t, "rollback"),
           Flush("reel", "guide_ready"), Touch("cut"), Commit("over")>>
    ELSE <<Cas(j, "running", "done", t, "rollback"),
           Flush("cut", "in_review"), Commit("over")>>

(* _fail_job, fenced by the token or, for a job never claimed, unfenced.   *)
FailJob(j, from, t) ==
  <<Cas(j, from, "failed", t, "rollback"), FreeOwner(j), Commit("over")>>

(* _settle_failure's reset before a retry.                                 *)
ResetForRetry(j, t) == <<Cas(j, "running", "pending", t, "rollback"), Commit("start")>>

(* Mutant: _abandon_generate frees the reel and leaves the generate job.   *)
AbandonReel ==
  <<Cas("enrich", "done", "failed", Unfenced, "rollback"), FreeOwner("generate"), Commit("over")>>

(* after_commit failed: enrich is done -> failed, _abandon_generate fails  *)
(* the generate job and frees the reel unless a worker took the job.       *)
Abandon ==
  <<Cas("enrich", "done", "failed", Unfenced, "rollback"),
    Cas("generate", "pending", "failed", Unfenced, "commit"),
    FreeOwner("generate"), Commit("over")>>

(* trigger_render: the cut is locked and checked, then flushed with the    *)
(* new Job, which refers to the reel and the cut.                          *)
TriggerRender ==
  <<Guard("cut", {"failed", "draft", "in_review"}), Flush("cut", "rendering"),
    Insert("rerender"), Refer("reel"), Refer("cut"), Commit("sent")>>

(* The reaper: _reap_one's two transactions for a job.                     *)
ReapResume(j)     == <<Cas(j, "running", "pending", Unfenced, "rollback"), Commit("start")>>
ReapFail(j, from) ==
  <<Cas(j, from, "failed", Unfenced, "rollback"), FreeOwner(j), Commit("start")>>

-----------------------------------------------------------------------------
(* Locks.                                                                  *)

(* The lock a statement takes: inserting a row takes one that nobody else  *)
(* can ask for, because nobody else sees the row before the commit.        *)
ModeOf(s) == CASE s.op \in {"free", "guard"} -> "update"
               [] s.op = "refer"             -> "share"
               [] OTHER                      -> "nokey"

(* FOR UPDATE excludes everything, a plain UPDATE all but FOR KEY SHARE.   *)
Conflict(m, n) ==
  /\ "free" \notin {m, n}
  /\ "update" \in {m, n} \/ (m = "nokey" /\ n = "nokey")

(* What a holder of m holds after a statement that takes n.                *)
Stronger(m, n) == IF n = "update" \/ m \in {"free", "share"} THEN n ELSE m

Running(p) == txn[p] # << >>
Next1(p)   == Head(txn[p])

(* Does an UPDATE see the row at all?                                      *)
Visible(p, r) ==
  \/ r \in Owners
  \/ r \in DOMAIN own[p]
  \/ db[r].status # "none"

NeedsLock(p) ==
  /\ Running(p) /\ Next1(p).op \notin {"commit", "insert"}
  /\ Visible(p, Next1(p).row)

(* The processes whose locks p's next statement waits for.                 *)
Blockers(p) ==
  IF ~NeedsLock(p) THEN {}
  ELSE {q \in Procs \ {p} : Conflict(ModeOf(Next1(p)), held[q][Next1(p).row])}

(* What p reads: its own uncommitted value or the committed one.           *)
Value(p, r) == IF r \in DOMAIN own[p] THEN own[p][r] ELSE db[r]

-----------------------------------------------------------------------------
(* Executing a statement.                                                  *)

(* The rows that u writes, over those of f.                                *)
Over(u, f) ==
  [r \in DOMAIN u \union DOMAIN f |-> IF r \in DOMAIN u THEN u[r] ELSE f[r]]

(* Writes: to the row of statement s, or to none.                          *)
Writing(s, v) == [r \in {s.row} |-> v]
NoWrite      == << >>

(* p takes the lock of statement s, writes what u says and goes on.        *)
Take(p, s, u) ==
  /\ held' = [held EXCEPT ![p][s.row] = Stronger(@, ModeOf(s))]
  /\ own' = [own EXCEPT ![p] = Over(u, @)]
  /\ txn' = [txn EXCEPT ![p] = Tail(@)]
  /\ UNCHANGED <<db, phase, tok>>

(* ROLLBACK: what is not committed is gone and so are the locks.           *)
RollBack(p, ph) ==
  /\ held' = [held EXCEPT ![p] = [r \in Rows |-> "free"]]
  /\ own' = [own EXCEPT ![p] = << >>]
  /\ txn' = [txn EXCEPT ![p] = << >>]
  /\ phase' = [phase EXCEPT ![p] = ph]
  /\ UNCHANGED <<db, tok>>

(* A compare-and-set is evaluated on the row as it is once it has the      *)
(* lock. The reaper goes on to its next candidate, others end.             *)
CompareAndSet(p) ==
  /\ Running(p) /\ Next1(p).op = "cas" /\ Blockers(p) = {}
  /\ LET s == Next1(p)
         v == Value(p, s.row)
         matches == v.status = s.from /\ s.token \in {Unfenced, v.token}
         next == [status |-> s.to,
                  token |-> IF s.from = "pending" /\ s.to = "running" THEN v.token + 1
                                                                     ELSE v.token]
     IN  \/ matches /\ Take(p, s, Writing(s, next))
         \/ ~matches /\ s.miss = "rollback"
              /\ RollBack(p, IF p = "reaper" THEN "start" ELSE "over")
         \/ ~matches /\ s.miss = "commit"
              /\ txn' = [txn EXCEPT ![p] = <<Commit("over")>>]
              /\ UNCHANGED <<db, own, held, phase, tok>>

(* A flush or a foreign key check.                                         *)
Write(p) ==
  /\ Running(p) /\ Next1(p).op \in {"flush", "touch", "refer"} /\ Blockers(p) = {}
  /\ LET s == Next1(p)
     IN  Take(p, s, IF s.op = "flush" THEN Writing(s, s.to) ELSE NoWrite)

InsertJob(p) ==
  /\ Running(p) /\ Next1(p).op = "insert"
  /\ Take(p, Next1(p), Writing(Next1(p), [status |-> "pending", token |-> 0]))

Free(p) ==
  /\ Running(p) /\ Next1(p).op = "free" /\ Blockers(p) = {}
  /\ LET s == Next1(p)
     IN  Take(p, s, IF Value(p, s.row) = s.from THEN Writing(s, "failed") ELSE NoWrite)

CheckGuard(p) ==
  /\ Running(p) /\ Next1(p).op = "guard" /\ Blockers(p) = {}
  /\ LET s == Next1(p)
     IN  IF Value(p, s.row) \in s.from THEN Take(p, s, NoWrite) ELSE RollBack(p, "over")

(* The commit of a claim is followed by the refresh that captures its      *)
(* token.                                                                  *)
CommitTxn(p) ==
  /\ Running(p) /\ Next1(p).op = "commit"
  /\ db' = Over(own[p], db)
  /\ held' = [held EXCEPT ![p] = [r \in Rows |-> "free"]]
  /\ own' = [own EXCEPT ![p] = << >>]
  /\ txn' = [txn EXCEPT ![p] = << >>]
  /\ phase' = [phase EXCEPT ![p] = Next1(p).to]
  /\ tok' = IF p \in Workers /\ phase[p] = "start"
              THEN [tok EXCEPT ![p] = db'[JobOf[p]].token] ELSE tok

(* A statement or the commit fails, or the process dies: it is where it    *)
(* was before the transaction, and may do nothing more or something else.  *)
Abort(p) == Running(p) /\ RollBack(p, phase[p])

-----------------------------------------------------------------------------
(* Who may begin which transaction.                                        *)

Begin(p, program) ==
  /\ ~Running(p)
  /\ txn' = [txn EXCEPT ![p] = program]
  /\ UNCHANGED <<db, own, held, phase, tok>>

Work(w) ==
  LET j == JobOf[w]
      t == tok[w]
  IN  \/ phase[w] = "start" /\ db[j].status = "pending" /\ db[j].token < MaxClaims[j]
          /\ Begin(w, Claim(j))
      \/ phase[w] = "claimed"
          /\ \E x \in {Heartbeat(j, t), RecordStage(j), FailJob(j, "running", t),
                       IF j = "enrich" THEN HandOver(t) ELSE DoneStamp(j, t)} :
               Begin(w, x)
      \/ phase[w] = "claimed" /\ j # "enrich" /\ Begin(w, ResetForRetry(j, t))
      \/ phase[w] = "committed" /\ Begin(w, Abandon)

Route ==
  \/ phase["router"] = "start" /\ Begin("router", TriggerRender)
  \/ phase["router"] = "sent" /\ Begin("router", FailJob("rerender", "pending", Unfenced))

Reap == \E j \in Jobs :
  \/ j # "enrich" /\ db[j].status = "running" /\ db[j].token < MaxClaims[j]
       /\ Begin("reaper", ReapResume(j))
  \/ db[j].status \in InFlight /\ Begin("reaper", ReapFail(j, db[j].status))

Next ==
  \/ \E p \in Procs : \/ CompareAndSet(p) \/ Write(p) \/ InsertJob(p) \/ Free(p)
                      \/ CheckGuard(p) \/ CommitTxn(p) \/ Abort(p)
  \/ \E w \in Workers : Work(w)
  \/ Route \/ Reap

Spec == Init /\ [][Next]_vars

-----------------------------------------------------------------------------
(* Properties.                                                             *)

(* No set of transactions waits for each other: a body that locked its     *)
(* reel before its job would meet the reaper, which takes the job first    *)
(* (lock_job), and Postgres would kill one of the two.                     *)
NoDeadlock ==
  \A S \in SUBSET {p \in Procs : Blockers(p) # {}} :
    S # {} => \E p \in S : Blockers(p) \intersect S = {}

(* What is committed agrees: a reel or cut is in the state of a job        *)
(* exactly while that job is pending or running, although owners are       *)
(* written blindly and only their jobs' updates are conditional.           *)
OwnersFollowJobs ==
  \A r \in Owners :
    LET busy == {j \in Jobs : OwnerOf(j) = r /\ db[j].status \in InFlight}
    IN  IF busy = {} THEN db[r] \notin {"enriching", "generating", "rendering"}
                     ELSE \A j \in busy : db[r] = OwnerState(j)

=============================================================================
