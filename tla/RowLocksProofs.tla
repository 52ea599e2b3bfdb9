--------------------------- MODULE RowLocksProofs ----------------------------
(***************************************************************************)
(* Theorems about RowLocks, for any workers and any jobs they deliver: no  *)
(* set of transactions waits for each other, and what is committed agrees. *)
(*                                                                         *)
(* The inductive invariant says where in its program each transaction is:  *)
(* which locks it holds, which rows it has written and which statements    *)
(* are left (Stage). What a transaction read of a row stays true while it  *)
(* holds that row's lock, because locks exclude each other (Exclusive) and *)
(* a commit writes only rows its process holds.                            *)
(***************************************************************************)
EXTENDS RowLocks, TLAPS

Modes  == {"free", "share", "nokey", "update"}
Phases == {"start", "claimed", "committed", "over", "sent"}

(* The status in which a job of an owner keeps nobody busy.                *)
Settled == {"done", "failed"}

(* The states of an owner that no job is in flight for.                    *)
IdleReel == {"guide_ready", "failed"}
IdleCut  == {"in_review", "failed", "draft"}

Types ==
  /\ DOMAIN db = Rows
  /\ \A j \in Jobs : db[j].status \in JobStatus
  /\ db["reel"] \in {"enriching", "generating"} \union IdleReel
  /\ db["cut"] \in {"rendering"} \union IdleCut
  /\ DOMAIN own = Procs /\ DOMAIN txn = Procs
  /\ held \in [Procs -> [Rows -> Modes]]
  /\ phase \in [Procs -> Phases]

-----------------------------------------------------------------------------
(* Stages.                                                                 *)

(* p holds the rows of J and, in these modes, the reel and the cut; it has *)
(* written the rows of D, and the statements of rest are left.             *)
At(p, J, reel, cut, D, rest) ==
  /\ \A r \in Rows : held[p][r] = IF r \in J THEN "nokey"
                                  ELSE IF r = "reel" THEN reel
                                  ELSE IF r = "cut" THEN cut ELSE "free"
  /\ DOMAIN own[p] = D
  /\ txn[p] = rest

(* What p has written to an owner, and to a job's status.                  *)
Wrote(p, r, V)    == r \in DOMAIN own[p] /\ own[p][r] \in V
WroteJob(p, j, V) == j \in DOMAIN own[p] /\ own[p][j].status \in V

(* A router that has sent its job does not start over.                     *)
Ends(p, ph) == p = "router" => ph # "start"

Resting(p) == At(p, {}, "free", "free", {}, << >>)

(* The programs of Work, Route and Reap.                                   *)
RouterProgram(p, prog) ==
  /\ p = "router"
  /\ \/ phase[p] = "start" /\ prog = TriggerRender
     \/ phase[p] # "start" /\ prog = FailJob("rerender", "pending", Unfenced)

WorkerProgram(p, prog, j, t) ==
  /\ p # "router"
  /\ \/ prog = Claim(j)
     \/ prog = Heartbeat(j, t)
     \/ prog = RecordStage(j)
     \/ prog = FailJob(j, "running", t)
     \/ prog = ResetForRetry(j, t)
     \/ j = "enrich" /\ prog = HandOver(t)
     \/ j # "enrich" /\ prog = DoneStamp(j, t)
     \/ prog = Abandon

ReaperProgram(p, prog, j) ==
  /\ p = "reaper"
  /\ \/ prog = ReapResume(j)
     \/ \E from \in InFlight : prog = ReapFail(j, from)

Begun(p) ==
  /\ At(p, {}, "free", "free", {}, txn[p])
  /\ \/ RouterProgram(p, txn[p])
     \/ \E j \in Jobs : \/ \E t : WorkerProgram(p, txn[p], j, t)
                        \/ ReaperProgram(p, txn[p], j)

(* Claim, Heartbeat, ResetForRetry and ReapResume: the job stays in flight.*)
Kept(p, j, ph) ==
  \/ At(p, {j}, "free", "free", {j}, <<Touch(OwnerOf(j)), Commit(ph)>>)
  \/ \E reel, cut \in {"free", "nokey"} : At(p, {j}, reel, cut, {j}, <<Commit(ph)>>)

Keeping(p) == \E j \in Jobs, ph \in Phases :
  /\ Ends(p, ph)
  /\ db[j].status \in InFlight /\ WroteJob(p, j, InFlight)
  /\ Kept(p, j, ph)

(* RecordStage.                                                            *)
Noted(p, ph) ==
  \/ At(p, {}, "share", "free", {}, <<Refer("cut"), Commit(ph)>>)
  \/ \E cut \in {"free", "share"} : At(p, {}, "share", cut, {}, <<Commit(ph)>>)

Noting(p) == \E ph \in Phases : Ends(p, ph) /\ Noted(p, ph)

(* HandOver.                                                               *)
HandLast(t) == Cas("enrich", "running", "done", t, "rollback")

HandOver1(p, t) ==
  /\ WroteJob(p, "enrich", {"running"})
  /\ At(p, {"enrich"}, "free", "free", {"enrich"},
        <<Flush("reel", "generating"), Insert("generate"), Refer("reel"),
          HandLast(t), Commit("committed")>>)

HandOver2(p, t) ==
  /\ WroteJob(p, "enrich", {"running"}) /\ Wrote(p, "reel", {"generating"})
  /\ At(p, {"enrich"}, "nokey", "free", {"enrich", "reel"},
        <<Insert("generate"), Refer("reel"), HandLast(t), Commit("committed")>>)

HandOver3(p, t) ==
  /\ WroteJob(p, "enrich", {"running"}) /\ Wrote(p, "reel", {"generating"})
  /\ WroteJob(p, "generate", {"pending"})
  /\ \/ At(p, {"enrich", "generate"}, "nokey", "free", {"enrich", "reel", "generate"},
           <<Refer("reel"), HandLast(t), Commit("committed")>>)
     \/ At(p, {"enrich", "generate"}, "nokey", "free", {"enrich", "reel", "generate"},
           <<HandLast(t), Commit("committed")>>)

HandOver4(p) ==
  /\ WroteJob(p, "enrich", {"done"}) /\ Wrote(p, "reel", {"generating"})
  /\ WroteJob(p, "generate", {"pending"})
  /\ At(p, {"enrich", "generate"}, "nokey", "free", {"enrich", "reel", "generate"},
        <<Commit("committed")>>)

HandingOver(p) ==
  /\ p # "router" /\ db["enrich"].status = "running"
  /\ \/ \E t : HandOver1(p, t) \/ HandOver2(p, t) \/ HandOver3(p, t)
     \/ HandOver4(p)

(* FailJob, ReapFail and DoneStamp: the job ends, then its owner is freed. *)
Freeing(p, j, ph) ==
  At(p, {j}, "free", "free", {j}, <<FreeOwner(j), Commit(ph)>>)

Stamping(p, j, ph) ==
  \/ /\ j = "generate"
     /\ At(p, {j}, "free", "free", {j},
           <<Flush("reel", "guide_ready"), Touch("cut"), Commit(ph)>>)
  \/ /\ j \in {"render", "rerender"}
     /\ At(p, {j}, "free", "free", {j}, <<Flush("cut", "in_review"), Commit(ph)>>)
  \/ /\ j = "generate" /\ Wrote(p, "reel", {"guide_ready"})
     /\ At(p, {j}, "nokey", "free", {j, "reel"}, <<Touch("cut"), Commit(ph)>>)

Freed(p, j, ph) ==
  \/ /\ OwnerOf(j) = "reel" /\ Wrote(p, "reel", IdleReel)
     /\ \E reel \in {"nokey", "update"}, cut \in {"free", "nokey"} :
          At(p, {j}, reel, cut, {j, "reel"}, <<Commit(ph)>>)
  \/ /\ OwnerOf(j) = "cut" /\ Wrote(p, "cut", IdleCut)
     /\ \E cut \in {"nokey", "update"} :
          At(p, {j}, "free", cut, {j, "cut"}, <<Commit(ph)>>)

Ending(p) == \E j \in Jobs, ph \in Phases :
  /\ Ends(p, ph)
  /\ db[j].status \in InFlight /\ WroteJob(p, j, Settled)
  /\ Freeing(p, j, ph) \/ Stamping(p, j, ph) \/ Freed(p, j, ph)

(* Abandon.                                                                *)
Abandon1(p) ==
  \/ At(p, {"enrich"}, "free", "free", {"enrich"},
        <<Cas("generate", "pending", "failed", Unfenced, "commit"),
          FreeOwner("generate"), Commit("over")>>)
  \/ At(p, {"enrich"}, "free", "free", {"enrich"}, <<Commit("over")>>)

Abandon2(p) ==
  /\ db["generate"].status = "pending" /\ WroteJob(p, "generate", {"failed"})
  /\ \/ At(p, {"enrich", "generate"}, "free", "free", {"enrich", "generate"},
           <<FreeOwner("generate"), Commit("over")>>)
     \/ /\ Wrote(p, "reel", {"failed"})
        /\ At(p, {"enrich", "generate"}, "update", "free", {"enrich", "generate", "reel"},
              <<Commit("over")>>)

Abandoning(p) ==
  /\ p # "router"
  /\ db["enrich"].status = "done" /\ WroteJob(p, "enrich", {"failed"})
  /\ Abandon1(p) \/ Abandon2(p)

(* TriggerRender.                                                          *)
Trigger1(p) ==
  At(p, {}, "free", "update", {},
     <<Flush("cut", "rendering"), Insert("rerender"), Refer("reel"), Refer("cut"),
       Commit("sent")>>)

Trigger2(p) ==
  /\ Wrote(p, "cut", {"rendering"})
  /\ At(p, {}, "free", "update", {"cut"},
        <<Insert("rerender"), Refer("reel"), Refer("cut"), Commit("sent")>>)

Trigger3(p) ==
  /\ Wrote(p, "cut", {"rendering"}) /\ WroteJob(p, "rerender", {"pending"})
  /\ \/ At(p, {"rerender"}, "free", "update", {"cut", "rerender"},
           <<Refer("reel"), Refer("cut"), Commit("sent")>>)
     \/ At(p, {"rerender"}, "share", "update", {"cut", "rerender"},
           <<Refer("cut"), Commit("sent")>>)
     \/ At(p, {"rerender"}, "share", "update", {"cut", "rerender"}, <<Commit("sent")>>)

Triggering(p) ==
  /\ p = "router" /\ phase[p] = "start" /\ db["cut"] \in IdleCut
  /\ Trigger1(p) \/ Trigger2(p) \/ Trigger3(p)

Stage(p) ==
  \/ Resting(p) \/ Begun(p) \/ Keeping(p) \/ Noting(p) \/ HandingOver(p)
  \/ Ending(p) \/ Abandoning(p) \/ Triggering(p)

-----------------------------------------------------------------------------
(* The invariant.                                                          *)

(* No two processes hold conflicting locks on a row.                       *)
Exclusive == \A p, q \in Procs : \A r \in Rows :
  p # q => ~Conflict(held[p][r], held[q][r])

(* What is committed agrees, for one job of an owner at a time.            *)
Agree ==
  /\ \A j \in Jobs : db[j].status \in InFlight => db[OwnerOf(j)] = OwnerState(j)
  /\ \A j, k \in Jobs :
       /\ db[j].status \in InFlight /\ db[k].status \in InFlight
       /\ OwnerOf(j) = OwnerOf(k)
       => j = k
  /\ db["reel"] \in {"enriching", "generating"} =>
       \E j \in {"enrich", "generate"} : db[j].status \in InFlight
  /\ db["cut"] = "rendering" =>
       \E j \in {"render", "rerender"} : db[j].status \in InFlight
  /\ db["enrich"].status \in InFlight => db["generate"].status = "none"
  /\ phase["router"] = "start" => db["rerender"].status = "none"

LockInv == Types /\ Agree /\ Exclusive /\ \A p \in Procs : Stage(p)

-----------------------------------------------------------------------------
(* What a statement does to its process.                                   *)

(* What p's step leaves to the other processes.                            *)
Elsewhere(p) == \A q \in Procs \ {p} :
  held'[q] = held[q] /\ own'[q] = own[q] /\ txn'[q] = txn[q] /\ phase'[q] = phase[q]

(* A statement takes one lock, writes what it writes and is gone.          *)
LEMMA TakeAt ==
  ASSUME Types, NEW p \in Procs, NEW s, s.row \in Rows, NEW u, Take(p, s, u)
  PROVE  /\ Types' /\ Elsewhere(p) /\ UNCHANGED <<db, phase>>
         /\ held'[p][s.row] = Stronger(held[p][s.row], ModeOf(s))
         /\ \A r \in Rows \ {s.row} : held'[p][r] = held[p][r]
         /\ DOMAIN own'[p] = DOMAIN u \union DOMAIN own[p]
         /\ \A r \in DOMAIN u : own'[p][r] = u[r]
         /\ \A r \in DOMAIN own[p] \ DOMAIN u : own'[p][r] = own[p][r]
         /\ txn'[p] = Tail(txn[p])
<1>1. held' = [held EXCEPT ![p][s.row] = Stronger(@, ModeOf(s))]
  BY DEF Take
<1>2. ModeOf(s) \in Modes
  BY DEF ModeOf, Modes
<1>3. held[p][s.row] \in Modes /\ held \in [Procs -> [Rows -> Modes]]
  BY DEF Types
<1>4. Stronger(held[p][s.row], ModeOf(s)) \in Modes
  BY <1>2, <1>3 DEF Stronger
<1>5. /\ held' \in [Procs -> [Rows -> Modes]]
      /\ held'[p][s.row] = Stronger(held[p][s.row], ModeOf(s))
      /\ \A r \in Rows \ {s.row} : held'[p][r] = held[p][r]
      /\ \A q \in Procs \ {p} : held'[q] = held[q]
  BY <1>1, <1>3, <1>4
<1>6. own' = [own EXCEPT ![p] = Over(u, @)] /\ txn' = [txn EXCEPT ![p] = Tail(@)]
      /\ db' = db /\ phase' = phase
  BY DEF Take
<1>7. /\ DOMAIN own' = Procs /\ DOMAIN txn' = Procs
      /\ own'[p] = Over(u, own[p]) /\ txn'[p] = Tail(txn[p])
      /\ \A q \in Procs \ {p} : own'[q] = own[q] /\ txn'[q] = txn[q]
  BY <1>6 DEF Types
<1>8. /\ DOMAIN own'[p] = DOMAIN u \union DOMAIN own[p]
      /\ \A r \in DOMAIN u : own'[p][r] = u[r]
      /\ \A r \in DOMAIN own[p] \ DOMAIN u : own'[p][r] = own[p][r]
  BY <1>7 DEF Over
<1>9. Types'
  BY <1>5, <1>6, <1>7 DEF Types
<1> QED
  BY <1>5, <1>6, <1>7, <1>8, <1>9 DEF Elsewhere

(* A roll-back leaves nothing.                                             *)
LEMMA RollBackRests ==
  ASSUME Types, NEW p \in Procs, NEW ph \in Phases, RollBack(p, ph)
  PROVE  /\ Types' /\ Elsewhere(p) /\ db' = db /\ phase'[p] = ph
         /\ Resting(p)'
<1>1. held' = [held EXCEPT ![p] = [r \in Rows |-> "free"]]
      /\ own' = [own EXCEPT ![p] = << >>] /\ txn' = [txn EXCEPT ![p] = << >>]
      /\ phase' = [phase EXCEPT ![p] = ph] /\ db' = db
  BY DEF RollBack
<1>2. /\ held' \in [Procs -> [Rows -> Modes]]
      /\ \A r \in Rows : held'[p][r] = "free"
      /\ \A q \in Procs \ {p} : held'[q] = held[q]
  BY <1>1 DEF Types, Modes
<1>3. /\ DOMAIN own' = Procs /\ DOMAIN txn' = Procs /\ phase' \in [Procs -> Phases]
      /\ own'[p] = << >> /\ txn'[p] = << >> /\ phase'[p] = ph
      /\ \A q \in Procs \ {p} :
           own'[q] = own[q] /\ txn'[q] = txn[q] /\ phase'[q] = phase[q]
  BY <1>1 DEF Types
<1>4. DOMAIN own'[p] = {}
  BY <1>3
<1>5. Resting(p)'
  BY <1>2, <1>3, <1>4 DEF Resting, At
<1>6. Types'
  BY <1>1, <1>2, <1>3 DEF Types
<1> QED
  BY <1>1, <1>2, <1>3, <1>5, <1>6 DEF Elsewhere

With(S, x) == S \union {x}

(* The next statement of a program, where its process is.                  *)
LEMMA CasAt ==
  ASSUME Types, NEW p \in Procs, NEW J, NEW reel, NEW cut, NEW D, NEW prog,
         At(p, J, reel, cut, D, prog),
         NEW j \in Jobs, NEW from, NEW to, NEW t, NEW miss,
         Head(prog) = Cas(j, from, to, t, miss), CompareAndSet(p)
  PROVE  /\ Types' /\ Elsewhere(p) /\ db' = db
         /\ \/ /\ phase' = phase /\ Value(p, j).status = from
               /\ At(p, With(J, j), reel, cut, With(D, j), Tail(prog))'
               /\ j \in DOMAIN own'[p] /\ own'[p][j].status = to
               /\ \A r \in D \ {j} : own'[p][r] = own[p][r]
            \/ /\ miss = "rollback" /\ Resting(p)'
               /\ phase'[p] = IF p = "reaper" THEN "start" ELSE "over"
            \/ /\ miss = "commit" /\ phase' = phase /\ own' = own
               /\ At(p, J, reel, cut, D, <<Commit("over")>>)'
<1> DEFINE s == Cas(j, from, to, t, miss)
           v == Value(p, j)
           next == [status |-> to, token |-> IF from = "pending" /\ to = "running"
                                             THEN v.token + 1 ELSE v.token]
<1>1. txn[p] = prog /\ Next1(p) = s
  BY DEF At, Next1
<1>2. s.row = j /\ s.from = from /\ s.to = to /\ s.miss = miss /\ s.op = "cas"
  BY DEF Cas
<1>3. \/ v.status = from /\ Take(p, s, Writing(s, next))
      \/ miss = "rollback" /\ RollBack(p, IF p = "reaper" THEN "start" ELSE "over")
      \/ /\ miss = "commit" /\ txn' = [txn EXCEPT ![p] = <<Commit("over")>>]
         /\ UNCHANGED <<db, own, held, phase, tok>>
  BY <1>1, <1>2 DEF CompareAndSet
<1>4. CASE v.status = from /\ Take(p, s, Writing(s, next))
  <2>1. s.row \in Rows
    BY <1>2 DEF Rows
  <2>2. DOMAIN Writing(s, next) = {j} /\ Writing(s, next)[j] = next
    BY <1>2 DEF Writing
  <2>3. next.status = to
    OBVIOUS
  <2> HIDE DEF s, v, next
  <2>4. /\ Types' /\ Elsewhere(p) /\ UNCHANGED <<db, phase>>
        /\ held'[p][j] = Stronger(held[p][j], ModeOf(s))
        /\ \A r \in Rows \ {j} : held'[p][r] = held[p][r]
        /\ DOMAIN own'[p] = {j} \union DOMAIN own[p]
        /\ own'[p][j] = next
        /\ \A r \in DOMAIN own[p] \ {j} : own'[p][r] = own[p][r]
        /\ txn'[p] = Tail(txn[p])
    BY <1>2, <1>4, <2>1, <2>2, TakeAt
  <2>5. ModeOf(s) = "nokey"
    BY <1>2 DEF ModeOf
  <2>6. held[p][j] \in {"free", "nokey"}
    BY DEF At, Rows, Jobs
  <2>7. held'[p][j] = "nokey"
    BY <2>4, <2>5, <2>6 DEF Stronger
  <2>8. At(p, With(J, j), reel, cut, With(D, j), Tail(prog))'
    BY <1>1, <2>4, <2>7 DEF At, With
  <2>9. j \in DOMAIN own'[p] /\ own'[p][j].status = to
    BY <2>3, <2>4
  <2>10. DOMAIN own[p] = D
    BY DEF At
  <2> QED
    BY <1>4, <2>4, <2>8, <2>9, <2>10 DEF v
<1>5. CASE miss = "rollback" /\ RollBack(p, IF p = "reaper" THEN "start" ELSE "over")
  <2>1. (IF p = "reaper" THEN "start" ELSE "over") \in Phases
    BY DEF Phases
  <2> QED
    BY <1>5, <2>1, RollBackRests
<1>6. CASE /\ miss = "commit" /\ txn' = [txn EXCEPT ![p] = <<Commit("over")>>]
           /\ UNCHANGED <<db, own, held, phase, tok>>
  <2>1. /\ DOMAIN txn' = Procs /\ txn'[p] = <<Commit("over")>>
        /\ \A q \in Procs \ {p} : txn'[q] = txn[q]
    BY <1>6 DEF Types
  <2>2. Types' /\ Elsewhere(p)
    BY <1>6, <2>1 DEF Types, Elsewhere
  <2>3. At(p, J, reel, cut, D, <<Commit("over")>>)'
    BY <1>6, <2>1 DEF At
  <2> QED
    BY <1>6, <2>2, <2>3
<1> QED
  BY <1>3, <1>4, <1>5, <1>6

(* The reel's and the cut's lock once one of them, r, is also held in mode *)
(* m.                                                                      *)
Grown(r, m, reel, cut, reel2, cut2) ==
  /\ reel2 = IF r = "reel" THEN Stronger(reel, m) ELSE reel
  /\ cut2  = IF r = "cut"  THEN Stronger(cut, m)  ELSE cut

(* p took a lock and went on; what it wrote and what it had written.       *)
Took(p)        == Types' /\ Elsewhere(p) /\ UNCHANGED <<db, phase>>
Sets(p, r, v)  == r \in DOMAIN own'[p] /\ own'[p][r] = v
Keeps(p, D, r) == \A x \in D : x # r => own'[p][x] = own[p][x]

LEMMA FlushAt ==
  ASSUME Types, NEW p \in Procs, NEW J \in SUBSET Jobs, NEW reel, NEW cut, NEW D, NEW prog,
         At(p, J, reel, cut, D, prog),
         NEW r \in Owners, NEW to, Head(prog) = Flush(r, to), Write(p),
         NEW reel2, NEW cut2, Grown(r, "nokey", reel, cut, reel2, cut2)
  PROVE  /\ Took(p) /\ Sets(p, r, to) /\ Keeps(p, D, r)
         /\ At(p, J, reel2, cut2, With(D, r), Tail(prog))'
<1> DEFINE s == Head(prog)
           u == Writing(s, to)
<1>1. s.op = "flush" /\ s.row = r /\ s.to = to
  BY DEF Flush
<1>2. Next1(p) = s
  BY DEF At, Next1
<1>3. ModeOf(s) = "nokey"
  BY <1>1 DEF ModeOf
<1> HIDE DEF s
<1>4. Take(p, s, u)
  BY <1>1, <1>2 DEF Write
<1>5. DOMAIN u = {r} /\ u[r] = to
  BY <1>1 DEF Writing
<1> HIDE DEF u
<1>6. /\ Types' /\ Elsewhere(p) /\ UNCHANGED <<db, phase>>
      /\ held'[p][r] = Stronger(held[p][r], ModeOf(s))
      /\ \A x \in Rows \ {r} : held'[p][x] = held[p][x]
      /\ DOMAIN own'[p] = {r} \union DOMAIN own[p]
      /\ \A x \in {r} : own'[p][x] = u[x]
      /\ \A x \in DOMAIN own[p] \ {r} : own'[p][x] = own[p][x]
      /\ txn'[p] = Tail(txn[p])
  BY <1>1, <1>4, <1>5, TakeAt DEF Rows
<1>7. At(p, J, reel2, cut2, With(D, r), Tail(prog))'
  BY <1>3, <1>6 DEF At, Grown, With, Rows, Owners, Jobs
<1> QED
  BY <1>5, <1>6, <1>7 DEF At, Took, Sets, Keeps

(* Touch takes the lock of an UPDATE, Refer one that UPDATEs tolerate.     *)
LEMMA LockAt ==
  ASSUME Types, NEW p \in Procs, NEW J \in SUBSET Jobs, NEW reel, NEW cut, NEW D, NEW prog,
         At(p, J, reel, cut, D, prog),
         NEW r \in Owners, NEW m,
         \/ Head(prog) = Touch(r) /\ m = "nokey"
         \/ Head(prog) = Refer(r) /\ m = "share",
         Write(p), NEW reel2, NEW cut2, Grown(r, m, reel, cut, reel2, cut2)
  PROVE  /\ Types' /\ Elsewhere(p) /\ UNCHANGED <<db, phase>>
         /\ At(p, J, reel2, cut2, D, Tail(prog))'
         /\ \A x \in D : own'[p][x] = own[p][x]
<1> DEFINE s == Head(prog)
<1>1. s.op \in {"touch", "refer"} /\ s.row = r
  BY DEF Touch, Refer
<1>2. Next1(p) = s
  BY DEF At, Next1
<1>3. ModeOf(s) = m
  BY DEF ModeOf, Touch, Refer
<1> HIDE DEF s
<1>4. Take(p, s, NoWrite)
  BY <1>1, <1>2 DEF Write
<1>5. DOMAIN NoWrite = {}
  BY DEF NoWrite
<1>6. /\ Types' /\ Elsewhere(p) /\ UNCHANGED <<db, phase>>
      /\ held'[p][r] = Stronger(held[p][r], ModeOf(s))
      /\ \A x \in Rows \ {r} : held'[p][x] = held[p][x]
      /\ DOMAIN own'[p] = DOMAIN own[p]
      /\ \A x \in DOMAIN own[p] : own'[p][x] = own[p][x]
      /\ txn'[p] = Tail(txn[p])
  BY <1>1, <1>4, <1>5, TakeAt DEF Rows
<1>7. At(p, J, reel2, cut2, D, Tail(prog))'
  BY <1>3, <1>6 DEF At, Grown, Rows, Owners, Jobs
<1> QED
  BY <1>6, <1>7 DEF At

(* rollback_owner of a job in flight finds its owner as the job left it.   *)
LEMMA FreeAt ==
  ASSUME Types, NEW p \in Procs, NEW J \in SUBSET Jobs, NEW D, NEW prog,
         At(p, J, "free", "free", D, prog),
         NEW j \in Jobs, Head(prog) = FreeOwner(j), Free(p),
         NEW r, r = OwnerOf(j), Value(p, r) = OwnerState(j),
         NEW reel2, NEW cut2, Grown(r, "update", "free", "free", reel2, cut2)
  PROVE  /\ Took(p) /\ Sets(p, r, "failed") /\ Keeps(p, D, r)
         /\ At(p, J, reel2, cut2, With(D, r), Tail(prog))'
<1> DEFINE s == Head(prog)
           u == Writing(s, "failed")
<1>1. s.op = "free" /\ s.row = r /\ s.from = OwnerState(j)
  BY DEF FreeOwner
<1>2. Next1(p) = s
  BY DEF At, Next1
<1>3. ModeOf(s) = "update"
  BY <1>1 DEF ModeOf
<1>4. r \in Owners
  BY DEF OwnerOf, Owners
<1> HIDE DEF s
<1>5. Take(p, s, u)
  BY <1>1, <1>2 DEF Free
<1>6. DOMAIN u = {r} /\ u[r] = "failed"
  BY <1>1 DEF Writing
<1> HIDE DEF u
<1>7. /\ Types' /\ Elsewhere(p) /\ UNCHANGED <<db, phase>>
      /\ held'[p][r] = Stronger(held[p][r], ModeOf(s))
      /\ \A x \in Rows \ {r} : held'[p][x] = held[p][x]
      /\ DOMAIN own'[p] = {r} \union DOMAIN own[p]
      /\ \A x \in {r} : own'[p][x] = u[x]
      /\ \A x \in DOMAIN own[p] \ {r} : own'[p][x] = own[p][x]
      /\ txn'[p] = Tail(txn[p])
  BY <1>1, <1>4, <1>5, <1>6, TakeAt DEF Rows
<1>8. At(p, J, reel2, cut2, With(D, r), Tail(prog))'
  BY <1>3, <1>4, <1>7 DEF At, Grown, With, Rows, Owners, Jobs
<1> QED
  BY <1>6, <1>7, <1>8 DEF At, Took, Sets, Keeps

LEMMA GuardAt ==
  ASSUME Types, NEW p \in Procs, NEW D, NEW prog, At(p, {}, "free", "free", D, prog),
         NEW from, Head(prog) = Guard("cut", from), CheckGuard(p)
  PROVE  /\ Types' /\ Elsewhere(p) /\ db' = db
         /\ \/ /\ phase' = phase /\ Value(p, "cut") \in from
               /\ At(p, {}, "free", "update", D, Tail(prog))'
               /\ \A x \in D : own'[p][x] = own[p][x]
            \/ Resting(p)' /\ phase'[p] = "over"
<1> DEFINE s == Head(prog)
<1>1. s.op = "guard" /\ s.row = "cut" /\ s.row \in Rows /\ s.from = from
  BY DEF Guard, Rows, Owners
<1>2. Next1(p) = s
  BY DEF At, Next1
<1>3. ModeOf(s) = "update"
  BY <1>1 DEF ModeOf
<1> HIDE DEF s
<1>4. \/ Value(p, "cut") \in from /\ Take(p, s, NoWrite)
      \/ RollBack(p, "over")
  BY <1>1, <1>2 DEF CheckGuard
<1>5. CASE Value(p, "cut") \in from /\ Take(p, s, NoWrite)
  <2>1. DOMAIN NoWrite = {}
    BY DEF NoWrite
  <2>2. /\ Types' /\ Elsewhere(p) /\ UNCHANGED <<db, phase>>
        /\ held'[p][s.row] = Stronger(held[p][s.row], ModeOf(s))
        /\ \A x \in Rows \ {s.row} : held'[p][x] = held[p][x]
        /\ DOMAIN own'[p] = DOMAIN NoWrite \union DOMAIN own[p]
        /\ \A x \in DOMAIN own[p] \ DOMAIN NoWrite : own'[p][x] = own[p][x]
        /\ txn'[p] = Tail(txn[p])
    BY <1>1, <1>5, TakeAt
  <2>3. At(p, {}, "free", "update", D, Tail(prog))'
    BY <1>1, <1>3, <2>1, <2>2 DEF At, Stronger, Rows, Owners, Jobs
  <2> QED
    BY <1>5, <2>1, <2>2, <2>3 DEF At
<1>6. CASE RollBack(p, "over")
  BY <1>6, RollBackRests DEF Phases
<1> QED
  BY <1>4, <1>5, <1>6

LEMMA InsertAt ==
  ASSUME Types, NEW p \in Procs, NEW J \in SUBSET Jobs, NEW reel, NEW cut, NEW D, NEW prog,
         At(p, J, reel, cut, D, prog),
         NEW j \in Jobs, j \notin J, Head(prog) = Insert(j), InsertJob(p)
  PROVE  /\ Types' /\ Elsewhere(p) /\ UNCHANGED <<db, phase>>
         /\ At(p, With(J, j), reel, cut, With(D, j), Tail(prog))'
         /\ j \in DOMAIN own'[p] /\ own'[p][j].status = "pending"
         /\ \A x \in D \ {j} : own'[p][x] = own[p][x]
<1> DEFINE s == Head(prog)
           new == [status |-> "pending", token |-> 0]
           u == Writing(s, new)
<1>1. s.op = "insert" /\ s.row = j /\ s.row \in Rows
  BY DEF Insert, Rows
<1>2. Next1(p) = s
  BY DEF At, Next1
<1>3. ModeOf(s) = "nokey"
  BY <1>1 DEF ModeOf
<1>4. held[p][j] = "free"
  BY DEF At, Rows, Jobs
<1>5. new.status = "pending"
  OBVIOUS
<1> HIDE DEF s, new
<1>6. Take(p, s, u)
  BY <1>2 DEF InsertJob, new
<1>7. DOMAIN u = {j} /\ u[j] = new
  BY <1>1 DEF Writing
<1> HIDE DEF u
<1>8. /\ Types' /\ Elsewhere(p) /\ UNCHANGED <<db, phase>>
      /\ held'[p][j] = Stronger("free", "nokey")
      /\ \A x \in Rows \ {j} : held'[p][x] = held[p][x]
      /\ DOMAIN own'[p] = {j} \union DOMAIN own[p]
      /\ own'[p][j] = new
      /\ \A x \in DOMAIN own[p] \ {j} : own'[p][x] = own[p][x]
      /\ txn'[p] = Tail(txn[p])
  BY <1>1, <1>3, <1>4, <1>6, <1>7, TakeAt
<1>9. Stronger("free", "nokey") = "nokey"
  BY DEF Stronger
<1>10. DOMAIN own[p] = D /\ txn[p] = prog
  BY DEF At
<1>11. At(p, With(J, j), reel, cut, With(D, j), Tail(prog))'
  BY <1>8, <1>9, <1>10 DEF At, With
<1> QED
  BY <1>5, <1>8, <1>10, <1>11

(* The statements that each stage may be at.                               *)
LEMMA NextOp ==
  ASSUME NEW p \in Procs, Running(p)
  PROVE  /\ ~Resting(p)
         /\ Begun(p) => Next1(p).op \in {"cas", "refer", "guard"}
         /\ Keeping(p) => Next1(p).op \in {"touch", "commit"}
         /\ Noting(p) => Next1(p).op \in {"refer", "commit"}
         /\ HandingOver(p) => Next1(p).op \in {"flush", "insert", "refer", "cas", "commit"}
         /\ Ending(p) => Next1(p).op \in {"free", "flush", "touch", "commit"}
         /\ Abandoning(p) => Next1(p).op \in {"cas", "free", "commit"}
         /\ Triggering(p) => Next1(p).op \in {"flush", "insert", "refer", "commit"}
<1> USE DEF At, Next1
<1>1. ~Resting(p)
  BY DEF Running, Resting
<1>2. ASSUME Begun(p) PROVE Next1(p).op \in {"cas", "refer", "guard"}
  <2>1. CASE RouterProgram(p, txn[p])
    BY <2>1 DEF RouterProgram, TriggerRender, FailJob, Cas, Guard
  <2>2. ASSUME NEW j \in Jobs, NEW t, WorkerProgram(p, txn[p], j, t)
        PROVE  Next1(p).op \in {"cas", "refer"}
    <3>1. CASE txn[p] \in {Claim(j), Heartbeat(j, t), FailJob(j, "running", t)}
      BY <3>1 DEF Claim, Heartbeat, FailJob, Cas
    <3>2. CASE txn[p] \in {ResetForRetry(j, t), HandOver(t), Abandon}
      BY <3>2 DEF ResetForRetry, HandOver, Abandon, Cas
    <3>3. CASE txn[p] \in {RecordStage(j), DoneStamp(j, t)}
      BY <3>3 DEF RecordStage, DoneStamp, Cas, Refer
    <3> QED
      BY <2>2, <3>1, <3>2, <3>3 DEF WorkerProgram
  <2>3. ASSUME NEW j \in Jobs, ReaperProgram(p, txn[p], j)
        PROVE  Next1(p).op = "cas"
    <3>1. CASE txn[p] = ReapResume(j)
      BY <3>1 DEF ReapResume, Cas
    <3>2. ASSUME NEW from, txn[p] = ReapFail(j, from) PROVE Next1(p).op = "cas"
      BY <3>2 DEF ReapFail, Cas
    <3> QED
      BY <2>3, <3>1, <3>2 DEF ReaperProgram
  <2> QED
    BY <1>2, <2>1, <2>2, <2>3 DEF Begun
<1>3. ASSUME Keeping(p) PROVE Next1(p).op \in {"touch", "commit"}
  BY <1>3 DEF Keeping, Kept, Touch, Commit
<1>4. ASSUME Noting(p) PROVE Next1(p).op \in {"refer", "commit"}
  BY <1>4 DEF Noting, Noted, Refer, Commit
<1>5. ASSUME HandingOver(p)
      PROVE  Next1(p).op \in {"flush", "insert", "refer", "cas", "commit"}
  <2>1. ASSUME NEW t, HandOver1(p, t) \/ HandOver2(p, t)
        PROVE  Next1(p).op \in {"flush", "insert"}
    BY <2>1 DEF HandOver1, HandOver2, Flush, Insert
  <2>2. ASSUME NEW t, HandOver3(p, t) PROVE Next1(p).op \in {"refer", "cas"}
    BY <2>2 DEF HandOver3, HandLast, Refer, Cas
  <2>3. HandOver4(p) => Next1(p).op = "commit"
    BY DEF HandOver4, Commit
  <2> QED
    BY <1>5, <2>1, <2>2, <2>3 DEF HandingOver
<1>6. ASSUME Ending(p) PROVE Next1(p).op \in {"free", "flush", "touch", "commit"}
  <2>1. ASSUME NEW j \in Jobs, NEW ph, Freeing(p, j, ph) PROVE Next1(p).op = "free"
    BY <2>1 DEF Freeing, FreeOwner
  <2>2. ASSUME NEW j \in Jobs, NEW ph, Stamping(p, j, ph)
        PROVE  Next1(p).op \in {"flush", "touch"}
    BY <2>2 DEF Stamping, Flush, Touch
  <2>3. ASSUME NEW j \in Jobs, NEW ph, Freed(p, j, ph) PROVE Next1(p).op = "commit"
    BY <2>3 DEF Freed, Commit
  <2> QED
    BY <1>6, <2>1, <2>2, <2>3 DEF Ending
<1>7. ASSUME Abandoning(p) PROVE Next1(p).op \in {"cas", "free", "commit"}
  <2>1. Abandon1(p) => Next1(p).op \in {"cas", "commit"}
    BY DEF Abandon1, Cas, Commit
  <2>2. Abandon2(p) => Next1(p).op \in {"free", "commit"}
    BY DEF Abandon2, FreeOwner, Commit
  <2> QED
    BY <1>7, <2>1, <2>2 DEF Abandoning
<1>8. ASSUME Triggering(p) PROVE Next1(p).op \in {"flush", "insert", "refer", "commit"}
  <2>1. Trigger1(p) => Next1(p).op = "flush"
    BY DEF Trigger1, Flush
  <2>2. Trigger2(p) => Next1(p).op = "insert"
    BY DEF Trigger2, Insert
  <2>3. Trigger3(p) => Next1(p).op \in {"refer", "commit"}
    BY DEF Trigger3, Refer, Commit
  <2> QED
    BY <1>8, <2>1, <2>2, <2>3 DEF Triggering
<1> QED
  BY <1>1, <1>2, <1>3, <1>4, <1>5, <1>6, <1>7, <1>8

-----------------------------------------------------------------------------
(* Each statement takes its process from a stage to a stage.               *)

(* Where the process may be after a statement that writes nothing yet to   *)
(* the database.                                                           *)
Staged(p) ==
  /\ Types' /\ Elsewhere(p) /\ db' = db /\ Stage(p)'
  /\ p = "router" => phase'[p] \in {phase[p], "over"}

(* The compare-and-set that every transaction but Noting's and Triggering's*)
(* begins with.                                                            *)
LEMMA FirstCas ==
  ASSUME Types, NEW p \in Procs, NEW prog, At(p, {}, "free", "free", {}, prog),
         NEW j \in Jobs, NEW from, NEW to, NEW t, NEW rest,
         Head(prog) = Cas(j, from, to, t, "rollback"), Tail(prog) = rest,
         CompareAndSet(p)
  PROVE  \/ Staged(p)
         \/ /\ Types' /\ Elsewhere(p) /\ db' = db /\ phase' = phase
            /\ db'[j].status = from
            /\ At(p, With({}, j), "free", "free", With({}, j), rest)'
            /\ j \in DOMAIN own'[p] /\ own'[p][j].status = to
<1>1. /\ Types' /\ Elsewhere(p) /\ db' = db
      /\ \/ /\ phase' = phase /\ Value(p, j).status = from
            /\ At(p, With({}, j), "free", "free", With({}, j), Tail(prog))'
            /\ j \in DOMAIN own'[p] /\ own'[p][j].status = to
         \/ /\ Resting(p)'
            /\ phase'[p] = IF p = "reaper" THEN "start" ELSE "over"
  BY CasAt
<1>2. Value(p, j) = db[j]
  BY DEF At, Value
<1> QED
  BY <1>1, <1>2 DEF Staged, Stage

(* After that: the stages it leads to.                                     *)
LEMMA KeepingNext ==
  ASSUME NEW p \in Procs, NEW j \in Jobs, NEW ph \in Phases, Ends(p, ph),
         db'[j].status \in InFlight, WroteJob(p, j, InFlight)', Kept(p, j, ph)'
  PROVE  Stage(p)'
<1>1. Keeping(p)'
  BY DEF Keeping, Ends
<1> QED
  BY <1>1 DEF Stage

LEMMA EndingNext ==
  ASSUME NEW p \in Procs, NEW j \in Jobs, NEW ph \in Phases, Ends(p, ph),
         db'[j].status \in InFlight, WroteJob(p, j, Settled)',
         Freeing(p, j, ph)' \/ Stamping(p, j, ph)' \/ Freed(p, j, ph)'
  PROVE  Stage(p)'
<1>1. Ending(p)'
  BY DEF Ending, Ends
<1> QED
  BY <1>1 DEF Stage

LEMMA NotingNext ==
  ASSUME NEW p \in Procs, NEW ph \in Phases, Ends(p, ph), Noted(p, ph)'
  PROVE  Stage(p)'
<1>1. Noting(p)'
  BY DEF Noting, Ends
<1> QED
  BY <1>1 DEF Stage

(* The first compare-and-set of a transaction.                             *)
LEMMA CasBegun ==
  ASSUME Types, NEW p \in Procs, CompareAndSet(p), Begun(p)
  PROVE  Staged(p)
<1> DEFINE prog == txn[p]
<1>1. At(p, {}, "free", "free", {}, prog)
  BY DEF Begun
<1>2. prog = txn[p] /\ Next1(p) = Head(prog) /\ Head(prog).op = "cas"
  BY DEF CompareAndSet, Next1
<1> HIDE DEF prog
<1>3. \A j : With({}, j) = {j}
  BY DEF With
<1>4. ASSUME NEW j \in Jobs, NEW from \in InFlight, NEW to \in InFlight, NEW t,
             NEW ph \in Phases, Ends(p, ph),
             NEW rest,
             Head(prog) = Cas(j, from, to, t, "rollback"), Tail(prog) = rest,
             \/ rest = <<Commit(ph)>>
             \/ rest = <<Touch(OwnerOf(j)), Commit(ph)>>
      PROVE  Staged(p)
  <2>1. CASE /\ Types' /\ Elsewhere(p) /\ db' = db /\ phase' = phase
             /\ db'[j].status = from
             /\ At(p, With({}, j), "free", "free", With({}, j), rest)'
             /\ j \in DOMAIN own'[p] /\ own'[p][j].status = to
    <3>1. At(p, {j}, "free", "free", {j}, rest)'
      BY <1>3, <2>1
    <3>2. Kept(p, j, ph)'
      BY <1>4, <3>1 DEF Kept
    <3>3. WroteJob(p, j, InFlight)'
      BY <1>4, <2>1 DEF WroteJob
    <3>4. Stage(p)'
      BY <1>4, <2>1, <3>2, <3>3, KeepingNext
    <3> QED
      BY <2>1, <3>4 DEF Staged
  <2> QED
    BY <1>1, <1>4, <2>1, FirstCas
<1>5. ASSUME NEW j \in Jobs, NEW from \in InFlight, NEW to \in Settled, NEW t,
             NEW ph \in Phases, Ends(p, ph),
             NEW rest,
             Head(prog) = Cas(j, from, to, t, "rollback"), Tail(prog) = rest,
             \/ rest = <<FreeOwner(j), Commit(ph)>>
             \/ /\ j = "generate"
                /\ rest = <<Flush("reel", "guide_ready"), Touch("cut"), Commit(ph)>>
             \/ /\ j \in {"render", "rerender"}
                /\ rest = <<Flush("cut", "in_review"), Commit(ph)>>
      PROVE  Staged(p)
  <2>1. CASE /\ Types' /\ Elsewhere(p) /\ db' = db /\ phase' = phase
             /\ db'[j].status = from
             /\ At(p, With({}, j), "free", "free", With({}, j), rest)'
             /\ j \in DOMAIN own'[p] /\ own'[p][j].status = to
    <3>1. At(p, {j}, "free", "free", {j}, rest)'
      BY <1>3, <2>1
    <3>2. Freeing(p, j, ph)' \/ Stamping(p, j, ph)'
      BY <1>5, <3>1 DEF Freeing, Stamping
    <3>3. WroteJob(p, j, Settled)'
      BY <1>5, <2>1 DEF WroteJob
    <3>4. Stage(p)'
      BY <1>5, <2>1, <3>2, <3>3, EndingNext
    <3> QED
      BY <2>1, <3>4 DEF Staged
  <2> QED
    BY <1>1, <1>5, <2>1, FirstCas
<1>6. CASE RouterProgram(p, prog)
  <2>1. CASE prog = TriggerRender
    BY <1>2, <2>1 DEF TriggerRender, Guard
  <2>2. CASE prog = FailJob("rerender", "pending", Unfenced)
    <3>1. /\ Head(prog) = Cas("rerender", "pending", "failed", Unfenced, "rollback")
          /\ Tail(prog) = <<FreeOwner("rerender"), Commit("over")>>
      BY <2>2 DEF FailJob
    <3>2. /\ "rerender" \in Jobs /\ "pending" \in InFlight /\ "failed" \in Settled
          /\ "over" \in Phases /\ Ends(p, "over")
      BY DEF Jobs, InFlight, Settled, Phases, Ends
    <3> QED
      BY <1>5, <3>1, <3>2
  <2> QED
    BY <1>6, <2>1, <2>2 DEF RouterProgram
<1>7. ASSUME NEW j \in Jobs, NEW t, WorkerProgram(p, prog, j, t)
      PROVE  Staged(p)
  <2>1. /\ {"pending", "running"} = InFlight /\ {"done", "failed"} = Settled
        /\ {"claimed", "over", "start", "committed"} \subseteq Phases
        /\ \A ph \in Phases : Ends(p, ph)
    BY <1>7 DEF InFlight, Settled, Phases, Ends, WorkerProgram
  <2>2. CASE prog = Claim(j)
    <3>1. /\ Head(prog) = Cas(j, "pending", "running", Unfenced, "rollback")
          /\ Tail(prog) = <<Commit("claimed")>>
      BY <2>2 DEF Claim
    <3> QED
      BY <1>4, <2>1, <3>1
  <2>3. CASE prog = Heartbeat(j, t)
    <3>1. /\ Head(prog) = Cas(j, "running", "running", t, "rollback")
          /\ Tail(prog) = <<Touch(OwnerOf(j)), Commit("claimed")>>
      BY <2>3 DEF Heartbeat
    <3> QED
      BY <1>4, <2>1, <3>1
  <2>4. CASE prog = RecordStage(j)
    BY <1>2, <2>4 DEF RecordStage, Refer
  <2>5. CASE prog = FailJob(j, "running", t)
    <3>1. /\ Head(prog) = Cas(j, "running", "failed", t, "rollback")
          /\ Tail(prog) = <<FreeOwner(j), Commit("over")>>
      BY <2>5 DEF FailJob
    <3> QED
      BY <1>5, <2>1, <3>1
  <2>6. CASE prog = ResetForRetry(j, t)
    <3>1. /\ Head(prog) = Cas(j, "running", "pending", t, "rollback")
          /\ Tail(prog) = <<Commit("start")>>
      BY <2>6 DEF ResetForRetry
    <3> QED
      BY <1>4, <2>1, <3>1
  <2>7. CASE j = "enrich" /\ prog = HandOver(t)
    <3> DEFINE rest == <<Flush("reel", "generating"), Insert("generate"), Refer("reel"),
                         HandLast(t), Commit("committed")>>
    <3>1. /\ Head(prog) = Cas("enrich", "running", "running", t, "rollback")
          /\ Tail(prog) = rest /\ "enrich" \in Jobs
      BY <2>7 DEF HandOver, HandLast, Jobs
    <3>2. CASE /\ Types' /\ Elsewhere(p) /\ db' = db /\ phase' = phase
               /\ db'["enrich"].status = "running"
               /\ At(p, With({}, "enrich"), "free", "free", With({}, "enrich"), rest)'
               /\ "enrich" \in DOMAIN own'[p] /\ own'[p]["enrich"].status = "running"
      <4>1. At(p, {"enrich"}, "free", "free", {"enrich"}, rest)'
        BY <1>3, <3>2
      <4>2. HandOver1(p, t)'
        BY <3>2, <4>1 DEF HandOver1, WroteJob
      <4>3. HandingOver(p)'
        BY <1>7, <3>2, <4>2 DEF HandingOver, WorkerProgram
      <4> QED
        BY <3>2, <4>3 DEF Staged, Stage
    <3> HIDE DEF rest
    <3> QED
      BY <1>1, <3>1, <3>2, FirstCas
  <2>8. CASE j # "enrich" /\ prog = DoneStamp(j, t)
    <3>1. CASE j = "generate"
      <4>1. /\ Head(prog) = Cas(j, "running", "done", t, "rollback")
            /\ Tail(prog) = <<Flush("reel", "guide_ready"), Touch("cut"), Commit("over")>>
        BY <2>8, <3>1 DEF DoneStamp
      <4> QED
        BY <1>5, <2>1, <3>1, <4>1
    <3>2. CASE j \in {"render", "rerender"}
      <4>1. /\ Head(prog) = Cas(j, "running", "done", t, "rollback")
            /\ Tail(prog) = <<Flush("cut", "in_review"), Commit("over")>>
        BY <2>8, <3>2 DEF DoneStamp
      <4> QED
        BY <1>5, <2>1, <3>2, <4>1
    <3> QED
      BY <2>8, <3>1, <3>2 DEF Jobs
  <2>9. CASE prog = Abandon
    <3> DEFINE rest == <<Cas("generate", "pending", "failed", Unfenced, "commit"),
                         FreeOwner("generate"), Commit("over")>>
    <3>1. /\ Head(prog) = Cas("enrich", "done", "failed", Unfenced, "rollback")
          /\ Tail(prog) = rest /\ "enrich" \in Jobs
      BY <2>9 DEF Abandon, Jobs
    <3>2. CASE /\ Types' /\ Elsewhere(p) /\ db' = db /\ phase' = phase
               /\ db'["enrich"].status = "done"
               /\ At(p, With({}, "enrich"), "free", "free", With({}, "enrich"), rest)'
               /\ "enrich" \in DOMAIN own'[p] /\ own'[p]["enrich"].status = "failed"
      <4>1. At(p, {"enrich"}, "free", "free", {"enrich"}, rest)'
        BY <1>3, <3>2
      <4>2. Abandon1(p)'
        BY <4>1 DEF Abandon1
      <4>3. Abandoning(p)'
        BY <1>7, <3>2, <4>2 DEF Abandoning, WroteJob, WorkerProgram
      <4> QED
        BY <3>2, <4>3 DEF Staged, Stage
    <3> HIDE DEF rest
    <3> QED
      BY <1>1, <3>1, <3>2, FirstCas
  <2> QED
    BY <1>7, <2>2, <2>3, <2>4, <2>5, <2>6, <2>7, <2>8, <2>9 DEF WorkerProgram
<1>8. ASSUME NEW j \in Jobs, ReaperProgram(p, prog, j)
      PROVE  Staged(p)
  <2>1. /\ {"pending", "running"} = InFlight /\ "failed" \in Settled
        /\ "start" \in Phases /\ Ends(p, "start")
    BY <1>8 DEF InFlight, Settled, Phases, Ends, ReaperProgram
  <2>2. CASE prog = ReapResume(j)
    <3>1. /\ Head(prog) = Cas(j, "running", "pending", Unfenced, "rollback")
          /\ Tail(prog) = <<Commit("start")>>
      BY <2>2 DEF ReapResume
    <3> QED
      BY <1>4, <2>1, <3>1
  <2>3. ASSUME NEW from \in InFlight, prog = ReapFail(j, from)
        PROVE  Staged(p)
    <3>1. /\ Head(prog) = Cas(j, from, "failed", Unfenced, "rollback")
          /\ Tail(prog) = <<FreeOwner(j), Commit("start")>>
      BY <2>3 DEF ReapFail
    <3> QED
      BY <1>5, <2>1, <3>1
  <2> QED
    BY <1>8, <2>2, <2>3 DEF ReaperProgram
<1> QED
  BY <1>2, <1>6, <1>7, <1>8 DEF Begun

(* A compare-and-set takes its process from a stage to a stage.            *)
LEMMA CasStage ==
  ASSUME Types, NEW p \in Procs, Stage(p), CompareAndSet(p)
  PROVE  Staged(p)
<1>1. Running(p) /\ Next1(p).op = "cas"
  BY DEF CompareAndSet
<1>2. Begun(p) \/ HandingOver(p) \/ Abandoning(p)
  BY <1>1, NextOp DEF Stage
<1>3. CASE HandingOver(p)
  <2>1. PICK t : HandOver3(p, t)
    <3>1. ASSUME NEW t, HandOver1(p, t) \/ HandOver2(p, t) PROVE FALSE
      BY <1>1, <3>1 DEF HandOver1, HandOver2, At, Next1, Flush, Insert
    <3>2. ~HandOver4(p)
      BY <1>1 DEF HandOver4, At, Next1, Commit
    <3> QED
      BY <1>3, <3>1, <3>2 DEF HandingOver
  <2> DEFINE prog == <<HandLast(t), Commit("committed")>>
             J == {"enrich", "generate"}
             D == {"enrich", "reel", "generate"}
  <2>2. At(p, J, "nokey", "free", D, prog)
    BY <1>1, <2>1 DEF HandOver3, At, Next1, Refer
  <2>3. /\ Head(prog) = Cas("enrich", "running", "done", t, "rollback")
        /\ Tail(prog) = <<Commit("committed")>> /\ "enrich" \in Jobs
    BY DEF HandLast, Jobs
  <2>4. With(J, "enrich") = J /\ With(D, "enrich") = D
    BY DEF With
  <2>5. {"reel", "generate"} \subseteq D \ {"enrich"}
    OBVIOUS
  <2>6. {"enrich", "reel", "generate"} = D
    OBVIOUS
  <2> HIDE DEF prog, J, D
  <2>7. /\ Types' /\ Elsewhere(p) /\ db' = db
        /\ \/ /\ phase' = phase
              /\ At(p, With(J, "enrich"), "nokey", "free", With(D, "enrich"), Tail(prog))'
              /\ own'[p]["enrich"].status = "done"
              /\ \A r \in D \ {"enrich"} : own'[p][r] = own[p][r]
           \/ /\ Resting(p)'
              /\ phase'[p] = IF p = "reaper" THEN "start" ELSE "over"
    BY <2>2, <2>3, CasAt
  <2>8. CASE /\ phase' = phase
             /\ At(p, With(J, "enrich"), "nokey", "free", With(D, "enrich"), Tail(prog))'
             /\ own'[p]["enrich"].status = "done"
             /\ \A r \in D \ {"enrich"} : own'[p][r] = own[p][r]
    <3>1. At(p, J, "nokey", "free", D, <<Commit("committed")>>)'
      BY <2>3, <2>4, <2>8
    <3>2. DOMAIN own'[p] = D
      BY <3>1 DEF At
    <3>3. own'[p]["reel"] = own[p]["reel"] /\ own'[p]["generate"] = own[p]["generate"]
      BY <2>5, <2>8
    <3>4. /\ WroteJob(p, "enrich", {"done"})' /\ Wrote(p, "reel", {"generating"})'
          /\ WroteJob(p, "generate", {"pending"})'
      BY <2>1, <2>6, <2>8, <3>2, <3>3 DEF HandOver3, Wrote, WroteJob
    <3>5. HandOver4(p)'
      BY <3>1, <3>4 DEF HandOver4, J, D
    <3> QED
      BY <1>3, <2>7, <2>8, <3>5 DEF HandingOver, Staged, Stage
  <2> QED
    BY <2>7, <2>8 DEF Staged, Stage
<1>4. CASE Abandoning(p)
  <2> DEFINE prog == <<Cas("generate", "pending", "failed", Unfenced, "commit"),
                       FreeOwner("generate"), Commit("over")>>
             J == {"enrich"}
  <2>1. At(p, J, "free", "free", J, prog)
    <3>1. ~Abandon2(p)
      BY <1>1 DEF Abandon2, At, Next1, FreeOwner, Commit
    <3> QED
      BY <1>1, <1>4, <3>1 DEF Abandoning, Abandon1, At, Next1, Commit
  <2>2. /\ Head(prog) = Cas("generate", "pending", "failed", Unfenced, "commit")
        /\ Tail(prog) = <<FreeOwner("generate"), Commit("over")>> /\ "generate" \in Jobs
    BY DEF Jobs
  <2>3. With(J, "generate") = {"enrich", "generate"}
    BY DEF With
  <2>4. Value(p, "generate") = db["generate"]
    BY <2>1 DEF At, Value
  <2>5. "enrich" \in J \ {"generate"} /\ J = {"enrich"}
    OBVIOUS
  <2> HIDE DEF prog, J
  <2>6. /\ Types' /\ Elsewhere(p) /\ db' = db
        /\ \/ /\ phase' = phase /\ Value(p, "generate").status = "pending"
              /\ At(p, With(J, "generate"), "free", "free", With(J, "generate"), Tail(prog))'
              /\ "generate" \in DOMAIN own'[p] /\ own'[p]["generate"].status = "failed"
              /\ \A r \in J \ {"generate"} : own'[p][r] = own[p][r]
           \/ /\ phase' = phase /\ own' = own
              /\ At(p, J, "free", "free", J, <<Commit("over")>>)'
    BY <2>1, <2>2, CasAt
  <2>7. CASE /\ phase' = phase /\ Value(p, "generate").status = "pending"
             /\ At(p, With(J, "generate"), "free", "free", With(J, "generate"), Tail(prog))'
             /\ "generate" \in DOMAIN own'[p] /\ own'[p]["generate"].status = "failed"
             /\ \A r \in J \ {"generate"} : own'[p][r] = own[p][r]
    <3>1. At(p, {"enrich", "generate"}, "free", "free", {"enrich", "generate"},
             <<FreeOwner("generate"), Commit("over")>>)'
      BY <2>2, <2>3, <2>7
    <3>2. WroteJob(p, "generate", {"failed"})' /\ WroteJob(p, "enrich", {"failed"})'
      BY <1>4, <2>5, <2>7, <3>1 DEF Abandoning, WroteJob, At
    <3>3. Abandon2(p)'
      BY <2>4, <2>6, <2>7, <3>1, <3>2 DEF Abandon2
    <3> QED
      BY <1>4, <2>6, <2>7, <3>2, <3>3 DEF Abandoning, Staged, Stage
  <2>8. CASE /\ phase' = phase /\ own' = own
             /\ At(p, J, "free", "free", J, <<Commit("over")>>)'
    <3>1. Abandon1(p)' /\ WroteJob(p, "enrich", {"failed"})'
      BY <1>4, <2>5, <2>8 DEF Abandoning, Abandon1, WroteJob
    <3> QED
      BY <1>4, <2>6, <2>8, <3>1 DEF Abandoning, Staged, Stage
  <2> QED
    BY <2>6, <2>7, <2>8
<1> QED
  BY <1>2, <1>3, <1>4, CasBegun

(* So does an insert.                                                      *)
LEMMA InsertStage ==
  ASSUME Types, NEW p \in Procs, Stage(p), InsertJob(p)
  PROVE  Staged(p)
<1>1. Running(p) /\ Next1(p).op = "insert"
  BY DEF InsertJob
<1>2. HandingOver(p) \/ Triggering(p)
  BY <1>1, NextOp DEF Stage
<1>3. CASE HandingOver(p)
  <2>1. PICK t : HandOver2(p, t)
    <3>1. ASSUME NEW t, HandOver1(p, t) \/ HandOver3(p, t) PROVE FALSE
      BY <1>1, <3>1 DEF HandOver1, HandOver3, HandLast, At, Next1, Flush, Refer, Cas
    <3>2. ~HandOver4(p)
      BY <1>1 DEF HandOver4, At, Next1, Commit
    <3> QED
      BY <1>3, <3>1, <3>2 DEF HandingOver
  <2> DEFINE prog == <<Insert("generate"), Refer("reel"), HandLast(t), Commit("committed")>>
             J == {"enrich"}
             D == {"enrich", "reel"}
  <2>2. At(p, J, "nokey", "free", D, prog)
    BY <2>1 DEF HandOver2
  <2>3. /\ Head(prog) = Insert("generate")
        /\ "generate" \in Jobs /\ "generate" \notin J /\ J \in SUBSET Jobs
    BY DEF Jobs
  <2>3a. Tail(prog) = <<Refer("reel"), HandLast(t), Commit("committed")>>
    OBVIOUS
  <2>4. With(J, "generate") = {"enrich", "generate"}
        /\ With(D, "generate") = {"enrich", "reel", "generate"}
    BY DEF With
  <2>5. "enrich" \in D \ {"generate"} /\ "reel" \in D \ {"generate"}
    OBVIOUS
  <2> HIDE DEF prog, J, D
  <2>6. /\ Types' /\ Elsewhere(p) /\ UNCHANGED <<db, phase>>
        /\ At(p, With(J, "generate"), "nokey", "free", With(D, "generate"), Tail(prog))'
        /\ "generate" \in DOMAIN own'[p] /\ own'[p]["generate"].status = "pending"
        /\ \A x \in D \ {"generate"} : own'[p][x] = own[p][x]
    BY <2>2, <2>3, InsertAt
  <2>7. At(p, {"enrich", "generate"}, "nokey", "free", {"enrich", "reel", "generate"},
           <<Refer("reel"), HandLast(t), Commit("committed")>>)'
    BY <2>3a, <2>4, <2>6
  <2>8. HandOver3(p, t)'
    BY <2>1, <2>5, <2>6, <2>7 DEF HandOver2, HandOver3, Wrote, WroteJob, At
  <2> QED
    BY <1>3, <2>6, <2>8 DEF HandingOver, Staged, Stage
<1>4. CASE Triggering(p)
  <2>1. Trigger2(p)
    <3>1. ~Trigger1(p) /\ ~Trigger3(p)
      BY <1>1 DEF Trigger1, Trigger3, At, Next1, Flush, Refer, Commit
    <3> QED
      BY <1>4, <3>1 DEF Triggering
  <2> DEFINE prog == <<Insert("rerender"), Refer("reel"), Refer("cut"), Commit("sent")>>
             J == {}
             D == {"cut"}
  <2>2. At(p, J, "free", "update", D, prog)
    BY <2>1 DEF Trigger2
  <2>3. /\ Head(prog) = Insert("rerender")
        /\ Tail(prog) = <<Refer("reel"), Refer("cut"), Commit("sent")>>
        /\ "rerender" \in Jobs /\ "rerender" \notin J /\ J \in SUBSET Jobs
    BY DEF Jobs
  <2>4. With(J, "rerender") = {"rerender"} /\ With(D, "rerender") = {"cut", "rerender"}
    BY DEF With
  <2>5. "cut" \in D \ {"rerender"}
    OBVIOUS
  <2> HIDE DEF prog, J, D
  <2>6. /\ Types' /\ Elsewhere(p) /\ UNCHANGED <<db, phase>>
        /\ At(p, With(J, "rerender"), "free", "update", With(D, "rerender"), Tail(prog))'
        /\ "rerender" \in DOMAIN own'[p] /\ own'[p]["rerender"].status = "pending"
        /\ \A x \in D \ {"rerender"} : own'[p][x] = own[p][x]
    BY <2>2, <2>3, InsertAt
  <2>7. At(p, {"rerender"}, "free", "update", {"cut", "rerender"},
           <<Refer("reel"), Refer("cut"), Commit("sent")>>)'
    BY <2>3, <2>4, <2>6
  <2>8. Trigger3(p)'
    BY <2>1, <2>5, <2>6, <2>7 DEF Trigger2, Trigger3, Wrote, WroteJob, At
  <2> QED
    BY <1>4, <2>6, <2>8 DEF Triggering, Staged, Stage
<1> QED
  BY <1>2, <1>3, <1>4

(* A flush or a foreign key check.                                         *)
LEMMA WriteBegun ==
  ASSUME Types, NEW p \in Procs, Begun(p), Write(p)
  PROVE  Staged(p)
<1>0. PICK prog : prog = txn[p]
  OBVIOUS
<1>1. At(p, {}, "free", "free", {}, prog)
  BY <1>0 DEF Begun
<1>2. Next1(p) = Head(prog) /\ Head(prog).op \in {"flush", "touch", "refer"}
  BY <1>0 DEF Write, Next1
<1>3. p # "router" /\ \E j \in Jobs : prog = RecordStage(j)
  <2>1. ~RouterProgram(p, prog)
    <3>1. prog # TriggerRender
      BY <1>2 DEF TriggerRender, Guard
    <3>2. prog # FailJob("rerender", "pending", Unfenced)
      BY <1>2 DEF FailJob, Cas
    <3> QED
      BY <3>1, <3>2 DEF RouterProgram
  <2>2. ASSUME NEW j \in Jobs PROVE ~ReaperProgram(p, prog, j)
    <3>1. prog # ReapResume(j)
      BY <1>2 DEF ReapResume, Cas
    <3>2. ASSUME NEW from PROVE prog # ReapFail(j, from)
      BY <1>2 DEF ReapFail, Cas
    <3> QED
      BY <3>1, <3>2 DEF ReaperProgram
  <2>3. ASSUME NEW j \in Jobs, NEW t, WorkerProgram(p, prog, j, t)
        PROVE  p # "router" /\ prog = RecordStage(j)
    <3>1. prog \notin {Claim(j), Heartbeat(j, t), FailJob(j, "running", t)}
      BY <1>2 DEF Claim, Heartbeat, FailJob, Cas
    <3>2. prog \notin {ResetForRetry(j, t), HandOver(t), Abandon}
      BY <1>2 DEF ResetForRetry, HandOver, Abandon, Cas
    <3>3. prog # DoneStamp(j, t)
      BY <1>2 DEF DoneStamp, Cas
    <3> QED
      BY <2>3, <3>1, <3>2, <3>3 DEF WorkerProgram
  <2> QED
    BY <1>0, <2>1, <2>2, <2>3 DEF Begun
<1>4. Head(prog) = Refer("reel")
  BY <1>3 DEF RecordStage
<1>5. Tail(prog) \in {<<Refer("cut"), Commit("claimed")>>, <<Commit("claimed")>>}
  BY <1>3 DEF RecordStage
<1>6. Grown("reel", "share", "free", "free", "share", "free") /\ "reel" \in Owners
      /\ {} \in SUBSET Jobs
  BY DEF Grown, Stronger, Owners
<1>7. /\ Types' /\ Elsewhere(p) /\ UNCHANGED <<db, phase>>
      /\ At(p, {}, "share", "free", {}, Tail(prog))'
  BY <1>1, <1>4, <1>6, LockAt
<1>8. Noted(p, "claimed")'
  BY <1>5, <1>7 DEF Noted
<1>9. Stage(p)'
  BY <1>3, <1>8, NotingNext DEF Phases, Ends
<1> QED
  BY <1>7, <1>9 DEF Staged

(* And a flush or a reference, stage by stage.                             *)
LEMMA WriteKeeping ==
  ASSUME Types, NEW p \in Procs, Keeping(p), Write(p)
  PROVE  Staged(p)
<1>1. PICK j \in Jobs, ph \in Phases :
        /\ Ends(p, ph) /\ db[j].status \in InFlight /\ WroteJob(p, j, InFlight)
        /\ Kept(p, j, ph)
  BY DEF Keeping
<1> DEFINE prog == <<Touch(OwnerOf(j)), Commit(ph)>>
<1>2. At(p, {j}, "free", "free", {j}, prog)
  BY <1>1 DEF Kept, Write, At, Next1, Commit
<1>3. Head(prog) = Touch(OwnerOf(j)) /\ OwnerOf(j) \in Owners /\ {j} \in SUBSET Jobs
  BY DEF OwnerOf, Owners
<1>3a. Tail(prog) = <<Commit(ph)>>
  OBVIOUS
<1>4. PICK reel2, cut2 \in {"free", "nokey"} :
        Grown(OwnerOf(j), "nokey", "free", "free", reel2, cut2)
  BY DEF OwnerOf, Grown, Stronger
<1> HIDE DEF prog
<1>5. /\ Types' /\ Elsewhere(p) /\ UNCHANGED <<db, phase>>
      /\ At(p, {j}, reel2, cut2, {j}, Tail(prog))'
      /\ \A x \in {j} : own'[p][x] = own[p][x]
  BY <1>2, <1>3, <1>4, LockAt
<1>6. At(p, {j}, reel2, cut2, {j}, <<Commit(ph)>>)'
  BY <1>3a, <1>5
<1>7. Kept(p, j, ph)'
  BY <1>6 DEF Kept
<1>8. WroteJob(p, j, InFlight)'
  BY <1>1, <1>5, <1>6 DEF WroteJob, At
<1>9. Stage(p)'
  BY <1>1, <1>5, <1>7, <1>8, KeepingNext
<1> QED
  BY <1>5, <1>9 DEF Staged

LEMMA WriteNoting ==
  ASSUME Types, NEW p \in Procs, Noting(p), Write(p)
  PROVE  Staged(p)
<1>1. PICK ph \in Phases : Ends(p, ph) /\ Noted(p, ph)
  BY DEF Noting
<1> DEFINE prog == <<Refer("cut"), Commit(ph)>>
<1>2. At(p, {}, "share", "free", {}, prog)
  BY <1>1 DEF Noted, Write, At, Next1, Commit
<1>3. Head(prog) = Refer("cut") /\ "cut" \in Owners /\ {} \in SUBSET Jobs
      /\ Grown("cut", "share", "share", "free", "share", "share")
  BY DEF Owners, Grown, Stronger
<1>3a. Tail(prog) = <<Commit(ph)>>
  OBVIOUS
<1> HIDE DEF prog
<1>4. /\ Types' /\ Elsewhere(p) /\ UNCHANGED <<db, phase>>
      /\ At(p, {}, "share", "share", {}, Tail(prog))'
  BY <1>2, <1>3, LockAt
<1>5. At(p, {}, "share", "share", {}, <<Commit(ph)>>)'
  BY <1>3a, <1>4
<1>6. Noted(p, ph)'
  BY <1>5 DEF Noted
<1>7. Stage(p)'
  BY <1>1, <1>6, NotingNext
<1> QED
  BY <1>4, <1>7 DEF Staged

LEMMA WriteHandingOver ==
  ASSUME Types, NEW p \in Procs, HandingOver(p), Write(p)
  PROVE  Staged(p)
<1>1. Next1(p).op \in {"flush", "touch", "refer"}
  BY DEF Write
<1>2. PICK t : HandOver1(p, t) \/ HandOver3(p, t)
  <2>1. ASSUME NEW t, HandOver2(p, t) PROVE FALSE
    BY <1>1, <2>1 DEF HandOver2, At, Next1, Insert
  <2>2. ~HandOver4(p)
    BY <1>1 DEF HandOver4, At, Next1, Commit
  <2> QED
    BY <2>1, <2>2 DEF HandingOver
<1>3. CASE HandOver1(p, t)
  <2> DEFINE prog == <<Flush("reel", "generating"), Insert("generate"), Refer("reel"),
                       HandLast(t), Commit("committed")>>
             J == {"enrich"}
  <2>1. At(p, J, "free", "free", J, prog)
    BY <1>3 DEF HandOver1
  <2>2. Head(prog) = Flush("reel", "generating")
    OBVIOUS
  <2>3. Tail(prog) = <<Insert("generate"), Refer("reel"), HandLast(t), Commit("committed")>>
    OBVIOUS
  <2>4. J \in SUBSET Jobs /\ "reel" \in Owners
    BY DEF Jobs, Owners
  <2>5. Grown("reel", "nokey", "free", "free", "nokey", "free")
    BY DEF Grown, Stronger
  <2>6. With(J, "reel") = {"enrich", "reel"} /\ "enrich" \in J
    BY DEF With
  <2> HIDE DEF prog, J
  <2>7. /\ Took(p) /\ Sets(p, "reel", "generating") /\ Keeps(p, J, "reel")
        /\ At(p, J, "nokey", "free", With(J, "reel"), Tail(prog))'
    BY <2>1, <2>2, <2>4, <2>5, FlushAt
  <2>8. At(p, {"enrich"}, "nokey", "free", {"enrich", "reel"},
           <<Insert("generate"), Refer("reel"), HandLast(t), Commit("committed")>>)'
    BY <2>3, <2>6, <2>7 DEF J
  <2>9. HandOver2(p, t)'
    BY <1>3, <2>6, <2>7, <2>8 DEF HandOver1, HandOver2, Wrote, WroteJob, At, Sets, Keeps
  <2> QED
    BY <2>7, <2>9 DEF HandingOver, Staged, Stage, Took
<1>4. CASE HandOver3(p, t)
  <2> DEFINE prog == <<Refer("reel"), HandLast(t), Commit("committed")>>
             J == {"enrich", "generate"}
             D == {"enrich", "reel", "generate"}
  <2>1. At(p, J, "nokey", "free", D, prog)
    BY <1>1, <1>4 DEF HandOver3, At, Next1, HandLast, Cas
  <2>2. Head(prog) = Refer("reel")
    OBVIOUS
  <2>3. Tail(prog) = <<HandLast(t), Commit("committed")>>
    OBVIOUS
  <2>4. J \in SUBSET Jobs /\ "reel" \in Owners
    BY DEF Jobs, Owners
  <2>5. Grown("reel", "share", "nokey", "free", "nokey", "free")
    BY DEF Grown, Stronger
  <2>6. "enrich" \in D /\ "reel" \in D /\ "generate" \in D
    OBVIOUS
  <2> HIDE DEF prog, J, D
  <2>7. /\ Types' /\ Elsewhere(p) /\ UNCHANGED <<db, phase>>
        /\ At(p, J, "nokey", "free", D, Tail(prog))'
        /\ \A x \in D : own'[p][x] = own[p][x]
    BY <2>1, <2>2, <2>4, <2>5, LockAt
  <2>8. At(p, {"enrich", "generate"}, "nokey", "free", {"enrich", "reel", "generate"},
           <<HandLast(t), Commit("committed")>>)'
    BY <2>3, <2>7 DEF J, D
  <2>9. HandOver3(p, t)'
    BY <1>4, <2>6, <2>7, <2>8 DEF HandOver3, Wrote, WroteJob, At
  <2> QED
    BY <2>7, <2>9 DEF HandingOver, Staged, Stage
<1> QED
  BY <1>2, <1>3, <1>4

LEMMA WriteEnding ==
  ASSUME Types, NEW p \in Procs, Ending(p), Write(p)
  PROVE  Staged(p)
<1>1. Next1(p).op \in {"flush", "touch", "refer"}
  BY DEF Write
<1>2. PICK j \in Jobs, ph \in Phases :
        /\ Ends(p, ph) /\ db[j].status \in InFlight /\ WroteJob(p, j, Settled)
        /\ Freeing(p, j, ph) \/ Stamping(p, j, ph) \/ Freed(p, j, ph)
  BY DEF Ending
<1>3. Stamping(p, j, ph)
  <2>1. ~Freeing(p, j, ph)
    BY <1>1 DEF Freeing, At, Next1, FreeOwner
  <2>2. ~Freed(p, j, ph)
    BY <1>1 DEF Freed, At, Next1, Commit
  <2> QED
    BY <1>2, <2>1, <2>2
<1>4. "reel" \in Owners /\ "cut" \in Owners /\ {j} \in SUBSET Jobs
  BY DEF Owners
<1>5. /\ Grown("reel", "nokey", "free", "free", "nokey", "free")
      /\ Grown("cut", "nokey", "free", "free", "free", "nokey")
      /\ Grown("cut", "nokey", "nokey", "free", "nokey", "nokey")
  BY DEF Grown, Stronger
<1>6. ASSUME /\ Types' /\ Elsewhere(p) /\ UNCHANGED <<db, phase>>
             /\ j \in DOMAIN own'[p] /\ own'[p][j] = own[p][j]
             /\ Stamping(p, j, ph)' \/ Freed(p, j, ph)'
      PROVE  Staged(p)
  <2>1. WroteJob(p, j, Settled)'
    BY <1>2, <1>6 DEF WroteJob
  <2>2. Stage(p)'
    BY <1>2, <1>6, <2>1, EndingNext
  <2> QED
    BY <1>6, <2>2 DEF Staged
<1>7. CASE /\ j = "generate"
           /\ At(p, {j}, "free", "free", {j},
                 <<Flush("reel", "guide_ready"), Touch("cut"), Commit(ph)>>)
  <2> DEFINE prog == <<Flush("reel", "guide_ready"), Touch("cut"), Commit(ph)>>
  <2>1. At(p, {j}, "free", "free", {j}, prog)
    BY <1>7
  <2>2. Head(prog) = Flush("reel", "guide_ready")
    OBVIOUS
  <2>3. Tail(prog) = <<Touch("cut"), Commit(ph)>>
    OBVIOUS
  <2>4. With({j}, "reel") = {j, "reel"} /\ j # "reel"
    BY <1>7 DEF With
  <2> HIDE DEF prog
  <2>5. /\ Took(p) /\ Sets(p, "reel", "guide_ready") /\ Keeps(p, {j}, "reel")
        /\ At(p, {j}, "nokey", "free", With({j}, "reel"), Tail(prog))'
    BY <1>4, <1>5, <2>1, <2>2, FlushAt
  <2>6. At(p, {j}, "nokey", "free", {j, "reel"}, <<Touch("cut"), Commit(ph)>>)'
    BY <2>3, <2>4, <2>5
  <2>7. j \in DOMAIN own'[p] /\ own'[p][j] = own[p][j]
    BY <2>4, <2>5, <2>6 DEF At, Keeps
  <2>8. Stamping(p, j, ph)'
    BY <1>7, <2>5, <2>6 DEF Stamping, Wrote, Sets
  <2> QED
    BY <1>6, <2>5, <2>7, <2>8 DEF Took
<1>8. CASE /\ j \in {"render", "rerender"}
           /\ At(p, {j}, "free", "free", {j}, <<Flush("cut", "in_review"), Commit(ph)>>)
  <2> DEFINE prog == <<Flush("cut", "in_review"), Commit(ph)>>
  <2>1. At(p, {j}, "free", "free", {j}, prog)
    BY <1>8
  <2>2. Head(prog) = Flush("cut", "in_review")
    OBVIOUS
  <2>3. Tail(prog) = <<Commit(ph)>>
    OBVIOUS
  <2>4. With({j}, "cut") = {j, "cut"} /\ j # "cut"
    BY <1>8 DEF With
  <2> HIDE DEF prog
  <2>5. /\ Took(p) /\ Sets(p, "cut", "in_review") /\ Keeps(p, {j}, "cut")
        /\ At(p, {j}, "free", "nokey", With({j}, "cut"), Tail(prog))'
    BY <1>4, <1>5, <2>1, <2>2, FlushAt
  <2>6. At(p, {j}, "free", "nokey", {j, "cut"}, <<Commit(ph)>>)'
    BY <2>3, <2>4, <2>5
  <2>7. j \in DOMAIN own'[p] /\ own'[p][j] = own[p][j]
    BY <2>4, <2>5, <2>6 DEF At, Keeps
  <2>8. OwnerOf(j) = "cut" /\ Wrote(p, "cut", IdleCut)'
    BY <1>8, <2>5 DEF OwnerOf, Wrote, IdleCut, Sets
  <2>9. Freed(p, j, ph)'
    BY <2>6, <2>8 DEF Freed
  <2> QED
    BY <1>6, <2>5, <2>7, <2>9 DEF Took
<1>9. CASE /\ j = "generate" /\ Wrote(p, "reel", {"guide_ready"})
           /\ At(p, {j}, "nokey", "free", {j, "reel"}, <<Touch("cut"), Commit(ph)>>)
  <2> DEFINE prog == <<Touch("cut"), Commit(ph)>>
             D == {j, "reel"}
  <2>1. At(p, {j}, "nokey", "free", D, prog)
    BY <1>9
  <2>2. Head(prog) = Touch("cut")
    OBVIOUS
  <2>3. Tail(prog) = <<Commit(ph)>>
    OBVIOUS
  <2>4. j \in D /\ "reel" \in D
    OBVIOUS
  <2> HIDE DEF prog, D
  <2>5. /\ Types' /\ Elsewhere(p) /\ UNCHANGED <<db, phase>>
        /\ At(p, {j}, "nokey", "nokey", D, Tail(prog))'
        /\ \A x \in D : own'[p][x] = own[p][x]
    BY <1>4, <1>5, <2>1, <2>2, LockAt
  <2>6. At(p, {j}, "nokey", "nokey", {j, "reel"}, <<Commit(ph)>>)'
    BY <2>3, <2>5 DEF D
  <2>7. j \in DOMAIN own'[p] /\ own'[p][j] = own[p][j]
    BY <2>4, <2>5, <2>6 DEF At
  <2>8. OwnerOf(j) = "reel" /\ Wrote(p, "reel", IdleReel)'
    BY <1>9, <2>4, <2>5, <2>6 DEF OwnerOf, Wrote, IdleReel, At
  <2>9. Freed(p, j, ph)'
    BY <2>6, <2>8 DEF Freed
  <2> QED
    BY <1>6, <2>5, <2>7, <2>9
<1> QED
  BY <1>3, <1>7, <1>8, <1>9 DEF Stamping

LEMMA WriteTriggering ==
  ASSUME Types, NEW p \in Procs, Triggering(p), Write(p)
  PROVE  Staged(p)
<1>1. Next1(p).op \in {"flush", "touch", "refer"}
  BY DEF Write
<1>2. Trigger1(p) \/ Trigger3(p)
  <2>1. ~Trigger2(p)
    BY <1>1 DEF Trigger2, At, Next1, Insert
  <2> QED
    BY <2>1 DEF Triggering
<1>3. "reel" \in Owners /\ "cut" \in Owners
      /\ {} \in SUBSET Jobs /\ {"rerender"} \in SUBSET Jobs
  BY DEF Owners, Jobs
<1>4. /\ Grown("cut", "nokey", "free", "update", "free", "update")
      /\ Grown("reel", "share", "free", "update", "share", "update")
      /\ Grown("cut", "share", "share", "update", "share", "update")
  BY DEF Grown, Stronger
<1>5. ASSUME /\ Types' /\ Elsewhere(p) /\ UNCHANGED <<db, phase>>
             /\ Trigger2(p)' \/ Trigger3(p)'
      PROVE  Staged(p)
  BY <1>5 DEF Triggering, Staged, Stage
<1>6. CASE Trigger1(p)
  <2> DEFINE prog == <<Flush("cut", "rendering"), Insert("rerender"), Refer("reel"),
                       Refer("cut"), Commit("sent")>>
  <2>1. At(p, {}, "free", "update", {}, prog)
    BY <1>6 DEF Trigger1
  <2>2. Head(prog) = Flush("cut", "rendering")
    OBVIOUS
  <2>3. Tail(prog) = <<Insert("rerender"), Refer("reel"), Refer("cut"), Commit("sent")>>
    OBVIOUS
  <2>4. With({}, "cut") = {"cut"}
    BY DEF With
  <2> HIDE DEF prog
  <2>5. /\ Took(p) /\ Sets(p, "cut", "rendering")
        /\ At(p, {}, "free", "update", With({}, "cut"), Tail(prog))'
    BY <1>3, <1>4, <2>1, <2>2, FlushAt
  <2>6. At(p, {}, "free", "update", {"cut"},
           <<Insert("rerender"), Refer("reel"), Refer("cut"), Commit("sent")>>)'
    BY <2>3, <2>4, <2>5
  <2>7. Trigger2(p)'
    BY <2>5, <2>6 DEF Trigger2, Wrote, Sets
  <2> QED
    BY <1>5, <2>5, <2>7 DEF Took
<1>7. CASE Trigger3(p)
  <2> DEFINE J == {"rerender"}
             D == {"cut", "rerender"}
  <2>1. J \in SUBSET Jobs /\ "cut" \in D /\ "rerender" \in D
    BY <1>3
  <2>2. ASSUME NEW rest, At(p, J, "share", "update", D, rest)',
               \A x \in D : own'[p][x] = own[p][x],
               rest \in {<<Refer("cut"), Commit("sent")>>, <<Commit("sent")>>}
        PROVE  Trigger3(p)'
    <3>1. /\ Wrote(p, "cut", {"rendering"})'
          /\ WroteJob(p, "rerender", {"pending"})'
      BY <1>7, <2>1, <2>2 DEF Trigger3, Wrote, WroteJob, At
    <3> QED
      BY <2>2, <3>1 DEF Trigger3
  <2>3. CASE At(p, J, "free", "update", D, <<Refer("reel"), Refer("cut"), Commit("sent")>>)
    <3> DEFINE prog == <<Refer("reel"), Refer("cut"), Commit("sent")>>
    <3>1. At(p, J, "free", "update", D, prog)
      BY <2>3
    <3>2. Head(prog) = Refer("reel")
      OBVIOUS
    <3>3. Tail(prog) = <<Refer("cut"), Commit("sent")>>
      OBVIOUS
    <3> HIDE DEF prog, J, D
    <3>4. /\ Types' /\ Elsewhere(p) /\ UNCHANGED <<db, phase>>
          /\ At(p, J, "share", "update", D, Tail(prog))'
          /\ \A x \in D : own'[p][x] = own[p][x]
      BY <1>3, <1>4, <2>1, <3>1, <3>2, LockAt
    <3>5. At(p, J, "share", "update", D, <<Refer("cut"), Commit("sent")>>)'
      BY <3>3, <3>4
    <3> QED
      BY <1>5, <2>2, <3>4, <3>5
  <2>4. CASE At(p, J, "share", "update", D, <<Refer("cut"), Commit("sent")>>)
    <3> DEFINE prog == <<Refer("cut"), Commit("sent")>>
    <3>1. At(p, J, "share", "update", D, prog)
      BY <2>4
    <3>2. Head(prog) = Refer("cut")
      OBVIOUS
    <3>3. Tail(prog) = <<Commit("sent")>>
      OBVIOUS
    <3> HIDE DEF prog, J, D
    <3>4. /\ Types' /\ Elsewhere(p) /\ UNCHANGED <<db, phase>>
          /\ At(p, J, "share", "update", D, Tail(prog))'
          /\ \A x \in D : own'[p][x] = own[p][x]
      BY <1>3, <1>4, <2>1, <3>1, <3>2, LockAt
    <3>5. At(p, J, "share", "update", D, <<Commit("sent")>>)'
      BY <3>3, <3>4
    <3> QED
      BY <1>5, <2>2, <3>4, <3>5
  <2>5. ~At(p, J, "share", "update", D, <<Commit("sent")>>)
    BY <1>1 DEF At, Next1, Commit
  <2> QED
    BY <1>7, <2>3, <2>4, <2>5 DEF Trigger3
<1> QED
  BY <1>2, <1>6, <1>7

LEMMA WriteStage ==
  ASSUME Types, NEW p \in Procs, Stage(p), Write(p)
  PROVE  Staged(p)
<1>1. Running(p) /\ Next1(p).op \in {"flush", "touch", "refer"}
  BY DEF Write
<1>2. \/ Begun(p) \/ Keeping(p) \/ Noting(p) \/ HandingOver(p) \/ Ending(p)
      \/ Triggering(p)
  BY <1>1, NextOp DEF Stage
<1> QED
  BY <1>2, WriteBegun, WriteKeeping, WriteNoting, WriteHandingOver, WriteEnding,
     WriteTriggering

(* rollback_owner, of a job that was in flight.                            *)
LEMMA FreeStage ==
  ASSUME Types, Agree, NEW p \in Procs, Stage(p), Free(p)
  PROVE  Staged(p)
<1>1. Running(p) /\ Next1(p).op = "free"
  BY DEF Free
<1>2. Ending(p) \/ Abandoning(p)
  BY <1>1, NextOp DEF Stage
<1>3. ASSUME NEW j \in Jobs, db[j].status \in InFlight, OwnerOf(j) \notin DOMAIN own[p]
      PROVE  Value(p, OwnerOf(j)) = OwnerState(j)
  BY <1>3 DEF Agree, Value
<1>4. CASE Ending(p)
  <2>1. PICK j \in Jobs, ph \in Phases :
          /\ Ends(p, ph) /\ db[j].status \in InFlight /\ WroteJob(p, j, Settled)
          /\ Freeing(p, j, ph) \/ Stamping(p, j, ph) \/ Freed(p, j, ph)
    BY <1>4 DEF Ending
  <2>2. Freeing(p, j, ph)
    <3>1. ~Stamping(p, j, ph)
      BY <1>1 DEF Stamping, At, Next1, Flush, Touch
    <3>2. ~Freed(p, j, ph)
      BY <1>1 DEF Freed, At, Next1, Commit
    <3> QED
      BY <2>1, <3>1, <3>2
  <2>3. PICK r : r = OwnerOf(j)
    OBVIOUS
  <2>4. r \in {"reel", "cut"} /\ r # j
    BY <2>3 DEF OwnerOf, Jobs
  <2> DEFINE prog == <<FreeOwner(j), Commit(ph)>>
  <2>5. At(p, {j}, "free", "free", {j}, prog)
    BY <2>2 DEF Freeing
  <2>6. Head(prog) = FreeOwner(j)
    OBVIOUS
  <2>7. Tail(prog) = <<Commit(ph)>>
    OBVIOUS
  <2>8. {j} \in SUBSET Jobs
    OBVIOUS
  <2>9. Value(p, r) = OwnerState(j)
    BY <1>3, <2>1, <2>3, <2>4, <2>5 DEF At
  <2>10. PICK reel2, cut2 : Grown(r, "update", "free", "free", reel2, cut2)
    BY DEF Grown
  <2> HIDE DEF prog
  <2>11. /\ Took(p) /\ Sets(p, r, "failed") /\ Keeps(p, {j}, r)
         /\ At(p, {j}, reel2, cut2, With({j}, r), Tail(prog))'
    BY <2>3, <2>5, <2>6, <2>8, <2>9, <2>10, FreeAt
  <2>12. At(p, {j}, reel2, cut2, {j, r}, <<Commit(ph)>>)'
    BY <2>7, <2>11 DEF With
  <2>13. WroteJob(p, j, Settled)'
    BY <2>1, <2>4, <2>11, <2>12 DEF WroteJob, Keeps, At
  <2>14. Freed(p, j, ph)'
    <3>1. CASE r = "reel"
      <4>1. reel2 = "update" /\ cut2 = "free"
        BY <2>10, <3>1 DEF Grown, Stronger
      <4>2. Wrote(p, "reel", IdleReel)'
        BY <2>11, <3>1 DEF Sets, Wrote, IdleReel
      <4> QED
        BY <2>3, <2>12, <3>1, <4>1, <4>2 DEF Freed
    <3>2. CASE r = "cut"
      <4>1. reel2 = "free" /\ cut2 = "update"
        BY <2>10, <3>2 DEF Grown, Stronger
      <4>2. Wrote(p, "cut", IdleCut)'
        BY <2>11, <3>2 DEF Sets, Wrote, IdleCut
      <4> QED
        BY <2>3, <2>12, <3>2, <4>1, <4>2 DEF Freed
    <3> QED
      BY <2>4, <3>1, <3>2
  <2>15. Stage(p)'
    BY <2>1, <2>11, <2>13, <2>14, EndingNext DEF Took
  <2> QED
    BY <2>11, <2>15 DEF Staged, Took
<1>5. CASE Abandoning(p)
  <2> DEFINE prog == <<FreeOwner("generate"), Commit("over")>>
             J == {"enrich", "generate"}
  <2>1. Abandon2(p) /\ At(p, J, "free", "free", J, prog)
    <3>1. ~Abandon1(p)
      BY <1>1 DEF Abandon1, At, Next1, Cas, Commit
    <3> QED
      BY <1>1, <1>5, <3>1 DEF Abandoning, Abandon2, At, Next1, Commit
  <2>2. Head(prog) = FreeOwner("generate")
    OBVIOUS
  <2>3. Tail(prog) = <<Commit("over")>>
    OBVIOUS
  <2>4. J \in SUBSET Jobs /\ "generate" \in Jobs /\ "reel" = OwnerOf("generate")
    BY DEF Jobs, OwnerOf
  <2>5. Value(p, "reel") = OwnerState("generate")
    BY <1>3, <2>1, <2>4 DEF Abandon2, InFlight, At
  <2>6. Grown("reel", "update", "free", "free", "update", "free")
    BY DEF Grown, Stronger
  <2>7. With(J, "reel") = {"enrich", "generate", "reel"}
        /\ "enrich" \in J /\ "generate" \in J
    BY DEF With
  <2> HIDE DEF prog, J
  <2>8. /\ Took(p) /\ Sets(p, "reel", "failed") /\ Keeps(p, J, "reel")
        /\ At(p, J, "update", "free", With(J, "reel"), Tail(prog))'
    BY <2>1, <2>2, <2>4, <2>5, <2>6, FreeAt
  <2>9. At(p, {"enrich", "generate"}, "update", "free", {"enrich", "generate", "reel"},
           <<Commit("over")>>)'
    BY <2>3, <2>7, <2>8 DEF J
  <2>10. /\ WroteJob(p, "enrich", {"failed"})' /\ WroteJob(p, "generate", {"failed"})'
         /\ Wrote(p, "reel", {"failed"})'
    BY <1>5, <2>1, <2>7, <2>8, <2>9
       DEF Abandoning, Abandon2, WroteJob, Wrote, Keeps, Sets, At
  <2>11. Abandon2(p)'
    BY <2>1, <2>8, <2>9, <2>10 DEF Abandon2, Took
  <2> QED
    BY <1>5, <2>8, <2>10, <2>11 DEF Abandoning, Staged, Stage, Took
<1> QED
  BY <1>2, <1>4, <1>5

(* And the guard of a route.                                               *)
LEMMA GuardStage ==
  ASSUME Types, NEW p \in Procs, Stage(p), CheckGuard(p)
  PROVE  Staged(p)
<1>1. Running(p) /\ Next1(p).op = "guard"
  BY DEF CheckGuard
<1>2. Begun(p)
  BY <1>1, NextOp DEF Stage
<1>3. PICK prog : prog = txn[p]
  OBVIOUS
<1>4. At(p, {}, "free", "free", {}, prog) /\ Head(prog).op = "guard"
  BY <1>1, <1>2, <1>3 DEF Begun, Next1
<1>5. p = "router" /\ phase[p] = "start" /\ prog = TriggerRender
  <2>1. ASSUME NEW j \in Jobs, NEW t PROVE ~WorkerProgram(p, prog, j, t)
    <3>1. prog \notin {Claim(j), Heartbeat(j, t), FailJob(j, "running", t)}
      BY <1>4 DEF Claim, Heartbeat, FailJob, Cas
    <3>2. prog \notin {ResetForRetry(j, t), HandOver(t), Abandon}
      BY <1>4 DEF ResetForRetry, HandOver, Abandon, Cas
    <3>3. prog \notin {DoneStamp(j, t), RecordStage(j)}
      BY <1>4 DEF DoneStamp, RecordStage, Cas, Refer
    <3> QED
      BY <3>1, <3>2, <3>3 DEF WorkerProgram
  <2>2. ASSUME NEW j \in Jobs PROVE ~ReaperProgram(p, prog, j)
    <3>1. prog # ReapResume(j)
      BY <1>4 DEF ReapResume, Cas
    <3>2. ASSUME NEW from PROVE prog # ReapFail(j, from)
      BY <1>4 DEF ReapFail, Cas
    <3> QED
      BY <3>1, <3>2 DEF ReaperProgram
  <2>3. prog # FailJob("rerender", "pending", Unfenced)
    BY <1>4 DEF FailJob, Cas
  <2> QED
    BY <1>2, <1>3, <2>1, <2>2, <2>3 DEF Begun, RouterProgram
<1> DEFINE from == {"failed", "draft", "in_review"}
<1>6. Head(prog) = Guard("cut", from)
  BY <1>5 DEF TriggerRender
<1>7. Tail(prog) = <<Flush("cut", "rendering"), Insert("rerender"), Refer("reel"),
                     Refer("cut"), Commit("sent")>>
  BY <1>5 DEF TriggerRender
<1>8. from = IdleCut
  BY DEF IdleCut
<1> HIDE DEF from
<1>9. Value(p, "cut") = db["cut"]
  BY <1>4 DEF At, Value
<1>10. /\ Types' /\ Elsewhere(p) /\ db' = db
       /\ \/ /\ phase' = phase /\ Value(p, "cut") \in from
             /\ At(p, {}, "free", "update", {}, Tail(prog))'
          \/ Resting(p)' /\ phase'[p] = "over"
  BY <1>4, <1>6, GuardAt
<1>11. ASSUME /\ phase' = phase /\ Value(p, "cut") \in from
              /\ At(p, {}, "free", "update", {}, Tail(prog))'
       PROVE  Triggering(p)'
  <2>1. Trigger1(p)'
    BY <1>7, <1>11 DEF Trigger1
  <2> QED
    BY <1>5, <1>8, <1>9, <1>10, <1>11, <2>1 DEF Triggering
<1> QED
  BY <1>10, <1>11 DEF Staged, Stage

(* And a roll-back.                                                        *)
LEMMA AbortStage ==
  ASSUME Types, NEW p \in Procs, Abort(p)
  PROVE  Staged(p)
<1>1. PICK ph : ph = phase[p]
  OBVIOUS
<1>2. ph \in Phases /\ RollBack(p, ph)
  BY <1>1 DEF Types, Abort
<1> QED
  BY <1>1, <1>2, RollBackRests DEF Staged, Stage

-----------------------------------------------------------------------------
(* Locks and what they protect.                                            *)

Writes(m) == m \in {"nokey", "update"}

(* What a process has written it holds the lock of.                        *)
LEMMA OwnHeld ==
  ASSUME NEW p \in Procs, Stage(p), NEW r \in DOMAIN own[p]
  PROVE  r \in Rows /\ Writes(held[p][r])
<1> USE DEF Writes, At, Rows, Owners
<1>1. ~Resting(p) /\ ~Begun(p) /\ ~Noting(p)
  BY DEF Resting, Begun, Noting, Noted
<1>2. CASE Keeping(p)
  BY <1>2 DEF Keeping, Kept
<1>3. CASE HandingOver(p)
  <2>1. ASSUME NEW t, HandOver1(p, t) \/ HandOver2(p, t) \/ HandOver3(p, t)
        PROVE  r \in Rows /\ Writes(held[p][r])
    BY <2>1 DEF HandOver1, HandOver2, HandOver3, Jobs
  <2>2. CASE HandOver4(p)
    BY <2>2 DEF HandOver4, Jobs
  <2> QED
    BY <1>3, <2>1, <2>2 DEF HandingOver
<1>4. CASE Ending(p)
  <2>1. PICK j \in Jobs, ph \in Phases :
          Freeing(p, j, ph) \/ Stamping(p, j, ph) \/ Freed(p, j, ph)
    BY <1>4 DEF Ending
  <2>2. CASE Freeing(p, j, ph)
    BY <2>2 DEF Freeing
  <2>3. CASE Stamping(p, j, ph)
    BY <2>3 DEF Stamping, Jobs
  <2>4. CASE Freed(p, j, ph)
    BY <2>4 DEF Freed, Jobs
  <2> QED
    BY <2>1, <2>2, <2>3, <2>4
<1>5. CASE Abandoning(p)
  BY <1>5 DEF Abandoning, Abandon1, Abandon2, Jobs
<1>6. CASE Triggering(p)
  BY <1>6 DEF Triggering, Trigger1, Trigger2, Trigger3, Jobs
<1> QED
  BY <1>1, <1>2, <1>3, <1>4, <1>5, <1>6 DEF Stage

(* A stage depends on no row of the database but those its process holds.  *)
LEMMA StageStable ==
  ASSUME NEW p \in Procs, Stage(p),
         held'[p] = held[p], own'[p] = own[p], txn'[p] = txn[p], phase'[p] = phase[p],
         \A r \in Rows : Writes(held[p][r]) => db'[r] = db[r]
  PROVE  Stage(p)'
<1>1. ASSUME NEW J, NEW reel, NEW cut, NEW D, NEW rest, At(p, J, reel, cut, D, rest)
      PROVE  /\ At(p, J, reel, cut, D, rest)'
             /\ \A j \in J \intersect Jobs : db'[j] = db[j]
             /\ Writes(cut) => db'["cut"] = db["cut"]
  BY <1>1 DEF At, Writes, Rows, Jobs, Owners
<1>2. ASSUME NEW r, NEW V
      PROVE  (Wrote(p, r, V) => Wrote(p, r, V)') /\ (WroteJob(p, r, V) => WroteJob(p, r, V)')
  BY DEF Wrote, WroteJob
<1>3. CASE Resting(p)
  <2>1. Resting(p)'
    BY <1>1, <1>3 DEF Resting
  <2> QED
    BY <2>1 DEF Stage
<1>4. CASE Begun(p)
  <2>1. At(p, {}, "free", "free", {}, txn[p])'
    BY <1>4 DEF Begun, At
  <2>2. Begun(p)'
    <3>1. At(p, {}, "free", "free", {}, txn[p])'
      BY <2>1
    <3>2. CASE RouterProgram(p, txn[p])
      <4>1. RouterProgram(p, txn[p])'
        BY <3>2 DEF RouterProgram
      <4> QED
        BY <3>1, <4>1 DEF Begun
    <3>3. ASSUME NEW j \in Jobs, NEW t, WorkerProgram(p, txn[p], j, t) PROVE Begun(p)'
      <4>1. WorkerProgram(p, txn[p], j, t)'
        BY <3>3 DEF WorkerProgram
      <4> QED
        BY <3>1, <4>1 DEF Begun
    <3>4. ASSUME NEW j \in Jobs, ReaperProgram(p, txn[p], j) PROVE Begun(p)'
      <4>1. ReaperProgram(p, txn[p], j)'
        BY <3>4 DEF ReaperProgram
      <4> QED
        BY <3>1, <4>1 DEF Begun
    <3> QED
      BY <1>4, <3>2, <3>3, <3>4 DEF Begun
  <2> QED
    BY <2>2 DEF Stage
<1>5. CASE Keeping(p)
  <2>1. PICK j \in Jobs, ph \in Phases :
          /\ Ends(p, ph) /\ db[j].status \in InFlight /\ WroteJob(p, j, InFlight)
          /\ Kept(p, j, ph)
    BY <1>5 DEF Keeping
  <2>2. db'[j] = db[j]
    BY <1>1, <2>1 DEF Kept
  <2>3. Kept(p, j, ph)'
    BY <1>1, <2>1 DEF Kept
  <2> QED
    BY <1>2, <2>1, <2>2, <2>3, KeepingNext
<1>6. CASE Noting(p)
  <2>1. PICK ph \in Phases : Ends(p, ph) /\ Noted(p, ph)
    BY <1>6 DEF Noting
  <2>2. Noted(p, ph)'
    BY <1>1, <2>1 DEF Noted
  <2> QED
    BY <2>1, <2>2, NotingNext
<1>7. CASE HandingOver(p)
  <2>1. ASSUME NEW t, HandOver1(p, t) \/ HandOver2(p, t) \/ HandOver3(p, t)
        PROVE  Stage(p)'
    <3>1. db'["enrich"] = db["enrich"]
      BY <1>1, <2>1 DEF HandOver1, HandOver2, HandOver3, Jobs
    <3>2. HandOver1(p, t)' \/ HandOver2(p, t)' \/ HandOver3(p, t)'
      BY <1>1, <1>2, <2>1 DEF HandOver1, HandOver2, HandOver3
    <3> QED
      BY <1>7, <3>1, <3>2 DEF HandingOver, Stage
  <2>2. CASE HandOver4(p)
    <3>1. db'["enrich"] = db["enrich"]
      BY <1>1, <2>2 DEF HandOver4, Jobs
    <3>2. HandOver4(p)'
      BY <1>1, <1>2, <2>2 DEF HandOver4
    <3> QED
      BY <1>7, <3>1, <3>2 DEF HandingOver, Stage
  <2> QED
    BY <1>7, <2>1, <2>2 DEF HandingOver
<1>8. CASE Ending(p)
  <2>1. PICK j \in Jobs, ph \in Phases :
          /\ Ends(p, ph) /\ db[j].status \in InFlight /\ WroteJob(p, j, Settled)
          /\ Freeing(p, j, ph) \/ Stamping(p, j, ph) \/ Freed(p, j, ph)
    BY <1>8 DEF Ending
  <2>2. CASE Freeing(p, j, ph)
    BY <1>1, <1>2, <2>1, <2>2, EndingNext DEF Freeing
  <2>3. CASE Stamping(p, j, ph)
    <3>1. db'[j] = db[j]
      BY <1>1, <2>3 DEF Stamping
    <3>2. Stamping(p, j, ph)'
      BY <1>1, <1>2, <2>3 DEF Stamping
    <3> QED
      BY <1>2, <2>1, <3>1, <3>2, EndingNext
  <2>4. CASE Freed(p, j, ph)
    <3>1. db'[j] = db[j]
      BY <1>1, <2>4 DEF Freed
    <3>2. Freed(p, j, ph)'
      BY <1>1, <1>2, <2>4 DEF Freed
    <3> QED
      BY <1>2, <2>1, <3>1, <3>2, EndingNext
  <2> QED
    BY <2>1, <2>2, <2>3, <2>4
<1>9. CASE Abandoning(p)
  <2>1. CASE Abandon1(p)
    <3>1. db'["enrich"] = db["enrich"]
      BY <1>1, <2>1 DEF Abandon1, Jobs
    <3>2. Abandon1(p)'
      BY <1>1, <2>1 DEF Abandon1
    <3> QED
      BY <1>2, <1>9, <3>1, <3>2 DEF Abandoning, Stage
  <2>2. CASE Abandon2(p)
    <3>1. db'["enrich"] = db["enrich"] /\ db'["generate"] = db["generate"]
      BY <1>1, <2>2 DEF Abandon2, Jobs
    <3>2. Abandon2(p)'
      BY <1>1, <1>2, <2>2, <3>1 DEF Abandon2
    <3> QED
      BY <1>2, <1>9, <3>1, <3>2 DEF Abandoning, Stage
  <2> QED
    BY <1>9, <2>1, <2>2 DEF Abandoning
<1>10. CASE Triggering(p)
  <2>1. db'["cut"] = db["cut"]
    BY <1>1, <1>10 DEF Triggering, Trigger1, Trigger2, Trigger3, Writes
  <2>2. Trigger1(p)' \/ Trigger2(p)' \/ Trigger3(p)'
    BY <1>1, <1>2, <1>10 DEF Triggering, Trigger1, Trigger2, Trigger3
  <2> QED
    BY <1>10, <2>1, <2>2 DEF Triggering, Stage
<1> QED
  BY <1>3, <1>4, <1>5, <1>6, <1>7, <1>8, <1>9, <1>10 DEF Stage

(* The row of each statement.                                              *)
RowOf(s) ==
  /\ s.op = "cas" => s.row \in Jobs /\ s.from # "none"
  /\ s.op \in {"flush", "touch", "refer", "free", "guard"} => s.row \in Owners
  /\ s.op = "insert" => s.row \in Jobs

(* The next statement of a stage is about a row of its kind.               *)
LEMMA NextRow ==
  ASSUME NEW p \in Procs, Running(p), Stage(p)
  PROVE  RowOf(Next1(p))
<1>1. /\ \A j \in Jobs : \A from, to, t, miss :
             from # "none" => RowOf(Cas(j, from, to, t, miss))
      /\ \A r \in Owners : \A to : RowOf(Flush(r, to)) /\ RowOf(Guard(r, to))
      /\ \A r \in Owners : RowOf(Touch(r)) /\ RowOf(Refer(r))
      /\ \A j \in Jobs : RowOf(Insert(j)) /\ RowOf(FreeOwner(j))
      /\ \A ph : RowOf(Commit(ph))
  BY DEF RowOf, Cas, Flush, Guard, Touch, Refer, Insert, FreeOwner, Commit, OwnerOf, Owners
<1>2. /\ "reel" \in Owners /\ "cut" \in Owners /\ \A j \in Jobs : OwnerOf(j) \in Owners
      /\ {"enrich", "generate", "render", "rerender"} = Jobs
  BY DEF Owners, OwnerOf, Jobs
<1>3. CASE Begun(p)
  <2>1. CASE RouterProgram(p, txn[p])
    BY <1>1, <1>2, <2>1 DEF RouterProgram, TriggerRender, FailJob, Next1
  <2>2. ASSUME NEW j \in Jobs, NEW t, WorkerProgram(p, txn[p], j, t)
        PROVE  RowOf(Next1(p))
    <3>1. CASE txn[p] \in {Claim(j), Heartbeat(j, t), FailJob(j, "running", t)}
      BY <1>1, <3>1 DEF Claim, Heartbeat, FailJob, Next1
    <3>2. CASE txn[p] \in {ResetForRetry(j, t), HandOver(t), Abandon}
      BY <1>1, <1>2, <3>2 DEF ResetForRetry, HandOver, Abandon, Next1
    <3>3. CASE txn[p] \in {RecordStage(j), DoneStamp(j, t)}
      BY <1>1, <1>2, <3>3 DEF RecordStage, DoneStamp, Next1
    <3> QED
      BY <2>2, <3>1, <3>2, <3>3 DEF WorkerProgram
  <2>3. ASSUME NEW j \in Jobs, ReaperProgram(p, txn[p], j) PROVE RowOf(Next1(p))
    <3>1. CASE txn[p] = ReapResume(j)
      BY <1>1, <3>1 DEF ReapResume, Next1
    <3>2. ASSUME NEW from \in InFlight, txn[p] = ReapFail(j, from) PROVE RowOf(Next1(p))
      BY <1>1, <3>2 DEF ReapFail, Next1, InFlight
    <3> QED
      BY <2>3, <3>1, <3>2 DEF ReaperProgram
  <2> QED
    BY <1>3, <2>1, <2>2, <2>3 DEF Begun
<1>4. CASE Keeping(p)
  BY <1>1, <1>2, <1>4 DEF Keeping, Kept, At, Next1
<1>5. CASE Noting(p)
  BY <1>1, <1>2, <1>5 DEF Noting, Noted, At, Next1
<1>6. CASE HandingOver(p)
  <2>1. ASSUME NEW t, HandOver1(p, t) \/ HandOver2(p, t) \/ HandOver3(p, t)
        PROVE  RowOf(Next1(p))
    BY <1>1, <1>2, <2>1 DEF HandOver1, HandOver2, HandOver3, HandLast, At, Next1
  <2>2. CASE HandOver4(p)
    BY <1>1, <2>2 DEF HandOver4, At, Next1
  <2> QED
    BY <1>6, <2>1, <2>2 DEF HandingOver
<1>7. CASE Ending(p)
  BY <1>1, <1>2, <1>7 DEF Ending, Freeing, Stamping, Freed, At, Next1
<1>8. CASE Abandoning(p)
  BY <1>1, <1>2, <1>8 DEF Abandoning, Abandon1, Abandon2, At, Next1
<1>9. CASE Triggering(p)
  BY <1>1, <1>2, <1>9 DEF Triggering, Trigger1, Trigger2, Trigger3, At, Next1
<1> QED
  BY <1>3, <1>4, <1>5, <1>6, <1>7, <1>8, <1>9, NextOp DEF Stage

(* Who holds a job's lock, and what that says of the job.                  *)
LEMMA JobHolder ==
  ASSUME NEW p \in Procs, Stage(p), NEW j \in Jobs, held[p][j] # "free"
  PROVE  /\ held[p][j] = "nokey"
         /\ \/ db[j].status \in InFlight
            \/ j = "enrich"
            \/ j = "generate" /\ held[p]["enrich"] = "nokey" /\ db["enrich"].status = "running"
            \/ j = "rerender" /\ p = "router"
<1>1. ASSUME NEW J, NEW reel, NEW cut, NEW D, NEW rest, At(p, J, reel, cut, D, rest)
      PROVE  j \in J /\ held[p][j] = "nokey" /\ ("enrich" \in J => held[p]["enrich"] = "nokey")
  BY <1>1 DEF At, Rows, Jobs
<1>2. ~Resting(p) /\ ~Begun(p) /\ ~Noting(p)
  BY DEF Resting, Begun, Noting, Noted, At, Rows, Jobs
<1>3. CASE Keeping(p)
  BY <1>1, <1>3 DEF Keeping, Kept
<1>4. CASE HandingOver(p)
  <2>1. ASSUME NEW t, HandOver1(p, t) \/ HandOver2(p, t) \/ HandOver3(p, t)
        PROVE  /\ j \in {"enrich", "generate"}
               /\ held[p][j] = "nokey" /\ held[p]["enrich"] = "nokey"
    BY <1>1, <2>1 DEF HandOver1, HandOver2, HandOver3
  <2>2. ASSUME HandOver4(p)
        PROVE  /\ j \in {"enrich", "generate"}
               /\ held[p][j] = "nokey" /\ held[p]["enrich"] = "nokey"
    BY <1>1, <2>2 DEF HandOver4
  <2> QED
    BY <1>4, <2>1, <2>2 DEF HandingOver
<1>5. CASE Ending(p)
  BY <1>1, <1>5 DEF Ending, Freeing, Stamping, Freed
<1>6. CASE Abandoning(p)
  BY <1>1, <1>6 DEF Abandoning, Abandon1, Abandon2, InFlight
<1>7. CASE Triggering(p)
  BY <1>1, <1>7 DEF Triggering, Trigger1, Trigger2, Trigger3
<1> QED
  BY <1>2, <1>3, <1>4, <1>5, <1>6, <1>7 DEF Stage

(* A lock is taken when nobody holds one that excludes it.                 *)
LEMMA TakeExcludes ==
  ASSUME Types, Exclusive, NEW p \in Procs, NEW s, s.row \in Rows, NEW u, Take(p, s, u),
         \A q \in Procs \ {p} : ~Conflict(ModeOf(s), held[q][s.row])
  PROVE  Exclusive'
<1>1. /\ Elsewhere(p)
      /\ held'[p][s.row] = Stronger(held[p][s.row], ModeOf(s))
      /\ \A r \in Rows \ {s.row} : held'[p][r] = held[p][r]
  BY TakeAt
<1>2. held'[p][s.row] \in {held[p][s.row], ModeOf(s)}
  BY <1>1 DEF Stronger
<1>3. \A q \in Procs \ {p} : held'[q] = held[q]
  BY <1>1 DEF Elsewhere
<1>4. \A q \in Procs \ {p} : \A r \in Rows : ~Conflict(held'[p][r], held'[q][r])
  BY <1>1, <1>2, <1>3 DEF Exclusive
<1>5. \A m, n : Conflict(m, n) <=> Conflict(n, m)
  BY DEF Conflict
<1> QED
  BY <1>3, <1>4, <1>5 DEF Exclusive

(* Who holds nothing excludes nobody.                                      *)
LEMMA RestExcludes ==
  ASSUME Exclusive, NEW p \in Procs, Resting(p)',
         \A q \in Procs \ {p} : held'[q] = held[q]
  PROVE  Exclusive'
<1>1. \A r \in Rows : held'[p][r] = "free"
  BY DEF Resting, At
<1>2. \A m : ~Conflict("free", m) /\ ~Conflict(m, "free")
  BY DEF Conflict
<1> QED
  BY <1>1, <1>2 DEF Exclusive

(* The statements: nobody holds what p asks for.                           *)
LEMMA StatementExcludes ==
  ASSUME LockInv, NEW p \in Procs, NEW u, Running(p), Take(p, Next1(p), u),
         Next1(p).op \in {"cas", "flush", "touch", "refer", "free", "guard"},
         Next1(p).op = "cas" => Value(p, Next1(p).row).status = Next1(p).from,
         Blockers(p) = {}
  PROVE  Exclusive'
<1> DEFINE s == Next1(p)
<1>1. RowOf(s)
  BY NextRow DEF LockInv
<1>2. s.row \in Rows
  BY <1>1 DEF RowOf, Rows
<1>3. Visible(p, s.row)
  <2>1. CASE s.op = "cas"
    BY <1>1, <2>1 DEF RowOf, Visible, Value
  <2>2. CASE s.op # "cas"
    BY <1>1, <2>2 DEF RowOf, Visible
  <2> QED
    BY <2>1, <2>2
<1>4. \A q \in Procs \ {p} : ~Conflict(ModeOf(s), held[q][s.row])
  BY <1>3 DEF Blockers, NeedsLock
<1> HIDE DEF s
<1>5. Take(p, s, u)
  BY DEF s
<1> QED
  BY <1>2, <1>4, <1>5, TakeExcludes DEF LockInv

(* An inserted job was held by nobody.                                     *)
LEMMA InsertExcludes ==
  ASSUME LockInv, NEW p \in Procs, InsertJob(p)
  PROVE  Exclusive'
<1> DEFINE s == Next1(p)
           u == Writing(s, [status |-> "pending", token |-> 0])
<1>1. Running(p) /\ s.op = "insert" /\ Take(p, s, u)
  BY DEF InsertJob
<1> HIDE DEF u
<1>2. HandingOver(p) \/ Triggering(p)
  BY <1>1, NextOp DEF Stage, LockInv
<1>3. \A q \in Procs \ {p} : held[q][s.row] = "free"
  <2>1. SUFFICES ASSUME NEW q \in Procs \ {p}, held[q][s.row] # "free" PROVE FALSE
    OBVIOUS
  <2>2. CASE HandingOver(p)
    <3>1. PICK t : HandOver2(p, t)
      <4>1. ASSUME NEW t, HandOver1(p, t) \/ HandOver3(p, t) PROVE FALSE
        BY <1>1, <4>1 DEF HandOver1, HandOver3, HandLast, At, Next1, Flush, Refer, Cas
      <4>2. ~HandOver4(p)
        BY <1>1 DEF HandOver4, At, Next1, Commit
      <4> QED
        BY <2>2, <4>1, <4>2 DEF HandingOver
    <3>2. s.row = "generate" /\ held[p]["enrich"] = "nokey"
      BY <3>1 DEF HandOver2, At, Next1, Insert, Rows, Jobs
    <3>3. db["generate"].status = "none"
      BY <2>2 DEF HandingOver, LockInv, Agree, InFlight
    <3>4. held[q]["enrich"] = "nokey"
      BY <2>1, <3>2, <3>3, JobHolder DEF LockInv, Jobs, InFlight
    <3> QED
      BY <3>2, <3>4 DEF LockInv, Exclusive, Conflict, Rows, Jobs
  <2>3. CASE Triggering(p)
    <3>1. Trigger2(p)
      <4>1. ~Trigger1(p) /\ ~Trigger3(p)
        BY <1>1 DEF Trigger1, Trigger3, At, Next1, Flush, Refer, Commit
      <4> QED
        BY <2>3, <4>1 DEF Triggering
    <3>2. s.row = "rerender" /\ p = "router"
      BY <2>3, <3>1 DEF Trigger2, At, Next1, Insert, Triggering
    <3>3. db["rerender"].status = "none"
      BY <2>3 DEF Triggering, LockInv, Agree
    <3> QED
      BY <2>1, <3>2, <3>3, JobHolder DEF LockInv, Jobs, InFlight
  <2> QED
    BY <1>2, <2>2, <2>3
<1>4. \A m : ~Conflict(m, "free")
  BY DEF Conflict
<1>5. s.row \in Rows
  BY <1>1, NextRow DEF LockInv, RowOf, Rows
<1> HIDE DEF s
<1> QED
  BY <1>1, <1>3, <1>4, <1>5, TakeExcludes DEF LockInv

-----------------------------------------------------------------------------
(* A commit.                                                               *)

(* The rows after p's commit.                                              *)
Committed(p) ==
  /\ \A r \in DOMAIN own[p] : db'[r] = own[p][r]
  /\ \A r \in Rows \ DOMAIN own[p] : db'[r] = db[r]

(* A commit writes what its process wrote and frees its locks.             *)
LEMMA CommitEffect ==
  ASSUME Types, NEW p \in Procs, Stage(p), CommitTxn(p),
         NEW ph \in Phases, Next1(p) = Commit(ph)
  PROVE  /\ DOMAIN db' = Rows /\ Committed(p)
         /\ DOMAIN own' = Procs /\ DOMAIN txn' = Procs
         /\ held' \in [Procs -> [Rows -> Modes]] /\ phase' \in [Procs -> Phases]
         /\ Resting(p)' /\ Elsewhere(p) /\ phase'[p] = ph
<1>1. /\ db' = Over(own[p], db)
      /\ held' = [held EXCEPT ![p] = [r \in Rows |-> "free"]]
      /\ own' = [own EXCEPT ![p] = << >>] /\ txn' = [txn EXCEPT ![p] = << >>]
      /\ phase' = [phase EXCEPT ![p] = ph]
  BY DEF CommitTxn, Commit
<1>2. DOMAIN own[p] \subseteq Rows
  BY OwnHeld
<1>3. DOMAIN db' = Rows /\ Committed(p)
  BY <1>1, <1>2 DEF Over, Types, Committed
<1>4. /\ held' \in [Procs -> [Rows -> Modes]]
      /\ \A r \in Rows : held'[p][r] = "free"
      /\ \A q \in Procs \ {p} : held'[q] = held[q]
  BY <1>1 DEF Types, Modes
<1>5. /\ DOMAIN own' = Procs /\ DOMAIN txn' = Procs /\ phase' \in [Procs -> Phases]
      /\ own'[p] = << >> /\ txn'[p] = << >> /\ phase'[p] = ph
      /\ \A q \in Procs \ {p} :
           own'[q] = own[q] /\ txn'[q] = txn[q] /\ phase'[q] = phase[q]
  BY <1>1 DEF Types
<1>6. DOMAIN own'[p] = {}
  BY <1>5
<1>7. Resting(p)'
  BY <1>4, <1>5, <1>6 DEF Resting, At
<1> QED
  BY <1>3, <1>4, <1>5, <1>7 DEF Elsewhere

(* The rows agree after each commit.                                       *)
DbTypes ==
  /\ \A j \in Jobs : db[j].status \in JobStatus
  /\ db["reel"] \in {"enriching", "generating"} \union IdleReel
  /\ db["cut"] \in {"rendering"} \union IdleCut

(* A commit that keeps each job in flight or not, and its owner with it.   *)
Ready(p, ph) == Next1(p) = Commit(ph) /\ Ends(p, ph)

(* No router starts over.                                                  *)
StartsNot(p) ==
  phase'["router"] = "start" => phase["router"] = "start" /\ p # "router"

(* What each stage commits agrees.                                         *)
LEMMA CommitKeeping ==
  ASSUME Types, Agree, NEW p \in Procs, Keeping(p), Next1(p).op = "commit"
  PROVE  \E ph \in Phases :
           Ready(p, ph) /\ (Committed(p) /\ StartsNot(p) => (DbTypes /\ Agree)')
<1>1. PICK j \in Jobs, ph \in Phases :
        /\ Ends(p, ph) /\ db[j].status \in InFlight /\ WroteJob(p, j, InFlight)
        /\ Kept(p, j, ph)
  BY DEF Keeping
<1>2. DOMAIN own[p] = {j} /\ Ready(p, ph)
  BY <1>1 DEF Kept, At, Next1, Ready, Touch
<1>3. ASSUME Committed(p), StartsNot(p) PROVE (DbTypes /\ Agree)'
  <2>1. db'[j].status \in InFlight
    BY <1>1, <1>2, <1>3 DEF Committed, WroteJob
  <2>2. \A r \in Rows \ {j} : db'[r] = db[r]
    BY <1>2, <1>3 DEF Committed
  <2>3. \A k \in Jobs : db'[k].status \in InFlight <=> db[k].status \in InFlight
    BY <1>1, <2>1, <2>2 DEF Rows
  <2>4. db'["reel"] = db["reel"] /\ db'["cut"] = db["cut"]
    BY <2>2 DEF Rows, Owners, Jobs
  <2>5. \A k \in Jobs : db'[k].status = "none" <=> db[k].status = "none"
    BY <1>1, <2>1, <2>2 DEF Rows, InFlight
  <2>6. DbTypes'
    BY <2>1, <2>2, <2>4 DEF DbTypes, Types, Rows, InFlight, JobStatus
  <2>7. \A k \in Jobs : OwnerOf(k) \in {"reel", "cut"}
    BY DEF OwnerOf
  <2>8. Agree'
    BY <1>3, <2>3, <2>4, <2>5, <2>7 DEF Agree, StartsNot, Jobs
  <2> QED
    BY <2>6, <2>8
<1> QED
  BY <1>2, <1>3

LEMMA CommitNoting ==
  ASSUME Types, Agree, NEW p \in Procs, Noting(p), Next1(p).op = "commit"
  PROVE  \E ph \in Phases :
           Ready(p, ph) /\ (Committed(p) /\ StartsNot(p) => (DbTypes /\ Agree)')
<1>1. PICK ph \in Phases : Ends(p, ph) /\ Noted(p, ph)
  BY DEF Noting
<1>2. DOMAIN own[p] = {} /\ Ready(p, ph)
  BY <1>1 DEF Noted, At, Next1, Ready, Refer
<1>3. ASSUME Committed(p), StartsNot(p) PROVE (DbTypes /\ Agree)'
  <2>1. \A r \in Rows : db'[r] = db[r]
    BY <1>2, <1>3 DEF Committed
  <2>2. db'["reel"] = db["reel"] /\ db'["cut"] = db["cut"]
        /\ \A k \in Jobs : db'[k] = db[k]
    BY <2>1 DEF Rows, Owners
  <2>3. \A k \in Jobs : OwnerOf(k) \in {"reel", "cut"}
    BY DEF OwnerOf
  <2> QED
    BY <1>3, <2>2, <2>3 DEF DbTypes, Types, Agree, StartsNot, Jobs
<1> QED
  BY <1>2, <1>3

LEMMA CommitHandingOver ==
  ASSUME Types, Agree, NEW p \in Procs, HandingOver(p), Next1(p).op = "commit"
  PROVE  \E ph \in Phases :
           Ready(p, ph) /\ (Committed(p) /\ StartsNot(p) => (DbTypes /\ Agree)')
<1>1. HandOver4(p)
  <2>1. ASSUME NEW t, HandOver1(p, t) \/ HandOver2(p, t) PROVE FALSE
    BY <2>1 DEF HandOver1, HandOver2, At, Next1, Flush, Insert
  <2>2. ASSUME NEW t, HandOver3(p, t) PROVE FALSE
    BY <2>2 DEF HandOver3, At, Next1, Refer, HandLast, Cas
  <2> QED
    BY <2>1, <2>2 DEF HandingOver
<1>2. DOMAIN own[p] = {"enrich", "reel", "generate"} /\ Ready(p, "committed")
  BY <1>1 DEF HandOver4, HandingOver, At, Next1, Ready, Ends
<1>3. ASSUME Committed(p), StartsNot(p) PROVE (DbTypes /\ Agree)'
  <2>1. /\ db'["enrich"].status = "done" /\ db'["reel"] = "generating"
        /\ db'["generate"].status = "pending"
    BY <1>1, <1>2, <1>3 DEF Committed, HandOver4, Wrote, WroteJob
  <2>2. /\ db'["render"] = db["render"] /\ db'["rerender"] = db["rerender"]
        /\ db'["cut"] = db["cut"]
    BY <1>2, <1>3 DEF Committed, Rows, Owners, Jobs
  <2>3. DbTypes'
    BY <2>1, <2>2 DEF DbTypes, Types, Jobs, JobStatus
  <2>4. Agree'
    BY <1>3, <2>1, <2>2 DEF Agree, StartsNot, Jobs, InFlight, OwnerOf, OwnerState
  <2> QED
    BY <2>3, <2>4
<1> QED
  BY <1>2, <1>3 DEF Phases

LEMMA CommitEnding ==
  ASSUME Types, Agree, NEW p \in Procs, Ending(p), Next1(p).op = "commit"
  PROVE  \E ph \in Phases :
           Ready(p, ph) /\ (Committed(p) /\ StartsNot(p) => (DbTypes /\ Agree)')
<1>1. PICK j \in Jobs, ph \in Phases :
        /\ Ends(p, ph) /\ db[j].status \in InFlight /\ WroteJob(p, j, Settled)
        /\ Freeing(p, j, ph) \/ Stamping(p, j, ph) \/ Freed(p, j, ph)
  BY DEF Ending
<1>2. Freed(p, j, ph)
  <2>1. ~Freeing(p, j, ph)
    BY DEF Freeing, At, Next1, FreeOwner
  <2>2. ~Stamping(p, j, ph)
    BY DEF Stamping, At, Next1, Flush, Touch
  <2> QED
    BY <1>1, <2>1, <2>2
<1>3. DOMAIN own[p] = {j, OwnerOf(j)} /\ Ready(p, ph)
  BY <1>1, <1>2 DEF Freed, At, Next1, Ready
<1>4. ASSUME Committed(p), StartsNot(p) PROVE (DbTypes /\ Agree)'
  <2>1. db'[j].status \in Settled
    BY <1>1, <1>3, <1>4 DEF Committed, WroteJob
  <2>2. \A k \in Jobs \ {j} : db'[k] = db[k]
    BY <1>3, <1>4 DEF Committed, Rows, Jobs, OwnerOf
  <2>3. CASE OwnerOf(j) = "reel"
    <3>1. db'["reel"] \in IdleReel /\ j \in {"enrich", "generate"}
      BY <1>2, <1>3, <1>4, <2>3 DEF Freed, Committed, Wrote, OwnerOf, Jobs
    <3>2. db'["cut"] = db["cut"]
      BY <1>3, <1>4, <2>3 DEF Committed, Rows, Owners, Jobs
    <3>3. DbTypes'
      BY <2>1, <2>2, <3>1, <3>2 DEF DbTypes, Types, Settled, JobStatus
    <3>4. Agree'
      BY <1>1, <1>4, <2>1, <2>2, <3>1, <3>2
         DEF Agree, StartsNot, Jobs, InFlight, Settled, OwnerOf, OwnerState, IdleReel
    <3> QED
      BY <3>3, <3>4
  <2>4. CASE OwnerOf(j) = "cut"
    <3>1. db'["cut"] \in IdleCut /\ j \in {"render", "rerender"}
      BY <1>2, <1>3, <1>4, <2>4 DEF Freed, Committed, Wrote, OwnerOf, Jobs
    <3>2. db'["reel"] = db["reel"]
      BY <1>3, <1>4, <2>4 DEF Committed, Rows, Owners, Jobs
    <3>3. DbTypes'
      BY <2>1, <2>2, <3>1, <3>2 DEF DbTypes, Types, Settled, JobStatus
    <3>4. Agree'
      BY <1>1, <1>4, <2>1, <2>2, <3>1, <3>2
         DEF Agree, StartsNot, Jobs, InFlight, Settled, OwnerOf, OwnerState, IdleCut
    <3> QED
      BY <3>3, <3>4
  <2> QED
    BY <2>3, <2>4 DEF OwnerOf
<1> QED
  BY <1>3, <1>4

LEMMA CommitAbandoning ==
  ASSUME Types, Agree, NEW p \in Procs, Abandoning(p), Next1(p).op = "commit"
  PROVE  \E ph \in Phases :
           Ready(p, ph) /\ (Committed(p) /\ StartsNot(p) => (DbTypes /\ Agree)')
<1>1. p # "router" /\ db["enrich"].status = "done" /\ WroteJob(p, "enrich", {"failed"})
  BY DEF Abandoning
<1>2. CASE Abandon1(p)
  <2>1. DOMAIN own[p] = {"enrich"} /\ Ready(p, "over")
    BY <1>1, <1>2 DEF Abandon1, At, Next1, Cas, Ready, Ends
  <2>2. ASSUME Committed(p), StartsNot(p) PROVE (DbTypes /\ Agree)'
    <3>1. /\ db'["enrich"].status = "failed"
          /\ db'["reel"] = db["reel"] /\ db'["cut"] = db["cut"]
          /\ \A k \in Jobs \ {"enrich"} : db'[k] = db[k]
      BY <1>1, <2>1, <2>2 DEF Committed, WroteJob, Rows, Owners, Jobs
    <3>2. DbTypes'
      BY <3>1 DEF DbTypes, Types, JobStatus
    <3>3. Agree'
      BY <1>1, <2>2, <3>1 DEF Agree, StartsNot, Jobs, InFlight, OwnerOf, OwnerState
    <3> QED
      BY <3>2, <3>3
  <2> QED
    BY <2>1, <2>2 DEF Phases
<1>3. CASE Abandon2(p)
  <2>1. DOMAIN own[p] = {"enrich", "generate", "reel"} /\ Ready(p, "over")
        /\ Wrote(p, "reel", {"failed"})
    BY <1>1, <1>3 DEF Abandon2, At, Next1, FreeOwner, Ready, Ends
  <2>2. ASSUME Committed(p), StartsNot(p) PROVE (DbTypes /\ Agree)'
    <3>1. /\ db'["enrich"].status = "failed" /\ db'["generate"].status = "failed"
          /\ db'["reel"] = "failed"
      BY <1>1, <1>3, <2>1, <2>2 DEF Committed, Abandon2, Wrote, WroteJob
    <3>2. /\ db'["render"] = db["render"] /\ db'["rerender"] = db["rerender"]
          /\ db'["cut"] = db["cut"]
      BY <2>1, <2>2 DEF Committed, Rows, Owners, Jobs
    <3>3. DbTypes'
      BY <3>1, <3>2 DEF DbTypes, Types, Jobs, JobStatus, IdleReel
    <3>4. Agree'
      BY <2>2, <3>1, <3>2 DEF Agree, StartsNot, Jobs, InFlight, OwnerOf, OwnerState
    <3> QED
      BY <3>3, <3>4
  <2> QED
    BY <2>1, <2>2 DEF Phases
<1> QED
  BY <1>2, <1>3 DEF Abandoning

LEMMA CommitTriggering ==
  ASSUME Types, Agree, NEW p \in Procs, Triggering(p), Next1(p).op = "commit"
  PROVE  \E ph \in Phases :
           Ready(p, ph) /\ (Committed(p) /\ StartsNot(p) => (DbTypes /\ Agree)')
<1>1. Trigger3(p) /\ p = "router" /\ db["cut"] \in IdleCut
  <2>1. ~Trigger1(p) /\ ~Trigger2(p)
    BY DEF Trigger1, Trigger2, At, Next1, Flush, Insert
  <2> QED
    BY <2>1 DEF Triggering
<1>2. DOMAIN own[p] = {"cut", "rerender"} /\ Ready(p, "sent")
  BY <1>1 DEF Trigger3, At, Next1, Refer, Ready, Ends
<1>3. ASSUME Committed(p), StartsNot(p) PROVE (DbTypes /\ Agree)'
  <2>1. db'["cut"] = "rendering" /\ db'["rerender"].status = "pending"
    BY <1>1, <1>2, <1>3 DEF Committed, Trigger3, Wrote, WroteJob
  <2>2. /\ db'["reel"] = db["reel"]
        /\ \A k \in Jobs \ {"rerender"} : db'[k] = db[k]
    BY <1>2, <1>3 DEF Committed, Rows, Owners, Jobs
  <2>3. db["render"].status \notin InFlight
    BY <1>1 DEF Agree, Jobs, OwnerOf, OwnerState, IdleCut
  <2>4. DbTypes'
    BY <2>1, <2>2 DEF DbTypes, Types, JobStatus
  <2>5. Agree'
    BY <1>1, <1>3, <2>1, <2>2, <2>3
       DEF Agree, StartsNot, Jobs, InFlight, OwnerOf, OwnerState
  <2> QED
    BY <2>4, <2>5
<1> QED
  BY <1>2, <1>3 DEF Phases

(* A commit keeps the invariant.                                           *)
LEMMA CommitInv ==
  ASSUME LockInv, NEW p \in Procs, CommitTxn(p)
  PROVE  LockInv'
<1>1. Running(p) /\ Next1(p).op = "commit" /\ Stage(p) /\ Types /\ Agree
  BY DEF CommitTxn, LockInv
<1>2. PICK ph \in Phases :
        Ready(p, ph) /\ (Committed(p) /\ StartsNot(p) => (DbTypes /\ Agree)')
  BY <1>1, NextOp, CommitKeeping, CommitNoting, CommitHandingOver, CommitEnding,
     CommitAbandoning, CommitTriggering DEF Stage
<1>3. /\ DOMAIN db' = Rows /\ Committed(p)
      /\ DOMAIN own' = Procs /\ DOMAIN txn' = Procs
      /\ held' \in [Procs -> [Rows -> Modes]] /\ phase' \in [Procs -> Phases]
      /\ Resting(p)' /\ Elsewhere(p) /\ phase'[p] = ph
  BY <1>1, <1>2, CommitEffect DEF Ready
<1>4. StartsNot(p)
  BY <1>2, <1>3 DEF StartsNot, Ready, Ends, Elsewhere, Procs
<1>5. Types' /\ Agree'
  BY <1>2, <1>3, <1>4 DEF Types, DbTypes
<1>6. Exclusive'
  BY <1>3, RestExcludes DEF LockInv, Elsewhere
<1>7. ASSUME NEW q \in Procs PROVE Stage(q)'
  <2>1. CASE q = p
    BY <1>3, <2>1 DEF Stage
  <2>2. CASE q # p
    <3>1. ASSUME NEW r \in Rows, Writes(held[q][r]) PROVE db'[r] = db[r]
      <4>1. r \notin DOMAIN own[p]
        <5>1. SUFFICES ASSUME r \in DOMAIN own[p] PROVE FALSE
          OBVIOUS
        <5>2. Writes(held[p][r])
          BY <1>1, <5>1, OwnHeld
        <5> QED
          BY <2>2, <3>1, <5>2 DEF LockInv, Exclusive, Writes, Conflict
      <4> QED
        BY <1>3, <4>1 DEF Committed
    <3> QED
      BY <1>3, <2>2, <3>1, StageStable DEF LockInv, Elsewhere
  <2> QED
    BY <2>1, <2>2
<1> QED
  BY <1>5, <1>6, <1>7 DEF LockInv

-----------------------------------------------------------------------------
(* The invariant is inductive.                                             *)

(* A step of p that leaves the database as it is.                          *)
LEMMA StagedInv ==
  ASSUME LockInv, NEW p \in Procs, Staged(p), Exclusive'
  PROVE  LockInv'
<1>1. Agree'
  <2>1. db' = db
    BY DEF Staged
  <2>2. phase'["router"] = "start" => phase["router"] = "start"
    BY DEF Staged, Elsewhere, Procs
  <2> QED
    BY <2>1, <2>2 DEF LockInv, Agree
<1>2. ASSUME NEW q \in Procs PROVE Stage(q)'
  <2>1. CASE q = p
    BY <2>1 DEF Staged
  <2>2. CASE q # p
    BY <2>2, StageStable DEF LockInv, Staged, Elsewhere
  <2> QED
    BY <2>1, <2>2
<1> QED
  BY <1>1, <1>2 DEF LockInv, Staged

(* Between transactions a process holds nothing.                           *)
LEMMA Idle ==
  ASSUME NEW p \in Procs, Stage(p), ~Running(p)
  PROVE  Resting(p)
<1> USE DEF At, Running
<1>1. ~Begun(p)
  <2>1. ~RouterProgram(p, << >>)
    BY DEF RouterProgram, TriggerRender, FailJob
  <2>2. ASSUME NEW j \in Jobs, NEW t PROVE ~WorkerProgram(p, << >>, j, t)
    BY DEF WorkerProgram, Claim, Heartbeat, FailJob, ResetForRetry, HandOver, Abandon,
           RecordStage, DoneStamp
  <2>3. ASSUME NEW j \in Jobs PROVE ~ReaperProgram(p, << >>, j)
    BY DEF ReaperProgram, ReapResume, ReapFail
  <2> QED
    BY <2>1, <2>2, <2>3 DEF Begun
<1>2. ~Keeping(p)
  <2>1. ASSUME NEW j \in Jobs, NEW ph \in Phases PROVE ~Kept(p, j, ph)
    <3>1. ~At(p, {j}, "free", "free", {j}, <<Touch(OwnerOf(j)), Commit(ph)>>)
      OBVIOUS
    <3>2. ASSUME NEW reel, NEW cut PROVE ~At(p, {j}, reel, cut, {j}, <<Commit(ph)>>)
      OBVIOUS
    <3> HIDE DEF At, Running
    <3> QED
      BY <3>1, <3>2 DEF Kept
  <2> QED
    BY <2>1 DEF Keeping
<1>6. ~Noting(p)
  <2>1. ASSUME NEW ph \in Phases PROVE ~Noted(p, ph)
    <3>1. ~At(p, {}, "share", "free", {}, <<Refer("cut"), Commit(ph)>>)
      OBVIOUS
    <3>2. ASSUME NEW cut PROVE ~At(p, {}, "share", cut, {}, <<Commit(ph)>>)
      OBVIOUS
    <3> HIDE DEF At, Running
    <3> QED
      BY <3>1, <3>2 DEF Noted
  <2> QED
    BY <2>1 DEF Noting
<1>3. ~HandingOver(p)
  <2>1. ASSUME NEW t PROVE ~HandOver1(p, t)
    BY DEF HandOver1
  <2>2. ASSUME NEW t PROVE ~HandOver2(p, t)
    BY DEF HandOver2
  <2>3. ASSUME NEW t PROVE ~HandOver3(p, t)
    BY DEF HandOver3
  <2>4. ~HandOver4(p)
    BY DEF HandOver4
  <2> QED
    BY <2>1, <2>2, <2>3, <2>4 DEF HandingOver
<1>4. ~Ending(p)
  BY DEF Ending, Freeing, Stamping, Freed
<1>5. ~Abandoning(p) /\ ~Triggering(p)
  BY DEF Abandoning, Abandon1, Abandon2, Triggering, Trigger1, Trigger2, Trigger3
<1> QED
  BY <1>1, <1>2, <1>3, <1>4, <1>5, <1>6 DEF Stage

(* So does a transaction that begins.                                      *)
LEMMA BeginInv ==
  ASSUME LockInv, NEW p \in Procs, NEW prog, Begin(p, prog),
         \/ RouterProgram(p, prog)
         \/ \E j \in Jobs : \E t : WorkerProgram(p, prog, j, t)
         \/ \E j \in Jobs : ReaperProgram(p, prog, j)
  PROVE  LockInv'
<1>1. /\ ~Running(p) /\ txn' = [txn EXCEPT ![p] = prog]
      /\ UNCHANGED <<db, own, held, phase>>
  BY DEF Begin
<1>2. /\ DOMAIN txn' = Procs /\ txn'[p] = prog
      /\ \A q \in Procs \ {p} : txn'[q] = txn[q]
  BY <1>1 DEF LockInv, Types
<1>3. Types' /\ Elsewhere(p)
  BY <1>1, <1>2 DEF LockInv, Types, Elsewhere
<1>4. Exclusive'
  BY <1>1 DEF LockInv, Exclusive
<1>5. Resting(p)
  BY <1>1, Idle DEF LockInv
<1>6. Begun(p)'
  <2>1. At(p, {}, "free", "free", {}, txn[p])'
    BY <1>1, <1>5 DEF Resting, At
  <2>2. CASE RouterProgram(p, prog)
    <3>1. RouterProgram(p, txn[p])'
      BY <1>1, <1>2, <2>2 DEF RouterProgram
    <3> QED
      BY <2>1, <3>1 DEF Begun
  <2>3. ASSUME NEW j \in Jobs, NEW t, WorkerProgram(p, prog, j, t) PROVE Begun(p)'
    <3>1. WorkerProgram(p, txn[p], j, t)'
      BY <1>1, <1>2, <2>3 DEF WorkerProgram
    <3> QED
      BY <2>1, <3>1 DEF Begun
  <2>4. ASSUME NEW j \in Jobs, ReaperProgram(p, prog, j) PROVE Begun(p)'
    <3>1. ReaperProgram(p, txn[p], j)'
      BY <1>1, <1>2, <2>4 DEF ReaperProgram
    <3> QED
      BY <2>1, <3>1 DEF Begun
  <2> QED
    BY <2>2, <2>3, <2>4
<1>7. Staged(p)
  BY <1>1, <1>3, <1>6 DEF Staged, Stage
<1> QED
  BY <1>4, <1>7, StagedInv

LEMMA LockInvInit == Init => LockInv
<1> SUFFICES ASSUME Init PROVE LockInv
  OBVIOUS
<1>1. /\ DOMAIN db = Rows
      /\ \A r \in {"enrich", "render"} : db[r].status = "pending"
      /\ \A r \in {"generate", "rerender"} : db[r].status = "none"
      /\ db["reel"] = "enriching" /\ db["cut"] = "rendering"
  BY DEF Init, Rows, Jobs, Owners
<1>2. Types
  <2>1. /\ DOMAIN own = Procs /\ DOMAIN txn = Procs
        /\ held \in [Procs -> [Rows -> Modes]] /\ phase \in [Procs -> Phases]
    BY DEF Init, Modes, Phases
  <2> QED
    BY <1>1, <2>1 DEF Types, Jobs, JobStatus
<1>3. Agree
  BY <1>1 DEF Agree, Jobs, InFlight, OwnerOf, OwnerState
<1>4. \A p \in Procs : \A r \in Rows : held[p][r] = "free"
  BY DEF Init
<1>5. Exclusive
  BY <1>4 DEF Exclusive, Conflict
<1>6. ASSUME NEW p \in Procs PROVE Stage(p)
  <2>1. own[p] = << >> /\ txn[p] = << >>
    BY DEF Init
  <2>2. DOMAIN own[p] = {}
    BY <2>1
  <2>3. Resting(p)
    BY <1>4, <2>1, <2>2 DEF Resting, At
  <2> QED
    BY <2>3 DEF Stage
<1> QED
  BY <1>2, <1>3, <1>5, <1>6 DEF LockInv

LEMMA LockInvNext == LockInv /\ [Next]_vars => LockInv'
<1> SUFFICES ASSUME LockInv, [Next]_vars PROVE LockInv'
  OBVIOUS
<1>1. CASE UNCHANGED vars
  <2>1. db' = db /\ own' = own /\ held' = held /\ txn' = txn /\ phase' = phase
    BY <1>1 DEF vars
  <2>2. Types' /\ Agree' /\ Exclusive'
    BY <2>1 DEF LockInv, Types, Agree, Exclusive
  <2>3. ASSUME NEW q \in Procs PROVE Stage(q)'
    BY <2>1, StageStable DEF LockInv
  <2> QED
    BY <2>2, <2>3 DEF LockInv
<1>2. ASSUME NEW p \in Procs, CompareAndSet(p) PROVE LockInv'
  <2>1. Staged(p)
    BY <1>2, CasStage DEF LockInv
  <2> DEFINE s == Next1(p)
             v == Value(p, s.row)
             next == [status |-> s.to,
                      token |-> IF s.from = "pending" /\ s.to = "running"
                                  THEN v.token + 1 ELSE v.token]
  <2>2. /\ Running(p) /\ s.op = "cas" /\ Blockers(p) = {}
        /\ \/ v.status = s.from /\ Take(p, s, Writing(s, next))
           \/ RollBack(p, IF p = "reaper" THEN "start" ELSE "over")
           \/ held' = held
    BY <1>2 DEF CompareAndSet
  <2>3. CASE v.status = s.from /\ Take(p, s, Writing(s, next))
    <3> HIDE DEF next
    <3>1. Exclusive'
      BY <2>2, <2>3, StatementExcludes
    <3> QED
      BY <2>1, <3>1, StagedInv
  <2>4. CASE RollBack(p, IF p = "reaper" THEN "start" ELSE "over")
    <3>1. (IF p = "reaper" THEN "start" ELSE "over") \in Phases
      BY DEF Phases
    <3>2. Resting(p)' /\ Elsewhere(p)
      BY <2>4, <3>1, RollBackRests DEF LockInv
    <3>3. Exclusive'
      BY <3>2, RestExcludes DEF LockInv, Elsewhere
    <3> QED
      BY <2>1, <3>3, StagedInv
  <2>5. CASE held' = held
    <3>1. Exclusive'
      BY <2>5 DEF LockInv, Exclusive
    <3> QED
      BY <2>1, <3>1, StagedInv
  <2> QED
    BY <2>2, <2>3, <2>4, <2>5
<1>3. ASSUME NEW p \in Procs, Write(p) PROVE LockInv'
  <2>1. Staged(p)
    BY <1>3, WriteStage DEF LockInv
  <2>2. PICK u : Running(p) /\ Next1(p).op \in {"flush", "touch", "refer"}
                 /\ Blockers(p) = {} /\ Take(p, Next1(p), u)
    BY <1>3 DEF Write
  <2>3. Exclusive'
    BY <2>2, StatementExcludes
  <2> QED
    BY <2>1, <2>3, StagedInv
<1>4. ASSUME NEW p \in Procs, InsertJob(p) PROVE LockInv'
  BY <1>4, InsertStage, InsertExcludes, StagedInv DEF LockInv
<1>5. ASSUME NEW p \in Procs, Free(p) PROVE LockInv'
  <2>1. Staged(p)
    BY <1>5, FreeStage DEF LockInv
  <2>2. PICK u : Running(p) /\ Next1(p).op = "free"
                 /\ Blockers(p) = {} /\ Take(p, Next1(p), u)
    BY <1>5 DEF Free
  <2>3. Exclusive'
    BY <2>2, StatementExcludes
  <2> QED
    BY <2>1, <2>3, StagedInv
<1>6. ASSUME NEW p \in Procs, CheckGuard(p) PROVE LockInv'
  <2>1. Staged(p)
    BY <1>6, GuardStage DEF LockInv
  <2>2. CASE RollBack(p, "over")
    <3>1. Resting(p)' /\ Elsewhere(p)
      BY <2>2, RollBackRests DEF LockInv, Phases
    <3>2. Exclusive'
      BY <3>1, RestExcludes DEF LockInv, Elsewhere
    <3> QED
      BY <2>1, <3>2, StagedInv
  <2>3. CASE Take(p, Next1(p), NoWrite)
    <3>1. Running(p) /\ Next1(p).op = "guard" /\ Blockers(p) = {}
      BY <1>6 DEF CheckGuard
    <3>2. Exclusive'
      BY <2>3, <3>1, StatementExcludes
    <3> QED
      BY <2>1, <3>2, StagedInv
  <2> QED
    BY <1>6, <2>2, <2>3 DEF CheckGuard
<1>7. ASSUME NEW p \in Procs, CommitTxn(p) PROVE LockInv'
  BY <1>7, CommitInv
<1>8. ASSUME NEW p \in Procs, Abort(p) PROVE LockInv'
  <2>1. PICK ph \in Phases : RollBack(p, ph)
    BY <1>8 DEF Abort, LockInv, Types
  <2>2. Resting(p)' /\ Elsewhere(p)
    BY <2>1, RollBackRests DEF LockInv
  <2>3. Exclusive'
    BY <2>2, RestExcludes DEF LockInv, Elsewhere
  <2> QED
    BY <1>8, <2>3, AbortStage, StagedInv DEF LockInv
<1>9. ASSUME NEW w \in Workers, Work(w) PROVE LockInv'
  <2>1. w \in Procs /\ w # "router" /\ JobOf[w] \in Jobs
    BY RowLocksAssumption DEF Procs
  <2>2. PICK prog : Begin(w, prog) /\ WorkerProgram(w, prog, JobOf[w], tok[w])
    <3> DEFINE j == JobOf[w]
               t == tok[w]
    <3>1. CASE Begin(w, Claim(j))
      BY <2>1, <3>1 DEF WorkerProgram
    <3>2. CASE \E x \in {Heartbeat(j, t), RecordStage(j), FailJob(j, "running", t),
                         IF j = "enrich" THEN HandOver(t) ELSE DoneStamp(j, t)} :
                 Begin(w, x)
      BY <2>1, <3>2 DEF WorkerProgram
    <3>3. CASE Begin(w, ResetForRetry(j, t))
      BY <2>1, <3>3 DEF WorkerProgram
    <3>4. CASE Begin(w, Abandon)
      BY <2>1, <3>4 DEF WorkerProgram
    <3> QED
      BY <1>9, <3>1, <3>2, <3>3, <3>4 DEF Work
  <2> QED
    BY <2>1, <2>2, BeginInv
<1>10. CASE Route
  <2>1. PICK prog : Begin("router", prog) /\ RouterProgram("router", prog)
    BY <1>10 DEF Route, RouterProgram
  <2> QED
    BY <2>1, BeginInv DEF Procs
<1>11. CASE Reap
  <2>1. PICK j \in Jobs : \E prog : Begin("reaper", prog) /\ ReaperProgram("reaper", prog, j)
    BY <1>11 DEF Reap, ReaperProgram
  <2> QED
    BY <2>1, BeginInv DEF Procs
<1> QED
  BY <1>1, <1>2, <1>3, <1>4, <1>5, <1>6, <1>7, <1>8, <1>9, <1>10, <1>11 DEF Next

(* The inductive invariant of the row locks.                               *)
THEOREM Inductive == Spec => []LockInv
  BY LockInvInit, LockInvNext, PTL DEF Spec

(* OwnersFollowJobs: what is committed agrees, a reel or cut being in the  *)
(* state of a job exactly while the job is pending or running.             *)
THEOREM CommittedRowsAgree == Spec => []OwnersFollowJobs
<1>1. LockInv => OwnersFollowJobs
  <2> SUFFICES ASSUME LockInv, NEW r \in Owners
               PROVE  LET busy == {j \in Jobs : OwnerOf(j) = r /\ db[j].status \in InFlight}
                      IN  IF busy = {} THEN db[r] \notin {"enriching", "generating", "rendering"}
                                       ELSE \A j \in busy : db[r] = OwnerState(j)
    BY DEF OwnersFollowJobs
  <2> DEFINE busy == {j \in Jobs : OwnerOf(j) = r /\ db[j].status \in InFlight}
  <2>1. \A j \in busy : db[r] = OwnerState(j)
    BY DEF LockInv, Agree
  <2>2. ASSUME busy = {} PROVE db[r] \notin {"enriching", "generating", "rendering"}
    <3>1. \A j \in Jobs : OwnerOf(j) = r => db[j].status \notin InFlight
      BY <2>2
    <3> QED
      BY <3>1 DEF LockInv, Agree, Types, Owners, Jobs, OwnerOf, IdleReel, IdleCut
  <2> QED
    BY <2>1, <2>2
<1> QED
  BY <1>1, Inductive, PTL

-----------------------------------------------------------------------------
(* Nobody waits in a circle: a process that waits for a row holds only     *)
(* rows before it in an order of the rows and of the modes they are asked  *)
(* for and held in.                                                        *)

(* Jobs before their owners and the reel before its cuts, except that the  *)
(* row that an insert refers to may come last: only FOR UPDATE excludes    *)
(* it, and who has locked the reel like that asks for nothing more.        *)
Asked(s) ==
  CASE s.row = "enrich"                       -> 1
    [] s.row \in Jobs \ {"enrich"}            -> 2
    [] s.row = "reel" /\ ModeOf(s) # "share"  -> 3
    [] s.row = "cut"                          -> 4
    [] OTHER                                  -> 5

Given(r, m) ==
  CASE r = "enrich"                  -> 1
    [] r \in Jobs \ {"enrich"}       -> 2
    [] r = "reel" /\ m # "update"    -> 3
    [] r = "cut"                     -> 4
    [] OTHER                         -> 5

(* Who is in the way holds something no earlier than what is asked for.    *)
LEMMA Later ==
  ASSUME NEW s, NEW m, Conflict(ModeOf(s), m)
  PROVE  Given(s.row, m) >= Asked(s)
<1>1. m # "free" /\ (ModeOf(s) = "share" => m = "update")
  BY DEF Conflict
<1> QED
  BY <1>1 DEF Given, Asked, Jobs

(* A process does not wait for a row that it has itself, FOR UPDATE or     *)
(* changed, unless it now asks for more.                                   *)
LEMMA HasIt ==
  ASSUME LockInv, NEW p \in Procs, Next1(p).row \in Rows,
         ModeOf(Next1(p)) \in {"share", "nokey"},
         held[p][Next1(p).row] \in {"nokey", "update"}
  PROVE  Blockers(p) = {}
<1>1. \A q \in Procs \ {p} : ~Conflict(held[p][Next1(p).row], held[q][Next1(p).row])
  BY DEF LockInv, Exclusive
<1>2. \A q \in Procs \ {p} : ~Conflict(ModeOf(Next1(p)), held[q][Next1(p).row])
  BY <1>1 DEF Conflict
<1> QED
  BY <1>2 DEF Blockers

(* What a waiting process holds comes before what it asks for.             *)
LEMMA Ahead ==
  ASSUME NEW p \in Procs, NEW J, NEW reel, NEW cut, NEW D, NEW prog,
         At(p, J, reel, cut, D, prog), NEW s, Head(prog) = s,
         \A j \in J : Asked(s) > Given(j, "nokey"),
         reel = "free" \/ Asked(s) > Given("reel", reel),
         cut = "free" \/ Asked(s) > Given("cut", cut)
  PROVE  \A r \in Rows : held[p][r] = "free" \/ Asked(Next1(p)) > Given(r, held[p][r])
<1>1. Next1(p) = s
  BY DEF At, Next1
<1> SUFFICES ASSUME NEW r \in Rows, held[p][r] # "free"
             PROVE  Asked(s) > Given(r, held[p][r])
  BY <1>1
<1>2. CASE r \in J
  BY <1>2 DEF At
<1>3. CASE r \notin J /\ r = "reel"
  BY <1>3 DEF At
<1>4. CASE r \notin J /\ r # "reel"
  BY <1>4 DEF At
<1> QED
  BY <1>2, <1>3, <1>4

(* The statements that a transaction may wait at.                          *)
LEMMA AskedFor ==
  /\ \A r \in Owners : Asked(Touch(r)) = IF r = "reel" THEN 3 ELSE 4
  /\ \A r \in Owners : \A to : Asked(Flush(r, to)) = IF r = "reel" THEN 3 ELSE 4
  /\ \A j \in Jobs : Asked(FreeOwner(j)) = IF OwnerOf(j) = "reel" THEN 3 ELSE 4
  /\ Asked(Refer("reel")) = 5 /\ Asked(Refer("cut")) = 4
  /\ \A from, to, t, miss : Asked(Cas("generate", from, to, t, miss)) = 2
  /\ \A j \in Jobs : Given(j, "nokey") \in {1, 2}
  /\ Given("enrich", "nokey") = 1
  /\ \A m \in {"share", "nokey"} : Given("reel", m) = 3
  /\ \A m : Given("cut", m) = 4
<1>1. \A r \in Owners : Asked(Touch(r)) = IF r = "reel" THEN 3 ELSE 4
  BY DEF Asked, Touch, ModeOf, Owners, Jobs
<1>2. \A r \in Owners : \A to : Asked(Flush(r, to)) = IF r = "reel" THEN 3 ELSE 4
  BY DEF Asked, Flush, ModeOf, Owners, Jobs
<1>3. \A j \in Jobs : Asked(FreeOwner(j)) = IF OwnerOf(j) = "reel" THEN 3 ELSE 4
  BY DEF Asked, FreeOwner, ModeOf, OwnerOf, Jobs
<1>4. Asked(Refer("reel")) = 5 /\ Asked(Refer("cut")) = 4
  BY DEF Asked, Refer, ModeOf, Jobs
<1>5. \A from, to, t, miss : Asked(Cas("generate", from, to, t, miss)) = 2
  BY DEF Asked, Cas, Jobs
<1>6. /\ \A j \in Jobs : Given(j, "nokey") \in {1, 2}
      /\ Given("enrich", "nokey") = 1
      /\ \A m \in {"share", "nokey"} : Given("reel", m) = 3
      /\ \A m : Given("cut", m) = 4
  BY DEF Given, Jobs
<1> QED
  BY <1>1, <1>2, <1>3, <1>4, <1>5, <1>6

(* A process that waits holds only what comes before what it asks for.     *)
LEMMA InOrder ==
  ASSUME LockInv, NEW p \in Procs, Blockers(p) # {}
  PROVE  \A r \in Rows : held[p][r] = "free" \/ Asked(Next1(p)) > Given(r, held[p][r])
<1> DEFINE Fine == \A r \in Rows :
                     held[p][r] = "free" \/ Asked(Next1(p)) > Given(r, held[p][r])
<1>1. Running(p) /\ Next1(p).op \notin {"commit", "insert"}
  BY DEF Blockers, NeedsLock
<1>2. /\ "reel" \in Rows /\ "cut" \in Rows /\ "enrich" \in Rows
      /\ "reel" \in Owners /\ "cut" \in Owners
  BY DEF Rows, Jobs, Owners
<1>3. \A ph : Commit(ph).op = "commit"
  BY DEF Commit
<1>4. \A J, reel, cut, D, s : \A rest :
        At(p, J, reel, cut, D, rest) /\ Head(rest) = s => Next1(p) = s
  BY DEF At, Next1
<1> USE DEF Fine
<1>5. ASSUME Begun(p) PROVE Fine
  BY <1>5 DEF Begun, At
<1>6. ASSUME Keeping(p) PROVE Fine
  <2>1. PICK j \in Jobs, ph \in Phases : Kept(p, j, ph)
    BY <1>6 DEF Keeping
  <2>2. At(p, {j}, "free", "free", {j}, <<Touch(OwnerOf(j)), Commit(ph)>>)
    BY <1>1, <1>3, <1>4, <2>1 DEF Kept
  <2>3. OwnerOf(j) \in Owners
    BY DEF OwnerOf, Owners
  <2>4. /\ Head(<<Touch(OwnerOf(j)), Commit(ph)>>) = Touch(OwnerOf(j))
        /\ \A k \in {j} : Asked(Touch(OwnerOf(j))) > Given(k, "nokey")
    BY <2>3, AskedFor
  <2> QED
    BY <2>2, <2>4, Ahead
<1>7. ASSUME Noting(p) PROVE Fine
  <2>1. PICK ph \in Phases : Noted(p, ph)
    BY <1>7 DEF Noting
  <2>2. At(p, {}, "share", "free", {}, <<Refer("cut"), Commit(ph)>>)
    BY <1>1, <1>3, <1>4, <2>1 DEF Noted
  <2>3. /\ Head(<<Refer("cut"), Commit(ph)>>) = Refer("cut")
        /\ Asked(Refer("cut")) > Given("reel", "share")
    BY AskedFor
  <2> QED
    BY <2>2, <2>3, Ahead
<1>8. ASSUME HandingOver(p) PROVE Fine
  <2>1. ~HandOver4(p)
    BY <1>1, <1>3 DEF HandOver4, At, Next1
  <2>2. ASSUME NEW t, HandOver1(p, t) PROVE Fine
    <3> DEFINE rest == <<Insert("generate"), Refer("reel"), HandLast(t), Commit("committed")>>
    <3>1. At(p, {"enrich"}, "free", "free", {"enrich"},
             <<Flush("reel", "generating"), Insert("generate"), Refer("reel"),
               HandLast(t), Commit("committed")>>)
      BY <2>2 DEF HandOver1
    <3>2. \A k \in {"enrich"} : Asked(Flush("reel", "generating")) > Given(k, "nokey")
      BY <1>2, AskedFor
    <3> QED
      BY <3>1, <3>2, Ahead
  <2>3. ASSUME NEW t, HandOver2(p, t) PROVE FALSE
    BY <1>1, <2>3 DEF HandOver2, At, Next1, Insert
  <2>4. ASSUME NEW t, HandOver3(p, t) PROVE FALSE
    <3>1. held[p]["reel"] = "nokey" /\ held[p]["enrich"] = "nokey"
      BY <1>2, <2>4 DEF HandOver3, At
    <3>2. Next1(p) = Refer("reel") \/ Next1(p) = HandLast(t)
      BY <2>4 DEF HandOver3, At, Next1
    <3>3. /\ Next1(p).row \in {"reel", "enrich"} /\ Next1(p).row \in Rows
          /\ ModeOf(Next1(p)) \in {"share", "nokey"}
      BY <1>2, <3>2 DEF Refer, HandLast, Cas, ModeOf
    <3> QED
      BY <3>1, <3>3, HasIt
  <2> QED
    BY <1>8, <2>1, <2>2, <2>3, <2>4 DEF HandingOver
<1>9. ASSUME Ending(p) PROVE Fine
  <2>1. PICK j \in Jobs, ph \in Phases :
          Freeing(p, j, ph) \/ Stamping(p, j, ph) \/ Freed(p, j, ph)
    BY <1>9 DEF Ending
  <2>2. ~Freed(p, j, ph)
    BY <1>1, <1>3, <1>4 DEF Freed
  <2>3. CASE Freeing(p, j, ph)
    <3>1. Head(<<FreeOwner(j), Commit(ph)>>) = FreeOwner(j)
      OBVIOUS
    <3>2. \A k \in {j} : Asked(FreeOwner(j)) > Given(k, "nokey")
      BY AskedFor
    <3> QED
      BY <2>3, <3>1, <3>2, Ahead DEF Freeing
  <2>4. CASE Stamping(p, j, ph)
    <3>1. CASE At(p, {j}, "free", "free", {j},
                  <<Flush("reel", "guide_ready"), Touch("cut"), Commit(ph)>>)
      <4>1. \A k \in {j} : Asked(Flush("reel", "guide_ready")) > Given(k, "nokey")
        BY <1>2, AskedFor
      <4> QED
        BY <3>1, <4>1, Ahead
    <3>2. CASE At(p, {j}, "free", "free", {j}, <<Flush("cut", "in_review"), Commit(ph)>>)
      <4>1. \A k \in {j} : Asked(Flush("cut", "in_review")) > Given(k, "nokey")
        BY <1>2, AskedFor
      <4> QED
        BY <3>2, <4>1, Ahead
    <3>3. CASE At(p, {j}, "nokey", "free", {j, "reel"}, <<Touch("cut"), Commit(ph)>>)
      <4>1. /\ \A k \in {j} : Asked(Touch("cut")) > Given(k, "nokey")
            /\ Asked(Touch("cut")) > Given("reel", "nokey")
        BY <1>2, AskedFor
      <4>2. Head(<<Touch("cut"), Commit(ph)>>) = Touch("cut")
        OBVIOUS
      <4> QED
        BY <3>3, <4>1, <4>2, Ahead
    <3> QED
      BY <2>4, <3>1, <3>2, <3>3 DEF Stamping
  <2> QED
    BY <2>1, <2>2, <2>3, <2>4
<1>10. ASSUME Abandoning(p) PROVE Fine
  <2>1. CASE Abandon1(p)
    <3> DEFINE s == Cas("generate", "pending", "failed", Unfenced, "commit")
               prog == <<s, FreeOwner("generate"), Commit("over")>>
    <3>1. At(p, {"enrich"}, "free", "free", {"enrich"}, prog)
      BY <1>1, <1>3, <1>4, <2>1 DEF Abandon1
    <3>2. Head(prog) = s /\ \A k \in {"enrich"} : Asked(s) > Given(k, "nokey")
      BY AskedFor
    <3> HIDE DEF prog, s
    <3> QED
      BY <3>1, <3>2, Ahead
  <2>2. CASE Abandon2(p)
    <3> DEFINE prog == <<FreeOwner("generate"), Commit("over")>>
    <3>1. At(p, {"enrich", "generate"}, "free", "free", {"enrich", "generate"}, prog)
      BY <1>1, <1>3, <1>4, <2>2 DEF Abandon2
    <3>2. /\ Head(prog) = FreeOwner("generate")
          /\ \A k \in {"enrich", "generate"} : Asked(FreeOwner("generate")) > Given(k, "nokey")
      BY AskedFor DEF Jobs
    <3> HIDE DEF prog
    <3> QED
      BY <3>1, <3>2, Ahead
  <2> QED
    BY <1>10, <2>1, <2>2 DEF Abandoning
<1>11. ASSUME Triggering(p) PROVE Fine
  <2>1. held[p]["cut"] = "update"
    BY <1>2, <1>11 DEF Triggering, Trigger1, Trigger2, Trigger3, At
  <2>2. CASE Next1(p) \in {Flush("cut", "rendering"), Refer("cut")}
    <3>1. /\ Next1(p).row = "cut" /\ ModeOf(Next1(p)) \in {"share", "nokey"}
      BY <2>2 DEF Flush, Refer, ModeOf
    <3> QED
      BY <1>2, <2>1, <3>1, HasIt
  <2>3. CASE Next1(p) = Refer("reel")
    <3>1. At(p, {"rerender"}, "free", "update", {"cut", "rerender"},
             <<Refer("reel"), Refer("cut"), Commit("sent")>>)
      <4>1. Next1(p).op = "refer" /\ Next1(p).row = "reel"
        BY <2>3 DEF Refer
      <4>2. ~Trigger1(p) /\ ~Trigger2(p)
        BY <4>1 DEF Trigger1, Trigger2, At, Next1, Flush, Insert
      <4>3. Trigger3(p)
        BY <1>11, <4>2 DEF Triggering
      <4> QED
        BY <4>1, <4>3 DEF Trigger3, At, Next1, Refer, Commit
    <3>2. /\ \A k \in {"rerender"} : Asked(Refer("reel")) > Given(k, "nokey")
          /\ Asked(Refer("reel")) > Given("cut", "update")
      BY AskedFor DEF Jobs
    <3> QED
      BY <3>1, <3>2, Ahead
  <2> QED
    <3>1. Trigger1(p) => Next1(p) = Flush("cut", "rendering")
      BY DEF Trigger1, At, Next1
    <3>2. ~Trigger2(p)
      BY <1>1 DEF Trigger2, At, Next1, Insert
    <3>3. Trigger3(p) => Next1(p) \in {Refer("reel"), Refer("cut")}
      BY <1>1, <1>3 DEF Trigger3, At, Next1
    <3> QED
      BY <1>11, <2>2, <2>3, <3>1, <3>2, <3>3 DEF Triggering
<1> HIDE DEF Fine
<1>12. ~Resting(p)
  BY <1>1 DEF Resting, At, Running
<1>13. Fine
  BY <1>5, <1>6, <1>7, <1>8, <1>9, <1>10, <1>11, <1>12 DEF LockInv, Stage
<1> QED
  BY <1>13 DEF Fine

(* NoDeadlock, for any deliveries of the jobs of a reel and a cut: no set  *)
(* of transactions waits for each other, so Postgres never has to kill one *)
(* of them. A body takes its job before its owner, as the reaper does      *)
(* (lock_job, rollback_owner), and locks no row it would have to raise.    *)
THEOREM NobodyWaitsInACircle == Spec => []NoDeadlock
<1>1. ASSUME LockInv, NEW S \in SUBSET {p \in Procs : Blockers(p) # {}}, S # {},
             \A p \in S : Blockers(p) \intersect S # {}
      PROVE  FALSE
  <2>1. \A p \in S : Asked(Next1(p)) \in 1..5
    BY DEF Asked
  <2>2. ASSUME NEW p \in S
        PROVE  \E q \in S : Asked(Next1(q)) > Asked(Next1(p))
    <3>1. PICK q \in S : q \in Blockers(p)
      BY <1>1
    <3>2. /\ q \in Procs /\ p \in Procs /\ NeedsLock(p)
          /\ Conflict(ModeOf(Next1(p)), held[q][Next1(p).row])
      BY <1>1, <3>1 DEF Blockers
    <3> DEFINE r == Next1(p).row
    <3>3. r \in Rows
      <4>1. Running(p) /\ Next1(p).op \notin {"commit", "insert"}
        BY <3>2 DEF NeedsLock
      <4>2. RowOf(Next1(p)) /\ Next1(p).op \in {"cas", "flush", "touch", "refer", "free", "guard"}
        BY <1>1, <3>2, <4>1, NextRow, NextOp DEF LockInv, Stage
      <4> QED
        BY <4>2 DEF RowOf, Rows
    <3>4. Given(r, held[q][r]) >= Asked(Next1(p)) /\ held[q][r] # "free"
      BY <3>2, Later DEF Conflict
    <3>5. Blockers(q) # {}
      BY <1>1
    <3>6. held[q][r] = "free" \/ Asked(Next1(q)) > Given(r, held[q][r])
      BY <1>1, <3>2, <3>3, <3>5, InOrder
    <3>7. Asked(Next1(q)) \in 1..5 /\ Asked(Next1(p)) \in 1..5
      BY <2>1
    <3>8. Given(r, held[q][r]) \in 1..5
      BY DEF Given
    <3> QED
      BY <3>4, <3>6, <3>7, <3>8
  <2> DEFINE rank(p) == Asked(Next1(p))
  <2>3. \A p \in S : rank(p) \in 1..5 /\ \E q \in S : rank(q) > rank(p)
    BY <2>1, <2>2
  <2> HIDE DEF rank
  <2>4. PICK p1 \in S : rank(p1) >= 1
    BY <1>1, <2>3
  <2>5. PICK p2 \in S : rank(p2) >= 2
    BY <2>3, <2>4
  <2>6. PICK p3 \in S : rank(p3) >= 3
    BY <2>3, <2>5
  <2>7. PICK p4 \in S : rank(p4) >= 4
    BY <2>3, <2>6
  <2>8. PICK p5 \in S : rank(p5) >= 5
    BY <2>3, <2>7
  <2> QED
    BY <2>3, <2>8
<1>2. LockInv => NoDeadlock
  BY <1>1 DEF NoDeadlock
<1> QED
  BY <1>2, Inductive, PTL
=============================================================================
