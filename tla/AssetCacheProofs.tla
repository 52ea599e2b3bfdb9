-------------------------- MODULE AssetCacheProofs --------------------------
(***************************************************************************)
(* Proofs about AssetCache, for any number of renders and cuts, any chain  *)
(* of candidates and any way they share files and rows; and, at the end,   *)
(* about the downloads it makes, SafeFetch.                                *)
(***************************************************************************)
EXTENDS AssetCache, SafeFetch, TLAPS

-----------------------------------------------------------------------------
(* A file that is there for good.                                          *)
Present(p) == p \in LegacyFiles \/ files[p] \in Complete(p)

Whole == \A p \in Paths \ LegacyFiles : files[p] \in Complete(p) \cup {"absent"}

Searching == {"look", "discard", "ask", "fetch", "write", "check"}

(* What a render found is there; what it is about to delete is a file from *)
(* before the content check; what it is about to install has been filled.  *)
Tracked(r) ==
  /\ run[r].pc \in Searching => run[r].at <= Len(Chain) /\ run[r].found = None
  /\ run[r].pc = "row" => run[r].at <= Len(Chain) /\ run[r].found # None
  /\ run[r].pc = "pin" /\ run[r].found # None => run[r].at <= Len(Chain)
  /\ run[r].pc = "discard" => Target(r) \in LegacyFiles
  /\ run[r].pc = "check" => temps[Temp(r, Target(r))] # "part"
  /\ run[r].found # None => Present(run[r].found)

Executing(r) == run[r].pc \in PC

IInv ==
  /\ TypeOK
  /\ Whole
  /\ \A a \in rows : Present(a.path)
  /\ PinnedFilesPresent
  /\ \A r \in Renders : Executing(r) => Tracked(r)

-----------------------------------------------------------------------------
(* What a render in progress keeps is typed and tracked.                   *)
LEMMA ExecutionIs ==
  ASSUME IInv, NEW r \in Renders, Executing(r)
  PROVE  run[r] \in Execution /\ Tracked(r)
BY DEF IInv, TypeOK, Executing, PC

(* The file a candidate is cached in is complete in what is admitted there. *)
LEMMA AdmittedIsComplete ==
  ASSUME NEW c \in Candidates, NEW text \in {"junk", "short", "whole"}
  PROVE  Admitted(c, text) <=> text \in Complete(PathOf[c])
BY AssetCacheAssumption DEF Admitted, Complete

(* A render that searches is at a candidate with a path and a temporary    *)
(* file.                                                                   *)
LEMMA TargetIsPath ==
  ASSUME IInv, NEW r \in Renders, Executing(r), run[r].pc \in Searching \cup {"row"}
  PROVE  /\ run[r].at \in 1 .. Len(Chain)
         /\ Candidate(r) \in Candidates /\ Target(r) \in Paths
         /\ Temp(r, Target(r)) \in Names
<1>1. run[r].at \in 1 .. Len(Chain)
  BY ExecutionIs, AssetCacheAssumption DEF Tracked, Execution
<1>2. Candidate(r) \in Candidates
  BY <1>1, AssetCacheAssumption DEF Candidate
<1>3. QED
  BY <1>1, <1>2, AssetCacheAssumption DEF Target, Temp, Names

-----------------------------------------------------------------------------
(* The cache only changes where a render deletes or installs a file.       *)
LEMMA FilesChange ==
  ASSUME IInv, [Next]_vars
  PROVE  \/ UNCHANGED files
         \/ \E r \in Renders : Executing(r) /\ (Discard(r) \/ Install(r))
BY DEF Next, Start, Look, Discard, Ask, OpenTemp, FillTemp, FetchFails, Refuse, Install, FindRow,
       Pin, Composite, Kill, vars, At, Executing, PC

(* A step installs only complete files and takes none away that passes.    *)
LEMMA FilesStayWhole ==
  ASSUME IInv, [Next]_vars
  PROVE  /\ files' \in [Paths -> Contents]
         /\ Whole'
         /\ \A p \in Paths : files'[p] # files[p] => files'[p] \in Complete(p) \cup {"absent"}
         /\ \A p \in Paths : Present(p) => Present(p)'
<1>1. CASE UNCHANGED files
  BY <1>1 DEF IInv, TypeOK, Whole, Present
<1>2. ASSUME NEW r \in Renders, Executing(r), Discard(r)
      PROVE  /\ files' \in [Paths -> Contents]
             /\ Whole'
             /\ \A p \in Paths : files'[p] # files[p] => files'[p] \in Complete(p) \cup {"absent"}
             /\ \A p \in Paths : Present(p) => Present(p)'
  <2>1. Target(r) \in Paths /\ Target(r) \in LegacyFiles
    BY <1>2, TargetIsPath, ExecutionIs DEF Discard, At, Tracked, Searching
  <2>2. files' = [files EXCEPT ![Target(r)] = "absent"]
    BY <1>2 DEF Discard
  <2>3. QED
    BY <2>1, <2>2 DEF IInv, TypeOK, Whole, Present, Contents
<1>3. ASSUME NEW r \in Renders, Executing(r), Install(r)
      PROVE  /\ files' \in [Paths -> Contents]
             /\ Whole'
             /\ \A p \in Paths : files'[p] # files[p] => files'[p] \in Complete(p) \cup {"absent"}
             /\ \A p \in Paths : Present(p) => Present(p)'
  <2> DEFINE text == temps[Temp(r, Target(r))]
  <2>1. Target(r) \in Paths /\ Candidate(r) \in Candidates /\ Target(r) = PathOf[Candidate(r)]
    BY <1>3, TargetIsPath DEF Install, At, Searching, Target
  <2>2. text \in {"absent", "junk", "short", "whole"}
    BY <1>3, TargetIsPath, ExecutionIs DEF Install, At, Tracked, Searching, IInv, TypeOK, Contents
  <2>3. CASE UNCHANGED files
    BY <2>3 DEF IInv, TypeOK, Whole, Present
  <2>4. CASE text # "absent" /\ Admitted(Candidate(r), text)
             /\ files' = [files EXCEPT ![Target(r)] = text]
    <3>1. text \in Complete(Target(r))
      BY <2>1, <2>2, <2>4, AdmittedIsComplete
    <3>2. QED
      BY <2>1, <2>2, <2>4, <3>1 DEF IInv, TypeOK, Whole, Present, Contents
  <2>5. QED
    BY <1>3, <2>3, <2>4 DEF Install
<1>4. QED
  BY FilesChange, <1>1, <1>2, <1>3

-----------------------------------------------------------------------------
(* Each action, as what it does to the render that takes it.               *)
Becomes(r, y) == run' = [run EXCEPT ![r] = y]

(* A render that goes on: the others keep what they track.                 *)
LEMMA OneMoves ==
  ASSUME IInv, [Next]_vars, NEW r \in Renders, NEW y, Becomes(r, y),
         y \in Execution \cup {[pc |-> "over"]},
         y \in Execution => Tracked(r)',
         \A s \in Renders \ {r}, p \in Paths :
           temps'[Temp(s, p)] = temps[Temp(s, p)] \/ temps'[Temp(s, p)] = "absent"
  PROVE  /\ run' \in [Renders -> Execution \cup {[pc |-> "unused"], [pc |-> "over"]}]
         /\ \A s \in Renders : Executing(s)' => Tracked(s)'
<1>1. run' \in [Renders -> Execution \cup {[pc |-> "unused"], [pc |-> "over"]}]
  BY DEF Becomes, IInv, TypeOK
<1>2. ASSUME NEW s \in Renders, s # r, Executing(s)' PROVE Tracked(s)'
  <2>1. run'[s] = run[s] /\ Executing(s)
    BY <1>2 DEF Becomes, Executing, IInv, TypeOK
  <2>2. run[s] \in Execution /\ Tracked(s)
    BY <2>1, ExecutionIs
  <2>3. Target(s)' = Target(s)
    BY <2>1 DEF Target, Candidate
  <2>4. run[s].found # None => Present(run[s].found)'
    BY <2>1, <2>2, FilesStayWhole DEF Tracked, Execution
  <2>5. run[s].pc = "check" => temps[Temp(s, Target(s))]' # "part"
    BY <1>2, <2>1, <2>2, <2>3, TargetIsPath DEF Tracked, Searching
  <2>6. QED
    BY <2>1, <2>2, <2>3, <2>4, <2>5 DEF Tracked
<1>3. ASSUME Executing(r)' PROVE Tracked(r)'
  <2>1. run'[r] = y
    BY DEF Becomes, IInv, TypeOK
  <2>2. y \in Execution
    BY <1>3, <2>1 DEF Executing, PC
  <2>3. QED
    BY <2>2
<1>4. QED
  BY <1>1, <1>2, <1>3

(* The next candidate is tried, or there is none left.                     *)
LEMMA TryNextOK ==
  ASSUME IInv, [Next]_vars, NEW r \in Renders, run[r].pc \in Searching, TryNext(r),
         \A s \in Renders \ {r}, p \in Paths :
           temps'[Temp(s, p)] = temps[Temp(s, p)] \/ temps'[Temp(s, p)] = "absent"
  PROVE  /\ run' \in [Renders -> Execution \cup {[pc |-> "unused"], [pc |-> "over"]}]
         /\ \A s \in Renders : Executing(s)' => Tracked(s)'
<1>1. run[r] \in Execution /\ Tracked(r) /\ run[r].at \in 1 .. Len(Chain) /\ run[r].found = None
  BY ExecutionIs, TargetIsPath DEF Executing, PC, Searching, Tracked
<1> DEFINE p == IF run[r].at < Len(Chain) THEN "look" ELSE "pin"
           y == [run[r] EXCEPT !.at = @ + 1, !.pc = p]
<1>2. Becomes(r, y)
  BY DEF TryNext, Becomes, IInv, TypeOK
<1>3. run[r].at + 1 \in 1 .. Len(Chain) + 1 /\ Len(Chain) \in Nat
      /\ (p = "pin" \/ (p = "look" /\ run[r].at + 1 <= Len(Chain)))
  BY <1>1, AssetCacheAssumption
<1> HIDE DEF p
<1>4. y \in Execution
  BY <1>1, <1>3 DEF Execution, PC
<1>5. run'[r] = y
  BY <1>2 DEF Becomes, IInv, TypeOK
<1>6. Tracked(r)'
  BY <1>1, <1>3, <1>4, <1>5 DEF Tracked, Execution, Searching
<1>7. QED
  BY <1>2, <1>4, <1>6, OneMoves

(* A render that goes on with the same candidate.                          *)
LEMMA GotoOK ==
  ASSUME IInv, [Next]_vars, NEW r \in Renders, NEW p, Goto(r, p),
         \/ run[r].pc \in Searching /\ p \in Searching
         \/ run[r].pc = "pin" /\ p = "composite",
         p = "discard" => Target(r) \in LegacyFiles,
         p = "check" => temps'[Temp(r, Target(r))] # "part",
         \A s \in Renders \ {r}, q \in Paths :
           temps'[Temp(s, q)] = temps[Temp(s, q)] \/ temps'[Temp(s, q)] = "absent"
  PROVE  /\ run' \in [Renders -> Execution \cup {[pc |-> "unused"], [pc |-> "over"]}]
         /\ \A s \in Renders : Executing(s)' => Tracked(s)'
<1>1. run[r] \in Execution /\ Tracked(r)
  BY ExecutionIs DEF Executing, PC, Searching
<1> DEFINE y == [run[r] EXCEPT !.pc = p]
<1>2. Becomes(r, y)
  BY DEF Goto, Becomes, IInv, TypeOK
<1>3. y \in Execution
  BY <1>1 DEF Execution, PC, Searching
<1>4. run'[r] = y
  BY <1>2 DEF Becomes, IInv, TypeOK
<1>5. /\ y.pc = p /\ y.at = run[r].at /\ y.found = run[r].found
      /\ Target(r)' = Target(r)
  BY <1>1, <1>4 DEF Execution, Target, Candidate
<1>6. run'[r].found # None => Present(run[r].found)'
  BY <1>1, <1>4, <1>5, FilesStayWhole DEF Tracked, Execution
<1>7. Tracked(r)'
  BY <1>1, <1>4, <1>5, <1>6 DEF Tracked, Searching
<1>8. QED
  BY <1>2, <1>3, <1>7, OneMoves

(* A render that found a file, at the candidate it is at.                  *)
LEMMA FoundOK ==
  ASSUME IInv, [Next]_vars, NEW r \in Renders, NEW p, NEW q \in Paths,
         run' = [run EXCEPT ![r].pc = p, ![r].found = q],
         \/ run[r].pc \in Searching /\ p = "row"
         \/ run[r].pc = "row" /\ p = "pin",
         Present(q)',
         \A s \in Renders \ {r}, t \in Paths :
           temps'[Temp(s, t)] = temps[Temp(s, t)] \/ temps'[Temp(s, t)] = "absent"
  PROVE  /\ run' \in [Renders -> Execution \cup {[pc |-> "unused"], [pc |-> "over"]}]
         /\ \A s \in Renders : Executing(s)' => Tracked(s)'
<1>1. run[r] \in Execution /\ Tracked(r) /\ run[r].at <= Len(Chain) /\ q # None
  BY ExecutionIs, AssetCacheAssumption DEF Executing, PC, Searching, Tracked
<1> DEFINE y == [run[r] EXCEPT !.pc = p, !.found = q]
<1>2. Becomes(r, y)
  BY DEF Becomes, IInv, TypeOK
<1>3. y \in Execution
  BY <1>1 DEF Execution, PC
<1>4. run'[r] = y
  BY <1>2 DEF Becomes, IInv, TypeOK
<1>5. y.pc = p /\ y.at = run[r].at /\ y.found = q
  BY <1>1 DEF Execution
<1>6. Tracked(r)'
  BY <1>1, <1>4, <1>5 DEF Tracked, Searching
<1>7. QED
  BY <1>2, <1>3, <1>6, OneMoves

LEMMA OverOK ==
  ASSUME IInv, [Next]_vars, NEW r \in Renders, Composite(r) \/ Kill(r)
  PROVE  /\ run' \in [Renders -> Execution \cup {[pc |-> "unused"], [pc |-> "over"]}]
         /\ \A s \in Renders : Executing(s)' => Tracked(s)'
<1>1. Becomes(r, [pc |-> "over"]) /\ UNCHANGED temps
  BY DEF Composite, Kill, Becomes
<1>2. [pc |-> "over"] \notin Execution
  BY DEF Execution, PC
<1>3. QED
  BY <1>1, <1>2, OneMoves

(* A render that starts is tracked.                                        *)
LEMMA StartOK ==
  ASSUME IInv, [Next]_vars, NEW r \in Renders, Start(r)
  PROVE  /\ run' \in [Renders -> Execution \cup {[pc |-> "unused"], [pc |-> "over"]}]
         /\ \A s \in Renders : Executing(s)' => Tracked(s)'
<1>1. PICK c \in Cuts :
        run' = [run EXCEPT ![r] =
          IF pin[c] # None THEN [pc |-> "composite", cut |-> c, at |-> 1, found |-> pin[c].path]
                           ELSE [pc |-> "look", cut |-> c, at |-> 1, found |-> None]]
  BY DEF Start
<1>2. \A s \in Renders, p \in Paths :
        temps'[Temp(s, p)] = temps[Temp(s, p)] \/ temps'[Temp(s, p)] = "absent"
  BY DEF Start, Sweep, Temp, Names
<1>3. 1 \in 1 .. Len(Chain) + 1 /\ 1 <= Len(Chain)
  BY AssetCacheAssumption
<1>4. CASE pin[c] # None
  <2> DEFINE y == [pc |-> "composite", cut |-> c, at |-> 1, found |-> pin[c].path]
  <2>1. Becomes(r, y) /\ run'[r] = y
    BY <1>1, <1>4 DEF Becomes, IInv, TypeOK
  <2>2. pin[c].path \in Paths /\ Present(pin[c].path)
    BY <1>4 DEF IInv, TypeOK, Asset, PinnedFilesPresent, Present
  <2>3. y \in Execution
    BY <1>3, <2>2 DEF Execution, PC
  <2>4. Tracked(r)'
    BY <2>1, <2>2, FilesStayWhole DEF Tracked, Searching
  <2>5. QED
    BY <1>2, <2>1, <2>3, <2>4, OneMoves
<1>5. CASE pin[c] = None
  <2> DEFINE y == [pc |-> "look", cut |-> c, at |-> 1, found |-> None]
  <2>1. Becomes(r, y) /\ run'[r] = y
    BY <1>1, <1>5 DEF Becomes, IInv, TypeOK
  <2>2. y \in Execution
    BY <1>3 DEF Execution, PC
  <2>3. Tracked(r)'
    BY <1>3, <2>1 DEF Tracked, Searching
  <2>4. QED
    BY <1>2, <2>1, <2>2, <2>3, OneMoves
<1>6. QED
  BY <1>4, <1>5

(* Every step keeps every render tracked.                                  *)
LEMMA RendersStayTracked ==
  ASSUME IInv, [Next]_vars
  PROVE  /\ run' \in [Renders -> Execution \cup {[pc |-> "unused"], [pc |-> "over"]}]
         /\ \A s \in Renders : Executing(s)' => Tracked(s)'
<1> DEFINE Goal == /\ run' \in [Renders -> Execution \cup {[pc |-> "unused"], [pc |-> "over"]}]
                   /\ \A s \in Renders : Executing(s)' => Tracked(s)'
<1>1. ASSUME NEW r \in Renders, Look(r) PROVE Goal
  <2>1. UNCHANGED temps /\ run[r].pc = "look" /\ Executing(r)
    BY <1>1 DEF Look, At, Executing, PC
  <2>2. /\ Target(r) \in Paths /\ Candidate(r) \in Candidates
        /\ Target(r) = PathOf[Candidate(r)]
    BY <2>1, TargetIsPath DEF Searching, Target
  <2>3. CASE TryNext(r)
    BY <2>1, <2>3, TryNextOK DEF Searching
  <2>4. CASE Goto(r, "ask")
    BY <2>1, <2>4, GotoOK DEF Searching
  <2> DEFINE cached == files[Target(r)]
  <2>5. Target(r) \notin LegacyFiles => cached = "absent" \/ Admitted(Candidate(r), cached)
    <3>1. Target(r) \notin LegacyFiles => cached = "absent" \/ cached \in Complete(Target(r))
      BY <2>2 DEF IInv, Whole
    <3>2. Complete(Target(r)) \subseteq {"junk", "short", "whole"}
      BY DEF Complete
    <3>3. QED
      BY <2>2, <3>1, <3>2, AdmittedIsComplete
  <2>6. CASE cached # "absent" /\ ~Admitted(Candidate(r), cached) /\ Goto(r, "discard")
    BY <2>1, <2>5, <2>6, GotoOK DEF Searching
  <2>7. CASE /\ Admitted(Candidate(r), cached) /\ cached # "absent"
             /\ run' = [run EXCEPT ![r].pc = "row", ![r].found = Target(r)]
    <3>1. Present(Target(r))
      <4>1. CASE Target(r) \in LegacyFiles
        BY <4>1 DEF Present
      <4>2. CASE Target(r) \notin LegacyFiles
        BY <2>2, <2>7, <4>2 DEF Present, IInv, Whole
      <4>3. QED
        BY <4>1, <4>2
    <3> DEFINE t == Target(r)
    <3>2. t \in Paths /\ run' = [run EXCEPT ![r].pc = "row", ![r].found = t] /\ Present(t)
      BY <2>2, <2>7, <3>1
    <3> HIDE DEF t
    <3>3. \A q \in Paths : Present(q) => Present(q)'
      BY FilesStayWhole
    <3>4. PICK q \in Paths : q = t
      BY <3>2
    <3>5. run' = [run EXCEPT ![r].pc = "row", ![r].found = q] /\ Present(q)'
      BY <3>2, <3>3, <3>4
    <3>6. QED
      BY <2>1, <3>5, FoundOK DEF Searching
  <2>8. QED
    BY <1>1, <2>3, <2>4, <2>6, <2>7 DEF Look
<1>2. ASSUME NEW r \in Renders, Discard(r) \/ Ask(r) \/ Refuse(r) PROVE Goal
  <2>1. UNCHANGED temps /\ run[r].pc \in Searching
    BY <1>2 DEF Discard, Ask, Refuse, At, Searching
  <2>2. TryNext(r) \/ Goto(r, "ask") \/ Goto(r, "fetch")
    BY <1>2 DEF Discard, Ask, Refuse
  <2>3. QED
    BY <2>1, <2>2, TryNextOK, GotoOK DEF Searching
<1>3. ASSUME NEW r \in Renders, OpenTemp(r) \/ FillTemp(r) \/ FetchFails(r) PROVE Goal
  <2>1. run[r].pc \in Searching /\ Executing(r)
    BY <1>3 DEF OpenTemp, FillTemp, FetchFails, At, Searching, Executing, PC
  <2>2. Temp(r, Target(r)) \in Names
    BY <2>1, TargetIsPath
  <2>3. PICK text : /\ temps' = [temps EXCEPT ![Temp(r, Target(r))] = text]
                    /\ FillTemp(r) => text # "part" \/ temps[Temp(r, Target(r))] = "absent"
                    /\ FillTemp(r) => text \in {temps[Temp(r, Target(r))], "whole", "short", "junk"}
    BY <1>3 DEF OpenTemp, FillTemp, FetchFails
  <2>4. \A s \in Renders \ {r}, p \in Paths : temps'[Temp(s, p)] = temps[Temp(s, p)]
    BY <2>3 DEF Temp, IInv, TypeOK, Names
  <2>5. CASE TryNext(r)
    BY <2>1, <2>4, <2>5, TryNextOK
  <2>6. CASE OpenTemp(r)
    BY <2>1, <2>4, <2>6, GotoOK DEF OpenTemp, Searching
  <2>7. CASE FillTemp(r)
    <3>1. temps'[Temp(r, Target(r))] # "part"
      BY <2>2, <2>3, <2>7 DEF IInv, TypeOK
    <3>2. QED
      BY <2>1, <2>4, <2>7, <3>1, GotoOK DEF FillTemp, Searching
  <2>8. QED
    BY <1>3, <2>5, <2>6, <2>7 DEF FetchFails
<1>4. ASSUME NEW r \in Renders, Install(r) PROVE Goal
  <2> DEFINE text == temps[Temp(r, Target(r))]
             t == Target(r)
  <2>1. run[r].pc \in Searching /\ Executing(r)
    BY <1>4 DEF Install, At, Searching, Executing, PC
  <2>2. t \in Paths /\ Candidate(r) \in Candidates /\ t = PathOf[Candidate(r)]
    BY <2>1, TargetIsPath DEF Target
  <2>3. \A s \in Renders \ {r}, p \in Paths : temps'[Temp(s, p)] = temps[Temp(s, p)]
    BY <1>4 DEF Install, Temp, IInv, TypeOK, Names
  <2>4. CASE TryNext(r)
    BY <2>1, <2>3, <2>4, TryNextOK
  <2>5. CASE /\ text # "absent" /\ Admitted(Candidate(r), text)
             /\ files' = [files EXCEPT ![t] = text]
             /\ run' = [run EXCEPT ![r].pc = "row", ![r].found = t]
    <3>1. text \in {"absent", "junk", "short", "whole"}
      BY <1>4, <2>1, TargetIsPath, ExecutionIs
      DEF Install, At, Tracked, Searching, IInv, TypeOK, Contents
    <3>2. files'[t] \in Complete(t)
      BY <2>2, <2>5, <3>1, AdmittedIsComplete DEF IInv, TypeOK
    <3>3. PICK q \in Paths : q = t
      BY <2>2
    <3> HIDE DEF t, text
    <3>4. run' = [run EXCEPT ![r].pc = "row", ![r].found = q] /\ Present(q)'
      BY <2>5, <3>2, <3>3 DEF Present
    <3>5. QED
      BY <2>1, <2>3, <3>4, FoundOK
  <2>6. QED
    BY <1>4, <2>4, <2>5 DEF Install
<1>5. ASSUME NEW r \in Renders, FindRow(r) PROVE Goal
  <2>1. run[r].pc = "row" /\ UNCHANGED temps /\ Executing(r)
    BY <1>5 DEF FindRow, At, Executing, PC
  <2>2. PICK q \in IF Same(r) = {} THEN {run[r].found} ELSE {a.path : a \in Same(r)} :
          run' = [run EXCEPT ![r].pc = "pin", ![r].found = q]
    BY <1>5 DEF FindRow
  <2>3. q \in Paths /\ Present(q)
    BY <2>1, <2>2, ExecutionIs DEF Tracked, Same, IInv, TypeOK, Asset, Execution
  <2>4. Present(q)'
    BY <2>3, FilesStayWhole
  <2>5. QED
    BY <2>1, <2>2, <2>3, <2>4, FoundOK
<1>6. ASSUME NEW r \in Renders, Pin(r) PROVE Goal
  <2>1. Goto(r, "composite") /\ run[r].pc = "pin" /\ UNCHANGED temps
    BY <1>6 DEF Pin, At
  <2>2. QED
    BY <2>1, GotoOK
<1>7. CASE UNCHANGED vars
  <2>1. ASSUME NEW s \in Renders, Executing(s)' PROVE Tracked(s)'
    <3>1. Executing(s) /\ UNCHANGED <<run, files, temps>>
      BY <1>7, <2>1 DEF Executing, vars
    <3>2. QED
      BY <3>1, ExecutionIs DEF Tracked, Target, Candidate, Temp, Present
  <2>2. QED
    BY <1>7, <2>1 DEF vars, IInv, TypeOK
<1>8. QED
  BY <1>1, <1>2, <1>3, <1>4, <1>5, <1>6, <1>7, StartOK, OverOK DEF Next

-----------------------------------------------------------------------------
(* The rows and the pins.                                                  *)
LEMMA RowsAndPins ==
  ASSUME IInv, [Next]_vars
  PROVE  /\ rows' \subseteq Asset /\ pin' \in [Cuts -> Asset \cup {None}]
         /\ \A a \in rows' : Present(a.path)'
         /\ \A c \in Cuts : pin'[c] # None => pin'[c] \in rows'
<1>1. CASE UNCHANGED <<rows, pin>>
  BY <1>1, FilesStayWhole DEF IInv, TypeOK, Asset
<1>2. ASSUME NEW r \in Renders, Pin(r)
      PROVE  /\ rows' \subseteq Asset /\ pin' \in [Cuts -> Asset \cup {None}]
             /\ \A a \in rows' : Present(a.path)'
             /\ \A c \in Cuts : pin'[c] # None => pin'[c] \in rows'
  <2>1. run[r] \in Execution /\ Tracked(r) /\ run[r].pc = "pin"
    BY <1>2, ExecutionIs DEF Pin, At, Executing, PC
  <2>2. CASE run[r].found = None
    <3>1. pin' = [pin EXCEPT ![run[r].cut] = None] /\ UNCHANGED <<rows, files>>
      BY <1>2, <2>2 DEF Pin
    <3>2. QED
      BY <2>1, <3>1 DEF IInv, TypeOK, Present
  <2>3. CASE run[r].found # None
    <3> DEFINE asset == [ref |-> RefOf[Candidate(r)], path |-> run[r].found]
    <3>1. /\ pin' = [pin EXCEPT ![run[r].cut] = asset] /\ rows' = rows \cup {asset}
          /\ UNCHANGED files
      BY <1>2, <2>3 DEF Pin
    <3>2. run[r].found \in Paths /\ Present(run[r].found)
      BY <2>1, <2>3 DEF Tracked, Execution
    <3>3. Candidate(r) \in Candidates
      BY <2>1, <2>3, AssetCacheAssumption DEF Tracked, Execution, Candidate
    <3>4. asset \in Asset /\ asset.path = run[r].found
      BY <3>2, <3>3 DEF Asset, Refs
    <3> HIDE DEF asset
    <3>5. \A a \in rows' : Present(a.path)'
      BY <3>1, <3>2, <3>4 DEF IInv, Present
    <3>6. QED
      BY <2>1, <3>1, <3>4, <3>5 DEF IInv, TypeOK
  <2>4. QED
    BY <2>2, <2>3
<1>3. UNCHANGED <<rows, pin>> \/ \E r \in Renders : Pin(r)
  BY DEF Next, Start, Look, Discard, Ask, OpenTemp, FillTemp, FetchFails, Refuse, Install, FindRow,
         Composite, Kill, vars, Sourced
<1>4. QED
  BY <1>1, <1>2, <1>3

LEMMA TheRest ==
  ASSUME IInv, [Next]_vars
  PROVE  /\ temps' \in [Names -> Contents] /\ marks' \subseteq Images
         /\ shown' \in [Cuts -> {"nothing", "media", "black"}] /\ black' \in [Cuts -> BOOLEAN]
<1>1. ASSUME NEW r \in Renders, Start(r) PROVE temps' \in [Names -> Contents]
  BY <1>1 DEF Start, Sweep, IInv, TypeOK, Contents
<1>2. ASSUME NEW r \in Renders, OpenTemp(r) \/ FillTemp(r) \/ FetchFails(r) \/ Install(r)
      PROVE  temps' \in [Names -> Contents]
  BY <1>2 DEF OpenTemp, FillTemp, FetchFails, Install, IInv, TypeOK, Contents
<1>3. \/ UNCHANGED temps
      \/ \E r \in Renders : Start(r) \/ OpenTemp(r) \/ FillTemp(r) \/ FetchFails(r) \/ Install(r)
  BY DEF Next, Look, Discard, Ask, Refuse, FindRow, Pin, Composite, Kill, vars
<1>4. temps' \in [Names -> Contents]
  BY <1>1, <1>2, <1>3 DEF IInv, TypeOK
<1>5. marks' \subseteq Images
  BY DEF Next, Start, Look, Discard, Ask, OpenTemp, FillTemp, FetchFails, Refuse, Install, FindRow,
         Pin, Composite, Kill, vars, IInv, TypeOK
<1>6. ASSUME NEW r \in Renders, Composite(r)
      PROVE  /\ shown' \in [Cuts -> {"nothing", "media", "black"}]
             /\ black' \in [Cuts -> BOOLEAN]
  BY <1>6 DEF Composite, IInv, TypeOK
<1>7. UNCHANGED <<shown, black>> \/ \E r \in Renders : Composite(r)
  BY DEF Next, Start, Look, Discard, Ask, OpenTemp, FillTemp, FetchFails, Refuse, Install, FindRow,
         Pin, Kill, vars, Sourced
<1>8. QED
  BY <1>4, <1>5, <1>6, <1>7 DEF IInv, TypeOK

-----------------------------------------------------------------------------
LEMMA InitOK == ASSUME Init PROVE IInv
<1>1. Whole
  BY DEF Init, Whole
<1>2. \A a \in rows : Present(a.path)
  BY DEF Init, Present
<1>3. TypeOK
  <2>1. \A p \in Paths : (IF p \in LegacyFiles THEN "junk" ELSE "absent") \in Contents
    BY DEF Contents
  <2>2. QED
    BY <2>1 DEF Init, TypeOK, Contents
<1>4. QED
  BY <1>1, <1>2, <1>3 DEF Init, IInv, PinnedFilesPresent, Executing, PC

(* The inductive invariant of the file cache, for any renders, cuts and    *)
(* candidates: installed files are whole, the file of every row and pin is *)
(* there, and so is what a render has found.                               *)
THEOREM Inductive == Spec => []IInv
<1>1. ASSUME IInv, [Next]_vars PROVE IInv'
  <2>1. TypeOK'
    BY <1>1, FilesStayWhole, RendersStayTracked, RowsAndPins, TheRest DEF TypeOK
  <2>2. PinnedFilesPresent'
    BY <1>1, RowsAndPins DEF PinnedFilesPresent, Present
  <2>3. QED
    BY <1>1, <2>1, <2>2, FilesStayWhole, RendersStayTracked, RowsAndPins DEF IInv
<1>2. QED
  BY InitOK, <1>1, PTL DEF Spec

(* InstalledWhole, for any renders, candidates and shared files: the       *)
(* download into a name of its own and os.replace (_atomic_write) let no   *)
(* half-written or unchecked file into the cache.                          *)
THEOREM NothingPartialIsInstalled == Spec => InstalledWhole
<1>1. IInv /\ [Next]_vars =>
        [\A p \in Paths : files'[p] # files[p] => files'[p] \in Complete(p) \cup {"absent"}]_vars
  BY FilesStayWhole
<1>2. QED
  BY Inductive, <1>1, PTL DEF Spec, InstalledWhole

(* PinnedFilesPresent, for any renders and cuts: no discard, refusal or    *)
(* sweep of one render takes away the file another cut is pinned to.       *)
THEOREM PinnedFilesStay == Spec => []PinnedFilesPresent
<1>1. IInv => PinnedFilesPresent
  BY DEF IInv
<1>2. QED
  BY Inductive, <1>1, PTL

-----------------------------------------------------------------------------
(* A download of SafeFetch: open_download with its watchdog, for any       *)
(* redirect limit and whether or not the watchdog can be armed.            *)

(* The inductive invariant. Before a hop is connected it has no watchdog;  *)
(* a connection belongs to a vetted URL; the thread that is firing holds   *)
(* the socket; and a connection the watchdog shut, or a body cut off by    *)
(* it, goes with a flag that stays set until the hop is over.              *)
Unconnected == {"vet", "resolve", "connect"}

FreshHop ==
  reader \in Unconnected =>
    conn = "none" /\ dup = "none" /\ timer = "off" /\ ~fired /\ result = "none"

VettedHop == reader \in {"vet", "done"} \/ url = "allowed"

NothingReadYet == reader \in Unconnected \cup {"headers"} => body = "none"

HoldsWhatItShuts == timer \in {"armed", "firing"} /\ reader # "done" => dup = "held"

FlagOutlivesShutdown == conn = "shut" \/ body = "cut" => fired /\ timer = "over"

Delivered ==
  /\ result = "redirected" => body = "none"
  /\ reader \in {"headers", "body", "ended"} => result = "none"
  /\ result = "delivered" => body # "cut"

NotAfterTheEnd == reader = "done" => conn = "none" /\ timer \in {"off", "over"}

FetchInv ==
  /\ FetchTypeOK
  /\ FreshHop
  /\ VettedHop
  /\ NothingReadYet
  /\ HoldsWhatItShuts
  /\ FlagOutlivesShutdown
  /\ Delivered
  /\ NotAfterTheEnd

(* Every step keeps the invariant: one case per action.                    *)
LEMMA FetchInductive == FetchInv /\ [FetchNext]_fetchVars => FetchInv'
<1> SUFFICES ASSUME FetchInv, [FetchNext]_fetchVars
             PROVE  FetchInv'
  OBVIOUS
<1> USE SafeFetchAssumption DEF SafeFetchAssumption
<1> USE DEF FetchInv, FetchTypeOK, FreshHop, VettedHop, NothingReadYet, HoldsWhatItShuts,
            FlagOutlivesShutdown, Delivered, NotAfterTheEnd, Unconnected, guard, reply
<1>1. CASE Vet
  BY <1>1 DEF Vet, Give
<1>2. CASE Resolve
  BY <1>2 DEF Resolve, Give
<1>3. CASE Connect
  BY <1>3 DEF Connect, Leave
<1>4. CASE Headers
  BY <1>4 DEF Headers, Leave
<1>5. CASE Chunk
  BY <1>5 DEF Chunk, Leave
<1>6. CASE EndOfBody
  BY <1>6 DEF EndOfBody
<1>7. CASE ReadFails
  BY <1>7 DEF ReadFails, Leave
<1>8. CASE Check
  BY <1>8 DEF Check, Leave
<1>9. CASE Cancel
  <2>1. CASE result = "redirected" /\ hop < MaxRedirects
    <3>1. /\ reader' = "vet" /\ result' = "none" /\ conn' = "none"
          /\ url' \in {"allowed", "refused"}
          /\ dup' = "none" /\ timer' = "off"
          /\ UNCHANGED <<late, sized, body>>
      BY <1>9, <2>1 DEF Cancel, NextHop, MayFollow
    <3>2. hop' \in 0 .. MaxRedirects
      BY <1>9, <2>1 DEF Cancel, NextHop, MayFollow
    <3>3. ~fired' /\ fired' \in BOOLEAN
      BY <1>9, <2>1 DEF Cancel, NextHop, MayFollow
    <3>4. body = "none"
      BY <2>1
    <3> QED
      BY <3>1, <3>2, <3>3, <3>4
  <2>2. CASE ~(result = "redirected" /\ hop < MaxRedirects)
    <3>1. /\ reader' = "done" /\ conn' = "none" /\ timer # "firing"
          /\ result' = IF result = "redirected" THEN "failed" ELSE result
          /\ dup' = IF dup = "held" THEN "closed" ELSE dup
          /\ timer' = IF timer = "armed" THEN "over" ELSE timer
          /\ UNCHANGED <<hop, url, fired, late, sized, body>>
      BY <1>9, <2>2 DEF Cancel, NextHop, MayFollow
    <3> QED
      BY <3>1
  <2> QED
    BY <2>1, <2>2
<1>10. CASE Deadline
  BY <1>10 DEF Deadline
<1>11. CASE Fire
  BY <1>11 DEF Fire
<1>12. CASE Shut
  BY <1>12 DEF Shut
<1>13. CASE Reset
  BY <1>13 DEF Reset
<1>14. CASE UNCHANGED fetchVars
  BY <1>14 DEF fetchVars
<1> QED
  BY <1>1, <1>2, <1>3, <1>4, <1>5, <1>6, <1>7, <1>8, <1>9, <1>10, <1>11, <1>12, <1>13, <1>14 DEF FetchNext

(* The inductive invariant of a download.                                  *)
LEMMA FetchInvHolds == FetchSpec => []FetchInv
<1>1. FetchInit => FetchInv
  <2>1. ASSUME FetchInit PROVE FetchTypeOK
    <3>1. hop \in 0 .. MaxRedirects
      BY <2>1, SafeFetchAssumption DEF SafeFetchAssumption, FetchInit
    <3>2. late \in BOOLEAN /\ sized \in BOOLEAN /\ fired \in BOOLEAN
      BY <2>1 DEF FetchInit
    <3> QED
      BY <2>1, <3>1, <3>2 DEF FetchInit, FetchTypeOK
  <2>2. ASSUME FetchInit PROVE FreshHop /\ VettedHop /\ NothingReadYet
    BY <2>2 DEF FetchInit, FreshHop, VettedHop, NothingReadYet, Unconnected
  <2>3. ASSUME FetchInit PROVE HoldsWhatItShuts /\ FlagOutlivesShutdown /\ Delivered /\ NotAfterTheEnd
    BY <2>3 DEF FetchInit, HoldsWhatItShuts, FlagOutlivesShutdown, Delivered, NotAfterTheEnd
  <2> QED
    BY <2>1, <2>2, <2>3 DEF FetchInv
<1> QED
  BY <1>1, FetchInductive, PTL DEF FetchSpec

(* Every variable of a download keeps its type: open_download, for any     *)
(* limit on its redirects, never follows more of them.                     *)
THEOREM FetchTypeCorrect == FetchSpec => []FetchTypeOK
<1>1. FetchInv => FetchTypeOK
  BY DEF FetchInv
<1> QED
  BY <1>1, FetchInvHolds, PTL

(* A body cut off by the watchdog's shutdown is never delivered, even one  *)
(* that ends with its connection: the check of guard.fired after the yield *)
(* of open_download.                                                       *)
THEOREM NoTruncatedDownload == FetchSpec => []CutOffNeverDelivered
<1>1. FetchInv => CutOffNeverDelivered
  BY DEF FetchInv, Delivered, CutOffNeverDelivered
<1> QED
  BY <1>1, FetchInvHolds, PTL

(* open_download connects to no host that url_ok refuses, whatever         *)
(* redirects it is sent.                                                   *)
THEOREM OnlyVettedHosts == FetchSpec => []VettedHostsOnly
<1>1. FetchInv => VettedHostsOnly
  BY DEF FetchInv, VettedHop, FreshHop, NotAfterTheEnd, Unconnected, VettedHostsOnly
<1> QED
  BY <1>1, FetchInvHolds, PTL

(* _fire never shuts down a descriptor that cancel has closed.             *)
THEOREM NeverShutsAnother == FetchSpec => ShutsItsOwnSocket
<1>1. FetchInv /\ [FetchNext]_fetchVars => [timer = "firing" /\ timer' # "firing" => dup = "held"]_fetchVars
  BY DEF FetchInv, HoldsWhatItShuts, NotAfterTheEnd
<1> QED
  BY <1>1, FetchInvHolds, PTL DEF FetchSpec, ShutsItsOwnSocket
=============================================================================
