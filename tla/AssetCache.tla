----------------------------- MODULE AssetCache -----------------------------
(***************************************************************************)
(* The footage of one beat: renders that look it up in the file cache the  *)
(* workers share, download what is missing, record it as an Asset row, pin *)
(* it to their cut and composite it.                                       *)
(*                                                                         *)
(* The fallback chain is a sequence of candidates, tried in turn: the      *)
(* original and the thumbnail of a Wikipedia page, then the hits of a      *)
(* Pexels search. A download is SafeFetch's: it ends, and its body is      *)
(* what the host sent, short if the host closed early.                     *)
(***************************************************************************)
EXTENDS Naturals, Sequences

CONSTANTS
  Renders,     \* executions of render_cut
  Cuts,
  Candidates,  \* URLs
  Chain,       \* the order in which they are tried
  Paths,       \* file names in the cache
  PathOf,      \* the file a candidate is cached in
  RefOf,       \* the source and source_ref of its Asset row
  Images,      \* the candidates whose refusals are remembered
  LegacyFiles, \* files cached before their content was checked
  None

(* A file's name begins with its source's, and a source has images only or *)
(* videos only; what a search does not list is passed over by Look.        *)
ASSUME AssetCacheAssumption ==
  /\ Chain \in Seq(Candidates) /\ Chain # << >>
  /\ PathOf \in [Candidates -> Paths]
  /\ Images \subseteq Candidates
  /\ \A c, d \in Candidates : PathOf[c] = PathOf[d] => (c \in Images <=> d \in Images)
  /\ LegacyFiles \subseteq Paths
  /\ None \notin Paths

VARIABLES
  files,   \* the cache: what is at each path
  temps,   \* temporary files by name
  marks,   \* the candidates with a .refused marker
  rows,    \* Asset rows
  pin,     \* the Asset row each cut's beat is pinned to
  shown,   \* what the video of each cut shows for the beat
  black,   \* does Cut.black_frame_beat_indices list the beat?
  run      \* the executions

vars == <<files, temps, marks, rows, pin, shown, black, run>>

Refs     == {RefOf[c] : c \in Candidates}
Asset    == [ref : Refs, path : Paths]
Contents == {"absent", "part", "junk", "short", "whole"}
Names    == (Renders \X Paths) \cup Paths
PC == {"look", "discard", "ask", "fetch", "write", "check", "row", "pin", "composite"}

(* cut: the cut rendered; at: the candidate tried; found: the file the     *)
(* beat is resolved to.                                                    *)
Execution ==
  [pc : PC, cut : Cuts, at : 1 .. Len(Chain) + 1, found : Paths \cup {None}]

TypeOK ==
  /\ files \in [Paths -> Contents]
  /\ temps \in [Names -> Contents]
  /\ marks \subseteq Images
  /\ rows \subseteq Asset
  /\ pin \in [Cuts -> Asset \cup {None}]
  /\ \A c \in Cuts : pin[c] # None => pin[c] \in rows
  /\ shown \in [Cuts -> {"nothing", "media", "black"}]
  /\ black \in [Cuts -> BOOLEAN]
  /\ run \in [Renders -> Execution \cup {[pc |-> "unused"], [pc |-> "over"]}]

(* A legacy file came with the row of the render that cached it.           *)
Init ==
  /\ files = [p \in Paths |-> IF p \in LegacyFiles THEN "junk" ELSE "absent"]
  /\ temps = [n \in Names |-> "absent"]
  /\ marks = {}
  /\ rows = {a \in Asset : a.path \in LegacyFiles
                           /\ \E c \in Candidates : PathOf[c] = a.path /\ RefOf[c] = a.ref}
  /\ pin = [c \in Cuts |-> None]
  /\ shown = [c \in Cuts |-> "nothing"]
  /\ black = [c \in Cuts |-> FALSE]
  /\ run = [r \in Renders |-> [pc |-> "unused"]]

-----------------------------------------------------------------------------
At(r, p)     == run[r].pc = p
Candidate(r) == Chain[run[r].at]
Target(r)    == PathOf[Candidate(r)]
Goto(r, p)   == run' = [run EXCEPT ![r].pc = p]
Sourced      == <<rows, pin, shown, black>>

(* Mutant: what was downloaded is not looked at.                           *)
AdmittedUnread(c, body) == TRUE

(* require_media, fit_image, cached_media_ok: an image is decoded in full, *)
(* of a video only the first bytes are looked at.                          *)
Admitted(c, body) == IF c \in Images THEN body = "whole" ELSE body # "junk"

(* The next candidate, or a beat with no footage.                          *)
TryNext(r) ==
  run' = [run EXCEPT ![r].at = @ + 1,
                     ![r].pc = IF run[r].at < Len(Chain) THEN "look" ELSE "pin"]

(* Mutant: one temporary name per target.                                  *)
SharedTemp(r, p) == p

(* _tmp_path_for: a name of its own for every call.                        *)
Temp(r, p) == <<r, p>>

(* A source is created: temporary files an hour old are swept. How old one *)
(* is is not modelled: any may go, a write in progress included.           *)
Sweep ==
  \E swept \in SUBSET {n \in Names : temps[n] # "absent"} :
    temps' = [n \in Names |-> IF n \in swept THEN "absent" ELSE temps[n]]

(* resolve_or_reuse: a pinned asset is reused as it is, without a look at  *)
(* its file; else the chain is searched.                                   *)
Start(r) ==
  /\ At(r, "unused")
  /\ \E c \in Cuts :
       /\ run' = [run EXCEPT ![r] =
            IF pin[c] # None
              THEN [pc |-> "composite", cut |-> c, at |-> 1, found |-> pin[c].path]
              ELSE [pc |-> "look", cut |-> c, at |-> 1, found |-> None]]
  /\ Sweep
  /\ UNCHANGED <<files, marks, Sourced>>

(* Is the candidate cached? A search that fails, or does not list it,      *)
(* passes it over; else cached_media_ok reads the file, ...                *)
Look(r) ==
  /\ At(r, "look")
  /\ LET cached == files[Target(r)]
     IN  \/ TryNext(r)
         \/ cached = "absent" /\ Goto(r, "ask")
         \/ /\ cached # "absent" /\ Admitted(Candidate(r), cached)
            /\ run' = [run EXCEPT ![r].pc = "row", ![r].found = Target(r)]
         \/ cached # "absent" /\ ~Admitted(Candidate(r), cached) /\ Goto(r, "discard")
  /\ UNCHANGED <<files, temps, marks, Sourced>>

(* ... and afterwards deletes what is then at the path.                    *)
Discard(r) ==
  /\ At(r, "discard")
  /\ files' = [files EXCEPT ![Target(r)] = "absent"]
  /\ Goto(r, "ask")
  /\ UNCHANGED <<temps, marks, Sourced>>

(* A candidate is passed over when it was refused before, or when the      *)
(* search's or the render's time is spent.                                 *)
Ask(r) ==
  /\ At(r, "ask")
  /\ \/ TryNext(r)
     \/ Candidate(r) \notin marks /\ Goto(r, "fetch")
  /\ UNCHANGED <<files, temps, marks, Sourced>>

(* The body goes into a temporary file, opened anew and then filled ...     *)
OpenTemp(r) ==
  /\ At(r, "fetch")
  /\ temps' = [temps EXCEPT ![Temp(r, Target(r))] = "part"]
  /\ Goto(r, "write")
  /\ UNCHANGED <<files, marks, Sourced>>

(* ... unless it was swept, and its name with it.                          *)
FillTemp(r) ==
  /\ At(r, "write")
  /\ \E body \in {"whole", "short", "junk"} :
       temps' = [temps EXCEPT ![Temp(r, Target(r))] = IF @ = "absent" THEN @ ELSE body]
  /\ Goto(r, "check")
  /\ UNCHANGED <<files, marks, Sourced>>

(* The download fails, and its temporary file is removed.                  *)
FetchFails(r) ==
  /\ run[r].pc \in {"fetch", "write"}
  /\ temps' = [temps EXCEPT ![Temp(r, Target(r))] = "absent"]
  /\ TryNext(r)
  /\ UNCHANGED <<files, marks, Sourced>>

(* An image too big to be used is remembered as refused.                   *)
Refuse(r) ==
  /\ At(r, "fetch") /\ Candidate(r) \in Images
  /\ marks' = marks \cup {Candidate(r)}
  /\ TryNext(r)
  /\ UNCHANGED <<files, temps, Sourced>>

(* os.replace, which fails when the temporary file is gone.                *)
Install(r) ==
  /\ At(r, "check")
  /\ LET body == temps[Temp(r, Target(r))]
     IN  /\ temps' = [temps EXCEPT ![Temp(r, Target(r))] = "absent"]
         /\ IF body # "absent" /\ Admitted(Candidate(r), body)
              THEN /\ files' = [files EXCEPT ![Target(r)] = body]
                   /\ run' = [run EXCEPT ![r].pc = "row", ![r].found = Target(r)]
              ELSE TryNext(r) /\ UNCHANGED files
  /\ UNCHANGED <<marks, Sourced>>

-----------------------------------------------------------------------------
Same(r) == {a \in rows : a.ref = RefOf[Candidate(r)]}

(* _cache_asset: the row there is for this asset wins over what was just   *)
(* found, path included; there is no unique key, so two renders may both   *)
(* find none.                                                              *)
FindRow(r) ==
  /\ At(r, "row")
  /\ \E path \in IF Same(r) = {} THEN {run[r].found} ELSE {a.path : a \in Same(r)} :
       run' = [run EXCEPT ![r].pc = "pin", ![r].found = path]
  /\ UNCHANGED <<files, temps, marks, Sourced>>

(* The new row, if any, and the new pin are committed together; the old    *)
(* pin goes in any case.                                                   *)
Pin(r) ==
  /\ At(r, "pin")
  /\ LET asset == [ref |-> RefOf[Candidate(r)], path |-> run[r].found]
     IN  IF run[r].found = None
           THEN pin' = [pin EXCEPT ![run[r].cut] = None] /\ UNCHANGED rows
           ELSE pin' = [pin EXCEPT ![run[r].cut] = asset] /\ rows' = rows \cup {asset}
  /\ Goto(r, "composite")
  /\ UNCHANGED <<files, temps, marks, shown, black>>

(* The compositor shows black where there is no file, and render_cut       *)
(* records the beats it resolved to none. A file that does not decode      *)
(* fails the render.                                                       *)
Composite(r) ==
  /\ At(r, "composite")
  /\ LET p == run[r].found
         media == IF p = None THEN "absent" ELSE files[p]
     IN  \/ /\ media # "junk"
            /\ shown' = [shown EXCEPT ![run[r].cut] =
                           IF media = "absent" THEN "black" ELSE "media"]
            /\ black' = [black EXCEPT ![run[r].cut] = (p = None)]
         \/ media \in {"short", "junk"} /\ UNCHANGED <<shown, black>>
  /\ run' = [run EXCEPT ![r] = [pc |-> "over"]]
  /\ UNCHANGED <<files, temps, marks, rows, pin>>

(* The worker dies: its temporary file stays.                              *)
Kill(r) ==
  /\ run[r].pc \notin {"unused", "over"}
  /\ run' = [run EXCEPT ![r] = [pc |-> "over"]]
  /\ UNCHANGED <<files, temps, marks, Sourced>>

Next ==
  \E r \in Renders :
    \/ Start(r) \/ Look(r) \/ Discard(r) \/ Ask(r)
    \/ OpenTemp(r) \/ FillTemp(r) \/ FetchFails(r) \/ Refuse(r) \/ Install(r)
    \/ FindRow(r) \/ Pin(r) \/ Composite(r) \/ Kill(r)

Spec == Init /\ [][Next]_vars

-----------------------------------------------------------------------------
(* A file as its host sent it; an image is never short.                    *)
Complete(p) == {"whole"} \cup IF \E c \in Images : PathOf[c] = p THEN {} ELSE {"short"}

(* Whatever two workers do with one asset at a time, and wherever one is   *)
(* killed or swept, a file appears in the cache only complete: the caches  *)
(* serve whatever exists for ever.                                         *)
InstalledWhole ==
  [][\A p \in Paths : files'[p] # files[p] => files'[p] \in Complete(p) \cup {"absent"}]_vars

(* The asset a cut is pinned to, reused by every later render, has its     *)
(* complete file, unless that file was cached before it was checked.       *)
PinnedFilesPresent ==
  \A c \in Cuts : pin[c] # None /\ pin[c].path \notin LegacyFiles
                    => files[pin[c].path] \in Complete(pin[c].path)

(* "None when every beat resolved real media": a beat that is black in the *)
(* video is listed on the cut.                                             *)
BlackFramesReported == \A c \in Cuts : shown[c] = "black" => black[c]
=============================================================================
